---------------------------- MODULE DeviceProofs ----------------------------
(***************************************************************************)
(* Proofs about Devices, for any times, sectors and text typed: DevInv is  *)
(* an invariant, and a request of the disk ends when the sector has passed *)
(* under the head.                                                         *)
(***************************************************************************)
EXTENDS Devices, WellFoundedInduction, TLAPS

(* Facts about sequences. *)
LEMMA SeqLen ==
    ASSUME NEW S, NEW s \in Seq(S)
    PROVE  /\ Len(s) \in Nat /\ DOMAIN s = 1..Len(s)
           /\ \A i \in DOMAIN s : s[i] \in S
  OBVIOUS

LEMMA SeqJoin ==
    ASSUME NEW S, NEW s \in Seq(S), NEW t \in Seq(S)
    PROVE  /\ s \o t \in Seq(S) /\ Len(s \o t) = Len(s) + Len(t)
           /\ \A i \in 1..Len(s) : (s \o t)[i] = s[i]
           /\ \A i \in 1..Len(t) : (s \o t)[Len(s) + i] = t[i]
  OBVIOUS

LEMMA SeqFront ==
    ASSUME NEW S, NEW s \in Seq(S), NEW m \in 0..Len(s)
    PROVE  LET r == SubSeq(s, 1, m)
           IN  r \in Seq(S) /\ Len(r) = m /\ \A i \in 1..m : r[i] = s[i]
  OBVIOUS

LEMMA SeqRest ==
    ASSUME NEW S, NEW s \in Seq(S), NEW m \in 0..Len(s)
    PROVE  LET r == SubSeq(s, m + 1, Len(s))
           IN  /\ r \in Seq(S) /\ Len(r) = Len(s) - m
               /\ \A i \in 1..(Len(s) - m) : r[i] = s[m + i]
  OBVIOUS

LEMMA SeqTail ==
    ASSUME NEW S, NEW s \in Seq(S), s # <<>>
    PROVE  /\ Tail(s) \in Seq(S) /\ Len(Tail(s)) = Len(s) - 1 /\ Len(s) >= 1
           /\ Head(s) \in S /\ Head(s) = s[1]
           /\ \A i \in 1..(Len(s) - 1) : Tail(s)[i] = s[i + 1]
           /\ <<Head(s)>> \o Tail(s) = s
  OBVIOUS

LEMMA SeqOne ==
    ASSUME NEW S, NEW x \in S
    PROVE  <<x>> \in Seq(S) /\ Len(<<x>>) = 1 /\ <<x>>[1] = x
  OBVIOUS

(* A set of numbers that is not empty has a smallest one. *)
LEMMA SmallestIs ==
    ASSUME NEW S, S \subseteq Nat, S # {}
    PROVE  \E m \in S : \A k \in S : m <= k
  <1> DEFINE R == OpToRel(<, Nat)
  <1>1. IsWellFoundedOn(R, Nat)
    BY NatLessThanWellFounded, Zenon
  <1>2. \A k, m \in Nat : k < m => <<k, m>> \in R
    BY Zenon DEF OpToRel
  <1> HIDE DEF R
  <1>3. PICK m \in S : \A k \in S : ~ (<<k, m>> \in R)
    BY <1>1, WFMin, Zenon
  <1>4. ASSUME NEW k \in S PROVE m <= k
    <2>1. k \in Nat /\ m \in Nat
      BY Zenon
    <2>2. ~ (k < m)
      BY <1>2, <1>3, <2>1, Zenon
    <2>3. QED
      BY <2>1, <2>2
  <1>5. QED
    BY <1>4, Zenon

(* Where SortedInsert puts an interrupt. *)
LEMMA Inserted ==
    ASSUME NEW list \in Seq(PendingInterrupt), NEW e \in PendingInterrupt
    PROVE  LET r == SortedInsert(list, e)
           IN  /\ r \in Seq(PendingInterrupt) /\ Len(r) = Len(list) + 1
               /\ \E k \in 0..Len(list) :
                     /\ \A i \in 1..k : r[i] = list[i] /\ list[i].when <= e.when
                     /\ r[k + 1] = e
                     /\ \A i \in (k + 1)..Len(list) : r[i + 1] = list[i]
                     /\ k < Len(list) => e.when < list[k + 1].when
  <1> DEFINE later == {i \in DOMAIN list : e.when < list[i].when}
             k == IF later = {} THEN Len(list)
                  ELSE (CHOOSE i \in later : \A j \in later : i <= j) - 1
             a == SubSeq(list, 1, k)
             b == SubSeq(list, k + 1, Len(list))
             r == a \o <<e>> \o b
  <1>1. Len(list) \in Nat /\ DOMAIN list = 1..Len(list)
    BY SeqLen, Zenon
  <1>2. /\ k \in 0..Len(list) /\ (\A i \in 1..k : i \notin later)
        /\ (k < Len(list) => k + 1 \in later)
    <2>1. CASE later = {}
      <3>1. k = Len(list)
        BY <2>1, Zenon
      <3>2. QED
        BY <1>1, <2>1, <3>1
    <2>2. CASE later # {}
      <3> DEFINE m == CHOOSE i \in later : \A j \in later : i <= j
      <3>1. later \subseteq Nat /\ later \subseteq 1..Len(list)
        BY <1>1
      <3>2. m \in later /\ (\A j \in later : m <= j)
        BY <2>2, <3>1, SmallestIs, Zenon
      <3>3. k = m - 1
        BY <2>2, Zenon
      <3> HIDE DEF m, k, later
      <3>4. QED
        BY <1>1, <3>1, <3>2, <3>3
    <2>3. QED
      BY <2>1, <2>2, Zenon
  <1>3. SortedInsert(list, e) = r
    BY Zenon DEF SortedInsert
  <1>4. \A i \in DOMAIN list : list[i] \in PendingInterrupt /\ list[i].when \in Nat
    <2>1. \A i \in DOMAIN list : list[i] \in PendingInterrupt
      BY SeqLen, Zenon
    <2>2. QED
      BY <2>1, Zenon DEF PendingInterrupt
  <1>5. e.when \in Nat
    BY Zenon DEF PendingInterrupt
  <1>6. /\ \A i \in 1..k : i \in DOMAIN list /\ list[i].when <= e.when
        /\ (k < Len(list) => e.when < list[k + 1].when)
    <2> DEFINE l == later
    <2>1. \A i \in DOMAIN list : i \in l <=> e.when < list[i].when
      BY Zenon
    <2>2. k + 1 \in l => e.when < list[k + 1].when
      BY Zenon
    <2> HIDE DEF l, k
    <2>3. /\ k \in 0..Len(list) /\ (\A i \in 1..k : i \notin l) /\ (k < Len(list) => k + 1 \in l)
      BY <1>2, Zenon DEF l
    <2>4. QED
      BY <1>1, <1>4, <1>5, <2>1, <2>2, <2>3
  <1> HIDE DEF k, later
  <1>7. /\ a \in Seq(PendingInterrupt) /\ Len(a) = k
        /\ \A i \in 1..k : a[i] = list[i]
        /\ b \in Seq(PendingInterrupt) /\ Len(b) = Len(list) - k
        /\ \A i \in 1..(Len(list) - k) : b[i] = list[k + i]
    <2>1. k \in 0..Len(list)
      BY <1>2, Zenon
    <2>2. a \in Seq(PendingInterrupt) /\ Len(a) = k /\ \A i \in 1..k : a[i] = list[i]
      BY <2>1, SeqFront, Zenon
    <2>3. /\ b \in Seq(PendingInterrupt) /\ Len(b) = Len(list) - k
          /\ \A i \in 1..(Len(list) - k) : b[i] = list[k + i]
      BY <2>1, SeqRest, Zenon
    <2>4. QED
      BY <2>2, <2>3, Zenon
  <1> DEFINE o == <<e>>
             c == a \o o
  <1>8. o \in Seq(PendingInterrupt) /\ Len(o) = 1 /\ o[1] = e
    BY SeqOne, Zenon
  <1>9. r = c \o b
    BY Zenon
  <1> HIDE DEF a, b, o, r
  <1>10. c \in Seq(PendingInterrupt) /\ Len(c) = k + 1
         /\ (\A i \in 1..k : c[i] = list[i]) /\ c[k + 1] = e
    <2>1. /\ c \in Seq(PendingInterrupt) /\ Len(c) = k + 1
          /\ (\A i \in 1..k : c[i] = a[i]) /\ (\A i \in 1..1 : c[k + i] = o[i])
      <3>1. /\ c \in Seq(PendingInterrupt) /\ Len(c) = Len(a) + Len(o)
            /\ (\A i \in 1..Len(a) : c[i] = a[i]) /\ (\A i \in 1..Len(o) : c[Len(a) + i] = o[i])
        <4>1. a \in Seq(PendingInterrupt) /\ o \in Seq(PendingInterrupt)
          BY <1>7, <1>8, Zenon
        <4>2. QED
          BY <4>1, SeqJoin
      <3> HIDE DEF c
      <3>2. QED
        BY <1>7, <1>8, <3>1, Zenon
    <2>2. 1 \in 1..1
      OBVIOUS
    <2>3. QED
      BY <1>7, <1>8, <2>1, <2>2, Zenon
  <1> HIDE DEF c
  <1>11. /\ c \o b \in Seq(PendingInterrupt) /\ Len(c \o b) = (k + 1) + (Len(list) - k)
         /\ \A i \in 1..(k + 1) : (c \o b)[i] = c[i]
         /\ \A i \in 1..(Len(list) - k) : (c \o b)[(k + 1) + i] = b[i]
    <2> DEFINE d == c \o b
    <2>1. /\ d \in Seq(PendingInterrupt) /\ Len(d) = Len(c) + Len(b)
          /\ (\A i \in 1..Len(c) : d[i] = c[i]) /\ (\A i \in 1..Len(b) : d[Len(c) + i] = b[i])
      <3>1. c \in Seq(PendingInterrupt) /\ b \in Seq(PendingInterrupt)
        BY <1>7, <1>10, Zenon
      <3>2. QED
        BY <3>1, SeqJoin
    <2> HIDE DEF d
    <2>2. /\ d \in Seq(PendingInterrupt) /\ Len(d) = (k + 1) + (Len(list) - k)
          /\ (\A i \in 1..(k + 1) : d[i] = c[i])
          /\ (\A i \in 1..(Len(list) - k) : d[(k + 1) + i] = b[i])
      BY <1>7, <1>10, <2>1, Zenon
    <2>3. QED
      BY <2>2, Zenon DEF d
  <1>12. \A i \in (k + 1)..Len(list) : (c \o b)[i + 1] = list[i]
    <2>1. SUFFICES ASSUME NEW i \in (k + 1)..Len(list) PROVE (c \o b)[i + 1] = list[i]
      BY Zenon
    <2>2. i - k \in 1..(Len(list) - k) /\ (k + 1) + (i - k) = i + 1 /\ k + (i - k) = i
      BY <1>1, <1>2
    <2>3. (c \o b)[(k + 1) + (i - k)] = b[i - k] /\ b[i - k] = list[k + (i - k)]
      BY <1>7, <1>11, <2>2, Zenon
    <2>4. QED
      BY <2>2, <2>3, Zenon
  <1>13. (\A i \in 1..k : (c \o b)[i] = list[i]) /\ (c \o b)[k + 1] = e
    <2>1. (\A i \in 1..k : i \in 1..(k + 1)) /\ k + 1 \in 1..(k + 1)
      BY <1>1, <1>2
    <2>2. QED
      BY <1>10, <1>11, <2>1, Zenon
  <1>14. Len(c \o b) = Len(list) + 1
    BY <1>1, <1>2, <1>11
  <1>15. r \in Seq(PendingInterrupt) /\ Len(r) = Len(list) + 1
         /\ (\A i \in 1..k : r[i] = list[i] /\ list[i].when <= e.when) /\ r[k + 1] = e
         /\ \A i \in (k + 1)..Len(list) : r[i + 1] = list[i]
    BY <1>6, <1>9, <1>11, <1>12, <1>13, <1>14, Zenon
  <1>16. QED
    BY <1>2, <1>3, <1>6, <1>15, Zenon

-----------------------------------------------------------------------------
(* The list of pending interrupts: in order, and no type twice. *)
LEMMA InsertKeeps ==
    ASSUME NEW list \in Seq(PendingInterrupt), Ordered(list), Single(list),
           NEW e \in PendingInterrupt, ~Holds(list, e.type)
    PROVE  LET r == SortedInsert(list, e)
           IN  /\ r \in Seq(PendingInterrupt) /\ Ordered(r) /\ Single(r)
               /\ \A type : Holds(r, type) <=> Holds(list, type) \/ type = e.type
               /\ \A i \in DOMAIN r : r[i] = e \/ \E j \in DOMAIN list : r[i] = list[j]
  <1> DEFINE r == SortedInsert(list, e)
             n == Len(list)
  <1>1. /\ r \in Seq(PendingInterrupt) /\ Len(r) = n + 1
        /\ \E k \in 0..n :
              /\ \A i \in 1..k : r[i] = list[i] /\ list[i].when <= e.when
              /\ r[k + 1] = e
              /\ \A i \in (k + 1)..n : r[i + 1] = list[i]
              /\ k < n => e.when < list[k + 1].when
    BY Inserted, Zenon
  <1>2. n \in Nat /\ DOMAIN list = 1..n
    BY SeqLen, Zenon
  <1>3. DOMAIN r = 1..(n + 1)
    BY <1>1, SeqLen, Zenon
  <1> HIDE DEF r, n
  <1>4. PICK k \in 0..n :
              /\ \A i \in 1..k : r[i] = list[i] /\ list[i].when <= e.when
              /\ r[k + 1] = e
              /\ \A i \in (k + 1)..n : r[i + 1] = list[i]
              /\ k < n => e.when < list[k + 1].when
    BY <1>1, Zenon
  <1>5. \A i \in 1..n : list[i].when \in Nat /\ e.when \in Nat
    <2>1. \A i \in DOMAIN list : list[i] \in PendingInterrupt
      BY SeqLen, Zenon
    <2>2. QED
      BY <1>2, <2>1, Zenon DEF PendingInterrupt
  <1>6. \A i \in (k + 1)..n : e.when <= list[i].when
    <2>1. SUFFICES ASSUME NEW i \in (k + 1)..n PROVE e.when <= list[i].when
      BY Zenon
    <2>2. k + 1 \in 1..n /\ i \in 1..n /\ k < n
      BY <1>2
    <2>3. list[k + 1].when <= list[i].when
      <3>1. CASE i = k + 1
        BY <1>5, <2>2, <3>1
      <3>2. CASE i # k + 1
        <4>1. k + 1 < i
          BY <2>2, <3>2
        <4>2. QED
          BY <1>2, <2>2, <4>1, Zenon DEF Ordered
      <3>3. QED
        BY <3>1, <3>2, Zenon
    <2>4. e.when < list[k + 1].when
      BY <1>4, <2>2, Zenon
    <2>5. e.when \in Nat /\ list[k + 1].when \in Nat /\ list[i].when \in Nat
      BY <1>5, <2>2, Zenon
    <2>6. QED
      BY <2>3, <2>4, <2>5
  (* Where the entries of the longer list come from. *)
  <1>7. ASSUME NEW i \in 1..(n + 1)
        PROVE  \/ i = k + 1 /\ r[i] = e
               \/ i \in 1..k /\ i \in 1..n /\ r[i] = list[i]
               \/ i - 1 \in (k + 1)..n /\ i - 1 \in 1..n /\ r[i] = list[i - 1]
    <2>1. i = k + 1 \/ (i \in 1..k /\ i \in 1..n) \/ (i - 1 \in (k + 1)..n /\ i - 1 \in 1..n)
      BY <1>2
    <2>2. i - 1 \in (k + 1)..n => r[(i - 1) + 1] = list[i - 1] /\ (i - 1) + 1 = i
      BY <1>4
    <2>3. QED
      BY <1>4, <2>1, <2>2, Zenon
  <1>8. Ordered(r)
    <2>1. SUFFICES ASSUME NEW i \in 1..(n + 1), NEW j \in 1..(n + 1), i < j
                   PROVE  r[i].when <= r[j].when
      BY <1>3, Zenon DEF Ordered
    <2>2. CASE i = k + 1 /\ r[i] = e
      <3>1. j - 1 \in (k + 1)..n /\ r[j] = list[j - 1]
        BY <1>2, <1>7, <2>1, <2>2
      <3>2. QED
        BY <1>6, <2>2, <3>1, Zenon
    <2>3. CASE i \in 1..k /\ i \in 1..n /\ r[i] = list[i]
      <3>1. CASE j = k + 1 /\ r[j] = e
        BY <1>4, <2>3, <3>1, Zenon
      <3>2. CASE j \in 1..k /\ j \in 1..n /\ r[j] = list[j]
        BY <1>2, <2>1, <2>3, <3>2, Zenon DEF Ordered
      <3>3. CASE j - 1 \in (k + 1)..n /\ j - 1 \in 1..n /\ r[j] = list[j - 1]
        <4>1. i < j - 1
          BY <1>2, <2>3, <3>3
        <4>2. QED
          BY <1>2, <2>3, <3>3, <4>1, Zenon DEF Ordered
      <3>4. QED
        BY <1>7, <3>1, <3>2, <3>3, Zenon
    <2>4. CASE i - 1 \in (k + 1)..n /\ i - 1 \in 1..n /\ r[i] = list[i - 1]
      <3>1. j - 1 \in (k + 1)..n /\ j - 1 \in 1..n /\ r[j] = list[j - 1] /\ i - 1 < j - 1
        BY <1>2, <1>7, <2>1, <2>4
      <3>2. QED
        BY <1>2, <2>4, <3>1, Zenon DEF Ordered
    <2>5. QED
      BY <1>7, <2>2, <2>3, <2>4, Zenon
  <1>9. \A i \in 1..n : list[i].type # e.type
    BY <1>2, Zenon DEF Holds
  <1>10. Single(r)
    <2>1. SUFFICES ASSUME NEW i \in 1..(n + 1), NEW j \in 1..(n + 1), r[i].type = r[j].type
                   PROVE  i = j
      BY <1>3, Zenon DEF Single
    <2>2. \A a, b \in 1..n : list[a].type = list[b].type => a = b
      BY <1>2, Zenon DEF Single
    <2>3. i = k + 1 <=> j = k + 1
      <3>1. i = k + 1 => j = k + 1
        BY <1>4, <1>7, <1>9, <2>1, Zenon
      <3>2. j = k + 1 => i = k + 1
        BY <1>4, <1>7, <1>9, <2>1
      <3>3. QED
        BY <3>1, <3>2, Zenon
    <2>4. CASE i = k + 1
      BY <2>3, <2>4, Zenon
    <2>5. CASE i # k + 1
      <3> DEFINE p(a) == IF a \in 1..k THEN a ELSE a - 1
      <3>1. \A a \in 1..(n + 1) : a # k + 1 => p(a) \in 1..n /\ r[a] = list[p(a)]
        BY <1>2, <1>7
      <3>2. p(i) = p(j)
        <4>1. /\ p(i) \in 1..n /\ r[i] = list[p(i)]
              /\ p(j) \in 1..n /\ r[j] = list[p(j)]
          BY <2>3, <2>5, <3>1, Zenon
        <4> HIDE DEF p
        <4>2. QED
          BY <2>1, <2>2, <4>1, Zenon
      <3>3. QED
        BY <1>2, <2>3, <2>5, <3>2
    <2>6. QED
      BY <2>4, <2>5, Zenon
  <1>11. \A i \in DOMAIN r : r[i] = e \/ \E j \in DOMAIN list : r[i] = list[j]
    BY <1>2, <1>3, <1>7, Zenon
  <1>12. \A j \in 1..n : \E i \in 1..(n + 1) : r[i] = list[j]
    <2>1. SUFFICES ASSUME NEW j \in 1..n PROVE \E i \in 1..(n + 1) : r[i] = list[j]
      BY Zenon
    <2>2. (j \in 1..k /\ j \in 1..(n + 1)) \/ (j \in (k + 1)..n /\ j + 1 \in 1..(n + 1))
      BY <1>2
    <2>3. QED
      BY <1>4, <2>2, Zenon
  <1>13. k + 1 \in 1..(n + 1)
    BY <1>2
  <1>14. \A type : Holds(r, type) <=> Holds(list, type) \/ type = e.type
    <2>1. ASSUME NEW type, Holds(r, type) PROVE Holds(list, type) \/ type = e.type
      BY <1>11, <2>1, Zenon DEF Holds
    <2>2. ASSUME NEW type, Holds(list, type) PROVE Holds(r, type)
      BY <1>2, <1>3, <1>12, <2>2, Zenon DEF Holds
    <2>3. Holds(r, e.type)
      BY <1>3, <1>4, <1>13, Zenon DEF Holds
    <2>4. QED
      BY <2>1, <2>2, <2>3, Zenon
  <1>15. QED
    BY <1>1, <1>8, <1>10, <1>11, <1>14, Zenon DEF r

(* What is left of the list when its first interrupt is taken from it. *)
LEMMA TailKeeps ==
    ASSUME NEW list \in Seq(PendingInterrupt), Ordered(list), Single(list), list # <<>>
    PROVE  LET r == Tail(list)
           IN  /\ r \in Seq(PendingInterrupt) /\ Ordered(r) /\ Single(r)
               /\ Head(list) \in PendingInterrupt /\ Holds(list, Head(list).type)
               /\ \A type : Holds(r, type) <=> Holds(list, type) /\ type # Head(list).type
               /\ \A i \in DOMAIN r : \E j \in DOMAIN list : r[i] = list[j]
               /\ \A i \in DOMAIN list : Head(list).when <= list[i].when
               /\ \A i \in DOMAIN list : list[i] = Head(list) \/ \E j \in DOMAIN r : list[i] = r[j]
  <1> DEFINE r == Tail(list)
             n == Len(list)
  <1>1. /\ r \in Seq(PendingInterrupt) /\ Len(r) = n - 1 /\ n >= 1
        /\ Head(list) \in PendingInterrupt /\ Head(list) = list[1]
        /\ \A i \in 1..(n - 1) : r[i] = list[i + 1]
    BY SeqTail, Zenon
  <1>2. n \in Nat /\ DOMAIN list = 1..n
    BY SeqLen, Zenon
  <1>3. DOMAIN r = 1..(n - 1)
    BY <1>1, SeqLen, Zenon
  <1>4. \A i \in 1..n : list[i].when \in Nat
    <2>1. \A i \in DOMAIN list : list[i] \in PendingInterrupt
      BY SeqLen, Zenon
    <2>2. QED
      BY <1>2, <2>1, Zenon DEF PendingInterrupt
  <1> HIDE DEF r, n
  <1>5. 1 \in 1..n /\ (\A i \in 1..(n - 1) : i + 1 \in 1..n)
        /\ (\A i \in 1..n : i # 1 => i - 1 \in 1..(n - 1) /\ (i - 1) + 1 = i /\ 1 < i)
    BY <1>1, <1>2
  <1>6. Ordered(r)
    <2>1. \A i, j \in 1..(n - 1) : i < j => i + 1 < j + 1
      BY <1>2
    <2>2. SUFFICES ASSUME NEW i \in 1..(n - 1), NEW j \in 1..(n - 1), i < j
                   PROVE  r[i].when <= r[j].when
      BY <1>3, Zenon DEF Ordered
    <2>3. list[i + 1].when <= list[j + 1].when
      BY <1>2, <1>5, <2>1, <2>2, Zenon DEF Ordered
    <2>4. QED
      BY <1>1, <2>3, Zenon
  <1>7. Single(r)
    <2>1. SUFFICES ASSUME NEW i \in 1..(n - 1), NEW j \in 1..(n - 1), r[i].type = r[j].type
                   PROVE  i = j
      BY <1>3, Zenon DEF Single
    <2>2. i + 1 = j + 1
      BY <1>1, <1>2, <1>5, <2>1, Zenon DEF Single
    <2>3. QED
      BY <1>2, <2>2
  <1>8. \A i \in DOMAIN list : Head(list).when <= list[i].when
    <2>1. SUFFICES ASSUME NEW i \in 1..n PROVE list[1].when <= list[i].when
      BY <1>1, <1>2, Zenon
    <2>2. CASE i = 1
      BY <1>4, <2>2
    <2>3. CASE i # 1
      BY <1>2, <1>5, <2>3, Zenon DEF Ordered
    <2>4. QED
      BY <2>2, <2>3, Zenon
  <1>9. \A i \in DOMAIN list : list[i] = Head(list) \/ \E j \in DOMAIN r : list[i] = r[j]
    <2>1. SUFFICES ASSUME NEW i \in 1..n, i # 1 PROVE \E j \in 1..(n - 1) : list[i] = r[j]
      BY <1>1, <1>2, <1>3, Zenon
    <2>2. r[i - 1] = list[(i - 1) + 1]
      BY <1>1, <1>5, <2>1, Zenon
    <2>3. QED
      BY <1>5, <2>1, <2>2, Zenon
  <1>10. \A i \in DOMAIN r : \E j \in DOMAIN list : r[i] = list[j]
    BY <1>1, <1>2, <1>3, <1>5, Zenon
  <1>11. \A i \in DOMAIN r : r[i].type # Head(list).type
    <2>1. SUFFICES ASSUME NEW i \in 1..(n - 1), list[i + 1].type = list[1].type PROVE FALSE
      BY <1>1, <1>3, Zenon
    <2>2. i + 1 = 1
      BY <1>2, <1>5, <2>1, Zenon DEF Single
    <2>3. QED
      BY <1>2, <2>2
  <1>12. \A type : Holds(r, type) <=> Holds(list, type) /\ type # Head(list).type
    BY <1>9, <1>10, <1>11, Zenon DEF Holds
  <1>13. Holds(list, Head(list).type)
    BY <1>1, <1>2, <1>5, Zenon DEF Holds
  <1>14. QED
    BY <1>1, <1>6, <1>7, <1>8, <1>9, <1>10, <1>12, <1>13, Zenon DEF r
-----------------------------------------------------------------------------
(* Division with a remainder, and multiples. *)
LEMMA DivMod ==
    ASSUME NEW P \in Nat \ {0}, NEW x \in Int
    PROVE  /\ x % P \in 0..(P - 1) /\ x \div P \in Int
           /\ x = ((x \div P) * P) + (x % P)
  OBVIOUS

LEMMA DivNat ==
    ASSUME NEW P \in Nat \ {0}, NEW x \in Nat
    PROVE  x \div P \in Nat
  OBVIOUS

LEMMA ModUnique ==
    ASSUME NEW P \in Nat \ {0}, NEW q \in Int, NEW r \in 0..(P - 1)
    PROVE  ((q * P) + r) % P = r /\ ((q * P) + r) \div P = q
  OBVIOUS

LEMMA Multiple ==
    ASSUME NEW P \in Nat \ {0}, NEW q \in Int
    PROVE  (q * P) % P = 0 /\ (q * P) \div P = q /\ q * P \in Int
  <1>1. 0 \in 0..(P - 1) /\ q * P \in Int /\ (q * P) + 0 = q * P
    OBVIOUS
  <1>2. QED
    BY <1>1, ModUnique, Zenon

(* The sectors from one to another, all the way round the track. *)
LEMMA ModuloDiffIs ==
    ASSUME NEW to \in Nat, NEW from \in Nat
    PROVE  /\ ModuloDiff(to, from) \in 0..(SectorsPerTrack - 1)
           /\ ((from + ModuloDiff(to, from)) - to) % SectorsPerTrack = 0
  <1> DEFINE S == SectorsPerTrack
             a == to \div S
             u == to % S
             b == from \div S
             v == from % S
             d == (u - v) + S
             c == d \div S
             m == d % S
  <1>0. S \in Nat \ {0}
    BY DevicesAssumption, Zenon
  <1>1. a \in Int /\ u \in 0..(S - 1) /\ to = (a * S) + u
    BY <1>0, DivMod
  <1>2. b \in Int /\ v \in 0..(S - 1) /\ from = (b * S) + v
    BY <1>0, DivMod
  <1>3. d \in Int
    BY <1>0, <1>1, <1>2
  <1>4. c \in Int /\ m \in 0..(S - 1) /\ d = (c * S) + m
    BY <1>0, <1>3, DivMod, Zenon
  <1>5. ModuloDiff(to, from) = m
    BY Zenon DEF ModuloDiff
  <1>6. d = (u - v) + S
    BY Zenon
  <1> HIDE DEF S, a, u, b, v, c, m, d
  <1>7. (from + m) - to = (((b - a) + 1) - c) * S /\ ((b - a) + 1) - c \in Int
    <2>1. (((b - a) + 1) - c) * S = (((b * S) - (a * S)) + S) - (c * S)
      BY <1>0, <1>1, <1>2, <1>4
    <2>2. b * S \in Int /\ a * S \in Int /\ c * S \in Int
      BY <1>0, <1>1, <1>2, <1>4
    <2>3. QED
      BY <1>0, <1>1, <1>2, <1>4, <1>6, <2>1, <2>2
  <1>8. ((((b - a) + 1) - c) * S) % S = 0
    BY <1>0, <1>7, Multiple, Zenon
  <1>9. QED
    BY <1>4, <1>5, <1>7, <1>8, Zenon DEF S

(* The head is ready at the beginning of a sector. *)
LEMMA SeekIs ==
    ASSUME DevTypeOK, NEW sector \in Nat
    PROVE  Seek(sector) \in Nat
  <1>1. SectorsPerTrack \in Nat \ {0} /\ SeekTime \in Nat /\ lastSector \in Nat
    BY DevicesAssumption, Zenon DEF DevTypeOK
  <1> DEFINE m == sector \div SectorsPerTrack
             n == lastSector \div SectorsPerTrack
  <1>2. m \in Nat /\ n \in Nat
    BY <1>1, DivNat, Zenon
  <1> HIDE DEF m, n
  <1>3. Distance(m, n) \in Nat
    BY <1>2 DEF Distance
  <1>4. Distance(m, n) * SeekTime \in Nat
    BY <1>1, <1>3
  <1>5. QED
    BY <1>4, Zenon DEF Seek, m, n

LEMMA AlignedIs ==
    ASSUME DevTypeOK, NEW sector \in Nat
    PROVE  /\ Rotation(sector) \in 0..(RotationTime - 1)
           /\ TimeAfter(sector) \in Nat
           /\ \E q \in Nat : TimeAfter(sector) = q * RotationTime
  <1> DEFINE R == RotationTime
             x == totalTicks + Seek(sector)
  <1>1. R \in Nat \ {0} /\ totalTicks \in Nat
    BY DevicesAssumption, Zenon DEF DevTypeOK
  <1>2. x \in Nat
    BY <1>1, SeekIs
  <1>4. Rotation(sector) = IF x % R > 0 THEN R - (x % R) ELSE 0
    BY Zenon DEF Rotation
  <1>5. TimeAfter(sector) = x + Rotation(sector)
    BY Zenon DEF TimeAfter
  <1> HIDE DEF R, x
  <1> DEFINE q == x \div R
             over == x % R
  <1>3. q \in Nat /\ over \in 0..(R - 1) /\ x = (q * R) + over
    <2>1. x \in Int
      BY <1>2
    <2>2. over \in 0..(R - 1) /\ x = (q * R) + over
      BY <1>1, <2>1, DivMod, Zenon
    <2>3. q \in Nat
      BY <1>1, <1>2, DivNat, Zenon
    <2>4. QED
      BY <2>2, <2>3, Zenon
  <1>6a. Rotation(sector) = IF over > 0 THEN R - over ELSE 0
    BY <1>4, Zenon
  <1> HIDE DEF q, over
  <1>6. Rotation(sector) \in 0..(R - 1) /\ TimeAfter(sector) \in Nat
    BY <1>1, <1>2, <1>3, <1>6a, <1>5
  <1>7. CASE over > 0
    <2>1. TimeAfter(sector) = (q + 1) * R /\ q + 1 \in Nat
      <3>1. (q + 1) * R = (q * R) + R /\ q * R \in Nat
        BY <1>1, <1>3
      <3>2. QED
        BY <1>1, <1>3, <1>6a, <1>5, <1>7, <3>1
    <2>2. QED
      BY <1>6, <2>1, Zenon DEF R
  <1>8. CASE ~(over > 0)
    <2>1. TimeAfter(sector) = q * R
      <3>1. q * R \in Nat /\ over = 0
        BY <1>1, <1>3, <1>8
      <3>2. QED
        BY <1>3, <1>6a, <1>5, <1>8, <3>1
    <2>2. QED
      BY <1>3, <1>6, <2>1, Zenon DEF R
  <1>9. QED
    BY <1>7, <1>8, Zenon

(* Every request takes some time, and is ready at the end of its sector. *)
LEMMA LatencyIs ==
    ASSUME DevTypeOK, NEW sector \in Nat, NEW writing \in BOOLEAN
    PROVE  /\ ComputeLatency(sector, writing) \in Nat \ {0}
           /\ ~(~writing /\ InTrackBuffer(sector)) =>
                 \E q \in Nat :
                    /\ TimeAfter(sector) = q * RotationTime
                    /\ totalTicks + ComputeLatency(sector, writing) =
                          ((q + ModuloDiff(sector, q)) + 1) * RotationTime
  <1> DEFINE R == RotationTime
             T == TimeAfter(sector)
             l == ComputeLatency(sector, writing)
  <1>1. R \in Nat \ {0} /\ totalTicks \in Nat /\ Seek(sector) \in Nat /\ Rotation(sector) \in Nat
    <2>1. R \in Nat \ {0} /\ totalTicks \in Nat
      BY DevicesAssumption, Zenon DEF DevTypeOK
    <2>2. Seek(sector) \in Nat /\ Rotation(sector) \in 0..(R - 1)
      BY SeekIs, AlignedIs, Zenon
    <2>3. QED
      BY <2>1, <2>2
  <1>2. PICK q \in Nat : T = q * R
    BY AlignedIs, Zenon
  <1>3. T = totalTicks + Seek(sector) + Rotation(sector)
    BY Zenon DEF TimeAfter
  <1> DEFINE m == ModuloDiff(sector, q)
  <1>4. m \in Nat
    <2>1. m \in 0..(SectorsPerTrack - 1) /\ SectorsPerTrack \in Nat
      BY ModuloDiffIs, DevicesAssumption, Zenon
    <2>2. QED
      BY <2>1
  <1>5. m * R \in Nat /\ q * R \in Nat /\ ((q + m) + 1) * R = ((q * R) + (m * R)) + R
    BY <1>1, <1>4
  <1>6. CASE ~writing /\ InTrackBuffer(sector)
    BY <1>1, <1>6, Zenon DEF ComputeLatency
  <1>7. CASE ~(~writing /\ InTrackBuffer(sector))
    <2>1. T \div R = q
      BY <1>1, <1>2, Multiple
    <2>2. l = Seek(sector) + Rotation(sector) + (m * R) + R
      BY <1>7, <2>1, Zenon DEF ComputeLatency
    <2> HIDE DEF T, m, l, R
    <2>3. l \in Nat \ {0} /\ totalTicks + l = ((q + m) + 1) * R
      BY <1>1, <1>2, <1>3, <1>5, <2>2
    <2>4. QED
      BY <1>2, <1>7, <2>3, Zenon DEF T, m, l, R
  <1>8. QED
    BY <1>6, <1>7, Zenon

LEMMA RequestOnTime ==
    ASSUME DevTypeOK, NEW sector \in DiskSector, NEW writing \in BOOLEAN,
           DiskRequest(sector, writing)
    PROVE  DiskOnTime'
  <1> DEFINE R == RotationTime
             T == TimeAfter(sector)
             l == ComputeLatency(sector, writing)
             buffered == ~writing /\ InTrackBuffer(sector)
             f == bufferInit \div R
  <1>1. /\ R \in Nat \ {0} /\ totalTicks \in Nat /\ bufferInit \in Nat /\ sector \in Nat
        /\ SectorsPerTrack \in Nat \ {0}
    BY DevicesAssumption, Zenon DEF DevTypeOK
  <1>2. /\ Seek(sector) \in Nat /\ Rotation(sector) \in 0..(R - 1) /\ T \in Nat
    BY <1>1, SeekIs, AlignedIs, Zenon
  <1>3. /\ request'.sector = sector /\ request'.done = totalTicks + l
        /\ request'.bufferInit = bufferInit /\ request'.buffered = buffered
    BY Zenon DEF DiskRequest
  <1>4. CASE buffered
    <2> DEFINE k == ModuloDiff(sector, f)
               y == T - bufferInit
    <2>1. f \in Nat
      BY <1>1, DivNat, Zenon
    <2>2. k \in 0..(SectorsPerTrack - 1) /\ ((f + k) - sector) % SectorsPerTrack = 0
      BY <1>1, <2>1, ModuloDiffIs, Zenon
    <2>3. y \div R > k /\ Seek(sector) = 0 /\ l = R
      BY <1>4, Zenon DEF InTrackBuffer, ComputeLatency
    <2>4. y \in Int
      BY <1>1, <1>2
    <2>5. T = totalTicks + Seek(sector) + Rotation(sector)
      BY Zenon DEF TimeAfter
    <2>6. y = T - bufferInit
      BY Zenon
    <2> HIDE DEF R, T, l, f, k, y
    <2>7. y \div R \in Int /\ y % R \in Nat /\ y = ((y \div R) * R) + (y % R)
      <3>1. y % R \in 0..(R - 1) /\ y \div R \in Int /\ y = ((y \div R) * R) + (y % R)
        BY <1>1, <2>4, DivMod, Zenon
      <3>2. QED
        BY <1>1, <3>1
    <2>8. y >= (k + 1) * R /\ (k + 1) * R >= k + 1
      <3> DEFINE z == y \div R
      <3>1. z \in Int /\ k \in Nat /\ z >= k + 1
        BY <1>1, <2>2, <2>3, <2>7
      <3>2. y >= z * R
        BY <1>1, <2>4, <2>7
      <3> HIDE DEF z
      <3>3. z * R >= (k + 1) * R /\ (k + 1) * R >= k + 1 /\ (k + 1) * R \in Int /\ z * R \in Int
        BY <1>1, <3>1
      <3>4. QED
        BY <2>4, <3>2, <3>3
    <2>9. bufferInit + ((k + 1) * R) < totalTicks + l /\ k \in 0..(totalTicks + l)
      <3>1. k \in Nat /\ (k + 1) * R \in Int
        BY <1>1, <2>2
      <3>2. QED
        BY <1>1, <1>2, <2>3, <2>4, <2>5, <2>6, <2>8, <3>1
    <2>10. \E j \in 0..request'.done :
                /\ ((request'.bufferInit \div RotationTime) + j - request'.sector)
                      % SectorsPerTrack = 0
                /\ request'.bufferInit + (j + 1) * RotationTime < request'.done
      <3>1. /\ ((request'.bufferInit \div RotationTime) + k - request'.sector)
                  % SectorsPerTrack = 0
            /\ request'.bufferInit + (k + 1) * RotationTime < request'.done
            /\ k \in 0..request'.done
        <4>1. request'.bufferInit \div RotationTime = f /\ RotationTime = R
          BY <1>3, Zenon DEF f, R
        <4>2. ((request'.bufferInit \div RotationTime) + k - request'.sector)
                  % SectorsPerTrack = 0
          BY <1>1, <1>3, <2>1, <2>2, <4>1
        <4>3. /\ request'.bufferInit + (k + 1) * RotationTime < request'.done
              /\ k \in 0..request'.done
          BY <1>3, <2>9, <4>1, Zenon
        <4>4. QED
          BY <4>2, <4>3, Zenon
      <3>2. QED
        BY <3>1, Zenon
    <2>11. QED
      BY <1>3, <1>4, <2>10, Zenon DEF DiskOnTime
  <1>5. CASE ~buffered
    <2>1. PICK q \in Nat : totalTicks + l = ((q + ModuloDiff(sector, q)) + 1) * R
      <3>1. ~(~writing /\ InTrackBuffer(sector)) /\ sector \in Nat
        BY <1>1, <1>5, Zenon
      <3>2. \E q \in Nat :
               /\ TimeAfter(sector) = q * RotationTime
               /\ totalTicks + ComputeLatency(sector, writing) =
                     ((q + ModuloDiff(sector, q)) + 1) * RotationTime
        BY <3>1, LatencyIs, Zenon
      <3>3. QED
        BY <3>2, Zenon
    <2> DEFINE m == ModuloDiff(sector, q)
    <2>2. m \in Nat /\ ((q + m) - sector) % SectorsPerTrack = 0
      <3>1. m \in 0..(SectorsPerTrack - 1) /\ ((q + m) - sector) % SectorsPerTrack = 0
        BY <1>1, ModuloDiffIs, Zenon
      <3>2. QED
        BY <1>1, <3>1
    <2> HIDE DEF m
    <2>3. (((q + m) + 1) * R) % R = 0 /\ (((q + m) + 1) * R) \div R = (q + m) + 1
      BY <1>1, <2>2, Multiple
    <2>4. request'.done = ((q + m) + 1) * R
      BY <1>3, <2>1, Zenon DEF m
    <2>5. (request'.done \div R) - 1 - request'.sector = (q + m) - sector
      BY <1>1, <1>3, <2>2, <2>3, <2>4
    <2>6. /\ request'.done % RotationTime = 0
          /\ ((request'.done \div RotationTime) - 1 - request'.sector) % SectorsPerTrack = 0
      BY <2>2, <2>3, <2>4, <2>5, Zenon
    <2>7. QED
      BY <1>3, <1>5, <2>6, Zenon DEF DiskOnTime
  <1>6. QED
    BY <1>4, <1>5, Zenon
-----------------------------------------------------------------------------
(* Echoing a character, and taking the next one from the keyboard.          *)
LEMMA EchoOne ==
    ASSUME NEW S, NEW s \in Seq(S), NEW x \in S
    PROVE  Append(s, x) \in Seq(S) /\ Append(s, x) \o <<>> = s \o <<x>>
  OBVIOUS

LEMMA TypeOne ==
    ASSUME NEW S, NEW s \in Seq(S), NEW t \in Seq(S), t # <<>>
    PROVE  /\ Head(t) \in S /\ Tail(t) \in Seq(S)
           /\ s \o <<Head(t)>> \o Tail(t) = s \o <<>> \o t
  OBVIOUS

(* What Interrupt::Schedule does to a list without that interrupt.          *)
Added(list, type, r) ==
    /\ r \in Seq(PendingInterrupt) /\ Ordered(r) /\ Single(r)
    /\ \A t : Holds(r, t) <=> Holds(list, t) \/ t = type
    /\ \A i \in DOMAIN r : r[i].when <= totalTicks => \E j \in DOMAIN list : r[i] = list[j]

LEMMA ScheduleKeeps ==
    ASSUME DevTypeOK, NEW list \in Seq(PendingInterrupt), Ordered(list), Single(list),
           NEW fromNow \in Nat \ {0}, NEW type \in IntType, ~Holds(list, type)
    PROVE  Added(list, type, Scheduled(list, fromNow, type))
  <1> DEFINE r == Scheduled(list, fromNow, type)
             e == [when |-> totalTicks + fromNow, type |-> type]
  <1>1. totalTicks \in Nat
    BY Zenon DEF DevTypeOK
  <1>2. /\ e \in PendingInterrupt /\ e.type = type /\ e.when = totalTicks + fromNow
        /\ ~(e.when <= totalTicks)
    BY <1>1 DEF PendingInterrupt
  <1>3. r = SortedInsert(list, e)
    BY Zenon DEF Scheduled
  <1> HIDE DEF e, r
  <1>4. /\ r \in Seq(PendingInterrupt) /\ Ordered(r) /\ Single(r)
        /\ \A t : Holds(r, t) <=> Holds(list, t) \/ t = e.type
        /\ \A i \in DOMAIN r : r[i] = e \/ \E j \in DOMAIN list : r[i] = list[j]
    <2>1. e \in PendingInterrupt /\ ~Holds(list, e.type)
      BY <1>2, Zenon
    <2>2. QED
      BY <1>3, <2>1, InsertKeeps
  <1>5. QED
    BY <1>2, <1>4, Zenon DEF r, Added

(* The interrupts left to the timer: 1 to 2 * TimerTicks from now.          *)
LEMMA NextTimer == TimeOfNextInterrupt \subseteq Nat \ {0}
  BY DevicesAssumption DEF TimeOfNextInterrupt

(* Enabling interrupts, or not, in a running thread.                        *)
LEMMA OneTickKeeps ==
    ASSUME DevInv, phase \in {"run", "tick"}, NEW ticks \in {UserTick, SystemTick},
           OneTick(ticks)
    PROVE  /\ totalTicks' \in Nat /\ phase' = "tick" /\ timer' = timer
           /\ IdleSound' /\ HaltsWhenDone'
  <1>1. totalTicks' \in Nat
    BY DevicesAssumption DEF OneTick, DevInv, DevTypeOK
  <1>2. phase' = "tick" /\ status' = status /\ timer' = timer
    BY Zenon DEF OneTick
  <1>3. QED
    BY <1>1, <1>2, Zenon DEF IdleSound, HaltsWhenDone, DevInv

LEMMA EnableKeeps ==
    ASSUME DevInv, phase = "run", Enable
    PROVE  /\ totalTicks' \in Nat /\ phase' = "tick" /\ timer' = timer
           /\ IdleSound' /\ HaltsWhenDone'
  BY OneTickKeeps, Zenon DEF Enable

LEMMA NoTickKeeps ==
    ASSUME DevInv, phase = "run", NoTick
    PROVE  phase' = "run" /\ IdleSound' /\ HaltsWhenDone'
  BY Zenon DEF NoTick, IdleSound, HaltsWhenDone, DevInv

(* ConsoleTest. *)
LEMMA EchoReadInv == ASSUME DevInv, phase = "run", EchoRead PROVE DevInv'
  <1>1. /\ totalTicks' \in Nat /\ phase' = "tick" /\ timer' = timer
        /\ IdleSound' /\ HaltsWhenDone'
    BY EnableKeeps, Zenon DEF EchoRead
  <1>2. DevTypeOK'
    BY <1>1 DEF DevInv, DevTypeOK, EchoRead, Enable, diskVars
  <1>3. PendingSound'
    BY <1>1, Zenon DEF DevInv, PendingSound, EchoRead, Enable, diskVars
  <1>4. SemaphoresExact' /\ EchoesAll'
    BY DEF DevInv, SemaphoresExact, EchoesAll, EchoRead, diskVars
  <1>5. QED
    BY <1>1, <1>2, <1>3, <1>4, Zenon DEF DevInv

LEMMA EchoPutInv == ASSUME DevInv, phase = "run", EchoPut PROVE DevInv'
  <1>1. phase' = "run" /\ IdleSound' /\ HaltsWhenDone'
    BY NoTickKeeps, Zenon DEF EchoPut
  <1>2. /\ pending \in Seq(PendingInterrupt) /\ Ordered(pending) /\ Single(pending)
        /\ ~Holds(pending, "ConsoleWriteInt")
    BY Zenon DEF DevInv, DevTypeOK, PendingSound, EchoesAll, EchoPut
  <1>3. ConsoleTime \in Nat \ {0} /\ "ConsoleWriteInt" \in IntType
    BY DevicesAssumption, Zenon DEF IntType
  <1>4. /\ pending' \in Seq(PendingInterrupt) /\ Ordered(pending') /\ Single(pending')
        /\ \A t : Holds(pending', t) <=> Holds(pending, t) \/ t = "ConsoleWriteInt"
        /\ \A i \in DOMAIN pending' :
              pending'[i].when <= totalTicks => \E j \in DOMAIN pending : pending'[i] = pending[j]
    <2>1. pending' = Scheduled(pending, ConsoleTime, "ConsoleWriteInt") /\ DevTypeOK
      BY Zenon DEF EchoPut, DevInv
    <2>2. Added(pending, "ConsoleWriteInt", pending')
      BY <1>2, <1>3, <2>1, ScheduleKeeps, Zenon
    <2>3. QED
      BY <2>2, Zenon DEF Added
  <1>5. /\ incoming \in Char /\ incoming # EOF /\ ~putBusy
        /\ echoed' \in Seq(Char) /\ echoed' \o <<>> = echoed \o <<incoming>>
    <2>1. incoming \in Char /\ incoming # EOF /\ ~putBusy /\ echoed \in Seq(Char)
      BY Zenon DEF DevInv, DevTypeOK, EchoesAll, EchoPut
    <2>2. echoed' = Append(echoed, incoming)
      BY Zenon DEF EchoPut
    <2>3. QED
      BY <2>1, <2>2, EchoOne, Zenon
  <1>6. DevTypeOK'
    BY <1>1, <1>4, <1>5, Zenon DEF DevInv, DevTypeOK, EchoPut, NoTick, diskVars
  <1>7. PendingSound'
    <2>1. \A i \in DOMAIN pending' :
             pending'[i].when <= totalTicks' => pending'[i].type = "TimerInt"
      <3>1. \A j \in DOMAIN pending :
               pending[j].when <= totalTicks => pending[j].type = "TimerInt"
        BY Zenon DEF DevInv, PendingSound
      <3>2. totalTicks' = totalTicks
        BY Zenon DEF EchoPut, NoTick
      <3>3. QED
        BY <1>4, <3>1, <3>2, Zenon
    <2>2. /\ timer' = timer /\ active' = active /\ putBusy' = TRUE /\ ~yieldOnReturn'
          /\ Holds(pending, "ConsoleReadInt")
      BY Zenon DEF DevInv, PendingSound, EchoPut, NoTick, diskVars
    <2>3. "TimerInt" # "ConsoleWriteInt" /\ "DiskInt" # "ConsoleWriteInt"
      BY Zenon
    <2>4. QED
      BY <1>4, <2>1, <2>2, <2>3, Zenon DEF DevInv, PendingSound
  <1>8. SemaphoresExact'
    BY <1>5, Zenon DEF DevInv, SemaphoresExact, EchoPut, diskVars
  <1>9. EchoesAll'
    <2>1. echoed' \o <<>> \o typed' = Typed
      BY <1>5, Zenon DEF DevInv, EchoesAll, EchoPut
    <2>2. incoming' = EOF /\ echo' = "write"
      BY Zenon DEF EchoPut
    <2>3. QED
      BY <2>1, <2>2, Zenon DEF EchoesAll
  <1>10. QED
    BY <1>1, <1>6, <1>7, <1>8, <1>9, Zenon DEF DevInv

LEMMA EchoWrittenInv == ASSUME DevInv, phase = "run", EchoWritten PROVE DevInv'
  <1>1. /\ totalTicks' \in Nat /\ phase' = "tick" /\ timer' = timer
        /\ IdleSound' /\ HaltsWhenDone'
    BY EnableKeeps, Zenon DEF EchoWritten
  <1> DEFINE q == echoed[Len(echoed)] = "q"
  <1>2. echo' = (IF q THEN "done" ELSE "read") /\ echo = "write"
    BY Zenon DEF EchoWritten
  <1> HIDE DEF q
  <1>3. DevTypeOK'
    BY <1>1, <1>2 DEF DevInv, DevTypeOK, EchoWritten, Enable, diskVars
  <1>4. PendingSound'
    BY <1>1, <1>2, Zenon DEF DevInv, PendingSound, EchoWritten, Enable, diskVars
  <1>5. SemaphoresExact' /\ EchoesAll'
    BY <1>2 DEF DevInv, SemaphoresExact, EchoesAll, EchoWritten, diskVars
  <1>6. QED
    BY <1>1, <1>3, <1>4, <1>5, Zenon DEF DevInv

(* The thread that uses the disk, and the one that uses up time. *)
LEMMA DiskRequestInv ==
    ASSUME DevInv, phase = "run", NEW sector \in DiskSector, NEW writing \in BOOLEAN,
           DiskRequest(sector, writing)
    PROVE  DevInv'
  <1> DEFINE ticks == ComputeLatency(sector, writing)
  <1>1. phase' = "run" /\ IdleSound' /\ HaltsWhenDone'
    BY NoTickKeeps, Zenon DEF DiskRequest
  <1>2. /\ pending \in Seq(PendingInterrupt) /\ Ordered(pending) /\ Single(pending)
        /\ ~Holds(pending, "DiskInt") /\ DevTypeOK
    BY Zenon DEF DevInv, DevTypeOK, PendingSound, DiskRequest
  <1>3. sector \in Nat /\ "DiskInt" \in IntType
    BY DevicesAssumption, Zenon DEF IntType
  <1>4. ticks \in Nat \ {0}
    BY <1>2, <1>3, LatencyIs, Zenon
  <1>5. pending' = Scheduled(pending, ticks, "DiskInt")
    BY Zenon DEF DiskRequest
  <1> HIDE DEF ticks
  <1>6. /\ pending' \in Seq(PendingInterrupt) /\ Ordered(pending') /\ Single(pending')
        /\ \A t : Holds(pending', t) <=> Holds(pending, t) \/ t = "DiskInt"
        /\ \A i \in DOMAIN pending' :
              pending'[i].when <= totalTicks => \E j \in DOMAIN pending : pending'[i] = pending[j]
    <2>1. Added(pending, "DiskInt", pending')
      BY <1>2, <1>3, <1>4, <1>5, ScheduleKeeps, Zenon
    <2>2. QED
      BY <2>1, Zenon DEF Added
  <1>7. bufferInit' \in Nat
    <2>1. TimeAfter(sector) \in Nat
      BY <1>2, <1>3, AlignedIs, Zenon
    <2>2. bufferInit \in Nat
      BY <1>2, Zenon DEF DevTypeOK
    <2>3. QED
      BY <2>1, <2>2, Zenon DEF DiskRequest
  <1>8. DevTypeOK'
    BY <1>1, <1>3, <1>6, <1>7, Zenon DEF DevInv, DevTypeOK, DiskRequest, NoTick, consoleVars
  <1>9. PendingSound'
    <2>1. \A i \in DOMAIN pending' :
             pending'[i].when <= totalTicks' => pending'[i].type = "TimerInt"
      <3>1. \A j \in DOMAIN pending :
               pending[j].when <= totalTicks => pending[j].type = "TimerInt"
        BY Zenon DEF DevInv, PendingSound
      <3>2. totalTicks' = totalTicks
        BY Zenon DEF DiskRequest, NoTick
      <3>3. QED
        BY <1>6, <3>1, <3>2, Zenon
    <2>2. /\ timer' = timer /\ active' = TRUE /\ putBusy' = putBusy /\ ~yieldOnReturn'
          /\ echo' = echo
      BY Zenon DEF DevInv, PendingSound, DiskRequest, NoTick, consoleVars
    <2>3. "TimerInt" # "DiskInt" /\ "DiskInt" # "ConsoleWriteInt"
      BY Zenon
    <2>4. QED
      BY <1>6, <2>1, <2>2, <2>3, Zenon DEF DevInv, PendingSound
  <1>10. SemaphoresExact' /\ EchoesAll'
    BY Zenon DEF DevInv, SemaphoresExact, EchoesAll, DiskRequest, consoleVars
  <1>11. QED
    BY <1>1, <1>8, <1>9, <1>10, Zenon DEF DevInv

LEMMA DiskReturnInv == ASSUME DevInv, phase = "run", DiskReturn PROVE DevInv'
  <1>1. /\ totalTicks' \in Nat /\ phase' = "tick" /\ timer' = timer
        /\ IdleSound' /\ HaltsWhenDone'
    BY EnableKeeps, Zenon DEF DiskReturn
  <1>2. DevTypeOK'
    BY <1>1 DEF DevInv, DevTypeOK, DiskReturn, Enable, consoleVars
  <1>3. PendingSound'
    BY <1>1, Zenon DEF DevInv, PendingSound, DiskReturn, Enable, consoleVars
  <1>4. SemaphoresExact' /\ EchoesAll'
    BY DEF DevInv, SemaphoresExact, EchoesAll, DiskReturn, consoleVars
  <1>5. QED
    BY <1>1, <1>2, <1>3, <1>4, Zenon DEF DevInv

LEMMA DiskFinishInv == ASSUME DevInv, phase = "run", DiskFinish PROVE DevInv'
  <1>1. phase' = "run" /\ IdleSound' /\ HaltsWhenDone'
    BY NoTickKeeps, Zenon DEF DiskFinish
  <1>2. DevTypeOK'
    BY <1>1, Zenon DEF DevInv, DevTypeOK, DiskFinish, NoTick, consoleVars
  <1>3. PendingSound'
    BY <1>1, Zenon DEF DevInv, PendingSound, DiskFinish, NoTick, consoleVars
  <1>4. SemaphoresExact' /\ EchoesAll'
    BY Zenon DEF DevInv, SemaphoresExact, EchoesAll, DiskFinish, consoleVars
  <1>5. QED
    BY <1>1, <1>2, <1>3, <1>4, Zenon DEF DevInv

LEMMA WorkInv == ASSUME DevInv, phase = "run", Work PROVE DevInv'
  <1>1. /\ totalTicks' \in Nat /\ phase' = "tick" /\ timer' = timer
        /\ IdleSound' /\ HaltsWhenDone'
    BY OneTickKeeps, Zenon DEF Work
  <1>2. DevTypeOK'
    BY <1>1 DEF DevInv, DevTypeOK, Work, consoleVars, diskVars
  <1>3. PendingSound'
    BY <1>1, Zenon DEF DevInv, PendingSound, Work, consoleVars, diskVars
  <1>4. SemaphoresExact' /\ EchoesAll'
    BY Zenon DEF DevInv, SemaphoresExact, EchoesAll, Work, consoleVars, diskVars
  <1>5. QED
    BY <1>1, <1>2, <1>3, <1>4, Zenon DEF DevInv
-----------------------------------------------------------------------------
(* CheckIfDue.  A handler is called with the first pending interrupt        *)
(* removed; it does not return to the thread.                               *)
Serving ==
    /\ phase \in {"tick", "first", "idle"} /\ pending # <<>>
    /\ phase' = (IF phase = "first" THEN "idle" ELSE phase)
    /\ UNCHANGED <<timer, totalTicks, status, work>>

LEMMA ServingKeeps ==
    ASSUME DevInv, Serving
    PROVE  /\ phase' \in {"tick", "idle"} /\ IdleSound' /\ HaltsWhenDone'
           /\ LET r == Tail(pending)
              IN  /\ r \in Seq(PendingInterrupt) /\ Ordered(r) /\ Single(r)
                  /\ Head(pending).type \in IntType /\ Holds(pending, Head(pending).type)
                  /\ \A type : Holds(r, type) <=> Holds(pending, type) /\ type # Head(pending).type
  <1>1. phase' \in {"tick", "idle"} /\ IdleSound' /\ HaltsWhenDone'
    BY Zenon DEF DevInv, Serving, IdleSound, HaltsWhenDone
  <1>2. pending \in Seq(PendingInterrupt) /\ Ordered(pending) /\ Single(pending) /\ pending # <<>>
    BY Zenon DEF DevInv, DevTypeOK, PendingSound, Serving
  <1>3. Head(pending) \in PendingInterrupt
    BY <1>2, TailKeeps, Zenon
  <1>4. Head(pending).type \in IntType
    BY <1>3, Zenon DEF PendingInterrupt
  <1>5. QED
    BY <1>1, <1>2, <1>4, TailKeeps, Zenon

LEMMA TimerExpiredInv ==
    ASSUME DevInv, Serving, Head(pending).type = "TimerInt", TimerExpired(Tail(pending))
    PROVE  DevInv'
  <1> DEFINE rest == Tail(pending)
  <1>1. phase' \in {"tick", "idle"} /\ IdleSound' /\ HaltsWhenDone'
    BY ServingKeeps, Zenon
  <1>2. /\ rest \in Seq(PendingInterrupt) /\ Ordered(rest) /\ Single(rest)
        /\ Holds(pending, "TimerInt")
        /\ \A type : Holds(rest, type) <=> Holds(pending, type) /\ type # "TimerInt"
    BY ServingKeeps, Zenon
  <1>3. PICK next \in TimeOfNextInterrupt : pending' = Scheduled(rest, next, "TimerInt")
    BY Zenon DEF TimerExpired
  <1> HIDE DEF rest
  <1>4. /\ next \in Nat \ {0} /\ "TimerInt" \in IntType /\ ~Holds(rest, "TimerInt") /\ DevTypeOK
    <2>1. next \in Nat \ {0}
      BY NextTimer, Zenon
    <2>2. "TimerInt" \in IntType
      BY Zenon DEF IntType
    <2>3. QED
      BY <1>2, <2>1, <2>2, Zenon DEF DevInv
  <1>5. /\ pending' \in Seq(PendingInterrupt) /\ Ordered(pending') /\ Single(pending')
        /\ \A t : Holds(pending', t) <=> Holds(rest, t) \/ t = "TimerInt"
    <2>1. Added(rest, "TimerInt", pending')
      BY <1>2, <1>3, <1>4, ScheduleKeeps, Zenon
    <2>2. QED
      BY <2>1, Zenon DEF Added
  <1>6. \A t : Holds(pending', t) <=> Holds(pending, t)
    BY <1>2, <1>5, Zenon
  <1>7. DevTypeOK'
    BY <1>1, <1>5 DEF DevInv, DevTypeOK, Serving, TimerExpired, consoleVars, diskVars
  <1>8. PendingSound'
    <2>1. timer' = timer /\ active' = active /\ putBusy' = putBusy /\ echo' = echo
      BY Zenon DEF Serving, TimerExpired, consoleVars, diskVars
    <2>2. phase' # "run"
      BY <1>1, Zenon
    <2>3. QED
      BY <1>5, <1>6, <2>1, <2>2, Zenon DEF DevInv, PendingSound
  <1>9. SemaphoresExact' /\ EchoesAll'
    BY Zenon DEF DevInv, SemaphoresExact, EchoesAll, TimerExpired, consoleVars, diskVars
  <1>10. QED
    BY <1>1, <1>7, <1>8, <1>9, Zenon DEF DevInv

LEMMA CheckCharAvailInv ==
    ASSUME DevInv, Serving, Head(pending).type = "ConsoleReadInt",
           CheckCharAvail(Tail(pending))
    PROVE  DevInv'
  <1> DEFINE rest == Tail(pending)
  <1>1. phase' \in {"tick", "idle"} /\ IdleSound' /\ HaltsWhenDone'
    BY ServingKeeps, Zenon
  <1>2. /\ rest \in Seq(PendingInterrupt) /\ Ordered(rest) /\ Single(rest)
        /\ Holds(pending, "ConsoleReadInt")
        /\ \A type : Holds(rest, type) <=> Holds(pending, type) /\ type # "ConsoleReadInt"
    BY ServingKeeps, Zenon
  <1>3. pending' = Scheduled(rest, ConsoleTime, "ConsoleReadInt")
    BY Zenon DEF CheckCharAvail
  <1> HIDE DEF rest
  <1>4. /\ ConsoleTime \in Nat \ {0} /\ "ConsoleReadInt" \in IntType
        /\ ~Holds(rest, "ConsoleReadInt") /\ DevTypeOK
    <2>1. ConsoleTime \in Nat \ {0} /\ "ConsoleReadInt" \in IntType
      BY DevicesAssumption, Zenon DEF IntType
    <2>2. QED
      BY <1>2, <2>1, Zenon DEF DevInv
  <1>5. /\ pending' \in Seq(PendingInterrupt) /\ Ordered(pending') /\ Single(pending')
        /\ \A t : Holds(pending', t) <=> Holds(rest, t) \/ t = "ConsoleReadInt"
    <2>1. Added(rest, "ConsoleReadInt", pending')
      BY <1>2, <1>3, <1>4, ScheduleKeeps, Zenon
    <2>2. QED
      BY <2>1, Zenon DEF Added
  <1>6. \A t : Holds(pending', t) <=> Holds(pending, t)
    BY <1>2, <1>5, Zenon
  <1>7. PendingSound'
    <2>1. timer' = timer /\ active' = active /\ putBusy' = putBusy /\ echo' = echo
      BY Zenon DEF Serving, CheckCharAvail, diskVars
    <2>2. phase' # "run"
      BY <1>1, Zenon
    <2>3. QED
      BY <1>5, <1>6, <2>1, <2>2, Zenon DEF DevInv, PendingSound
  <1>8. /\ incoming' \in Char \cup {EOF} /\ typed' \in Seq(Char) /\ readAvail' \in Nat
        /\ readAvail' = IF incoming' # EOF /\ echo # "echo" THEN 1 ELSE 0
        /\ echoed \o (IF incoming' = EOF THEN <<>> ELSE <<incoming'>>) \o typed' = Typed
        /\ echo = "echo" => incoming' # EOF
    <2>1. CASE UNCHANGED <<incoming, typed, readAvail>>
      BY <2>1, Zenon DEF DevInv, DevTypeOK, SemaphoresExact, EchoesAll
    <2>2. CASE /\ incoming = EOF /\ typed # <<>>
               /\ incoming' = Head(typed)
               /\ typed' = Tail(typed)
               /\ readAvail' = readAvail + 1
      <3>1. echoed \in Seq(Char) /\ typed \in Seq(Char)
        BY Zenon DEF DevInv, DevTypeOK
      <3>2. /\ incoming' \in Char /\ typed' \in Seq(Char)
            /\ echoed \o <<incoming'>> \o typed' = echoed \o <<>> \o typed
        BY <2>2, <3>1, TypeOne, Zenon
      <3>3. incoming' # EOF
        BY <3>2, DevicesAssumption, Zenon
      <3>4. echoed \o <<>> \o typed = Typed /\ echo # "echo" /\ readAvail = 0
        BY <2>2, Zenon DEF DevInv, EchoesAll, SemaphoresExact
      <3>5. echoed \o (IF incoming' = EOF THEN <<>> ELSE <<incoming'>>) \o typed' = Typed
        BY <3>2, <3>3, <3>4, Zenon
      <3>6. readAvail' = 1
        BY <2>2, <3>4
      <3>7. QED
        BY <3>2, <3>3, <3>4, <3>5, <3>6, Zenon
    <2>3. QED
      BY <2>1, <2>2, Zenon DEF CheckCharAvail
  <1>9. DevTypeOK'
    BY <1>1, <1>5, <1>8, Zenon DEF DevInv, DevTypeOK, Serving, CheckCharAvail, diskVars
  <1>10. SemaphoresExact'
    BY <1>8, Zenon DEF DevInv, SemaphoresExact, CheckCharAvail, diskVars
  <1>11. EchoesAll'
    <2>1. echoed' = echoed /\ echo' = echo /\ putBusy' = putBusy
      BY Zenon DEF CheckCharAvail
    <2>2. QED
      BY <1>8, <2>1, Zenon DEF EchoesAll, DevInv
  <1>12. QED
    BY <1>1, <1>7, <1>9, <1>10, <1>11, Zenon DEF DevInv

LEMMA ConsoleWriteDoneInv ==
    ASSUME DevInv, Serving, Head(pending).type = "ConsoleWriteInt",
           ConsoleWriteDone(Tail(pending))
    PROVE  DevInv'
  <1>1. phase' \in {"tick", "idle"} /\ IdleSound' /\ HaltsWhenDone'
    BY ServingKeeps, Zenon
  <1>2. /\ pending' \in Seq(PendingInterrupt) /\ Ordered(pending') /\ Single(pending')
        /\ Holds(pending, "ConsoleWriteInt")
        /\ \A t : Holds(pending', t) <=> Holds(pending, t) /\ t # "ConsoleWriteInt"
    BY ServingKeeps, Zenon DEF ConsoleWriteDone
  <1>3. putBusy
    BY <1>2, Zenon DEF DevInv, PendingSound
  <1>4. DevTypeOK'
    <2>1. /\ putBusy' = FALSE /\ writeDone' = writeDone + 1
          /\ UNCHANGED <<timer, totalTicks, incoming, typed, readAvail, echo, echoed, diskVars>>
      BY Zenon DEF Serving, ConsoleWriteDone
    <2>2. pending' \in Seq(PendingInterrupt)
      BY <1>2, Zenon
    <2>3. writeDone' \in Nat
      <3>1. writeDone \in Nat
        BY Zenon DEF DevInv, DevTypeOK
      <3>2. QED
        BY <2>1, <3>1
    <2>4. phase' \in {"run", "tick", "first", "idle", "halted"} /\ putBusy' \in BOOLEAN
      BY <1>1, <2>1, Zenon
    <2>5. QED
      BY <2>1, <2>2, <2>3, <2>4, Zenon DEF DevInv, DevTypeOK, diskVars
  <1>5. PendingSound'
    <2>1. timer' = timer /\ active' = active /\ ~putBusy' /\ echo' = echo
      BY Zenon DEF Serving, ConsoleWriteDone, diskVars
    <2>2. phase' # "run" /\ "TimerInt" # "ConsoleWriteInt" /\ "DiskInt" # "ConsoleWriteInt"
          /\ "ConsoleReadInt" # "ConsoleWriteInt"
      BY <1>1, Zenon
    <2>3. QED
      BY <1>2, <2>1, <2>2, Zenon DEF DevInv, PendingSound
  <1>6. SemaphoresExact' /\ EchoesAll'
    BY <1>3 DEF DevInv, SemaphoresExact, EchoesAll, ConsoleWriteDone, diskVars
  <1>7. QED
    BY <1>1, <1>4, <1>5, <1>6, Zenon DEF DevInv

LEMMA DiskDoneInv ==
    ASSUME DevInv, Serving, Head(pending).type = "DiskInt", DiskDone(Tail(pending))
    PROVE  DevInv'
  <1>1. phase' \in {"tick", "idle"} /\ IdleSound' /\ HaltsWhenDone'
    BY ServingKeeps, Zenon
  <1>2. /\ pending' \in Seq(PendingInterrupt) /\ Ordered(pending') /\ Single(pending')
        /\ Holds(pending, "DiskInt")
        /\ \A t : Holds(pending', t) <=> Holds(pending, t) /\ t # "DiskInt"
    BY ServingKeeps, Zenon DEF DiskDone
  <1>3. active
    BY <1>2, Zenon DEF DevInv, PendingSound
  <1>4. DevTypeOK'
    <2>1. /\ active' = FALSE /\ requestDone' = requestDone + 1
          /\ UNCHANGED <<timer, totalTicks, consoleVars, lastSector, bufferInit, user>>
      BY Zenon DEF Serving, DiskDone
    <2>2. pending' \in Seq(PendingInterrupt)
      BY <1>2, Zenon
    <2>3. requestDone' \in Nat
      <3>1. requestDone \in Nat
        BY Zenon DEF DevInv, DevTypeOK
      <3>2. QED
        BY <2>1, <3>1
    <2>4. phase' \in {"run", "tick", "first", "idle", "halted"} /\ active' \in BOOLEAN
      BY <1>1, <2>1, Zenon
    <2>5. QED
      BY <2>1, <2>2, <2>3, <2>4, Zenon DEF DevInv, DevTypeOK, consoleVars
  <1>5. PendingSound'
    <2>1. timer' = timer /\ ~active' /\ putBusy' = putBusy /\ echo' = echo
      BY Zenon DEF Serving, DiskDone, consoleVars
    <2>2. phase' # "run" /\ "TimerInt" # "DiskInt" /\ "DiskInt" # "ConsoleWriteInt"
          /\ "ConsoleReadInt" # "DiskInt"
      BY <1>1, Zenon
    <2>3. QED
      BY <1>2, <2>1, <2>2, Zenon DEF DevInv, PendingSound
  <1>6. SemaphoresExact' /\ EchoesAll'
    BY <1>3 DEF DevInv, SemaphoresExact, EchoesAll, DiskDone, consoleVars
  <1>7. QED
    BY <1>1, <1>4, <1>5, <1>6, Zenon DEF DevInv

LEMMA CheckIfDueInv == ASSUME DevInv, CheckIfDue PROVE DevInv'
  <1>1. Serving
    BY Zenon DEF CheckIfDue, Serving, Due
  <1>2. Head(pending).type \in IntType
    BY <1>1, ServingKeeps, Zenon
  <1>3. \/ Head(pending).type = "TimerInt" /\ TimerExpired(Tail(pending))
        \/ Head(pending).type = "ConsoleReadInt" /\ CheckCharAvail(Tail(pending))
        \/ Head(pending).type = "ConsoleWriteInt" /\ ConsoleWriteDone(Tail(pending))
        \/ Head(pending).type = "DiskInt" /\ DiskDone(Tail(pending))
    BY <1>2, Zenon DEF CheckIfDue, IntType
  <1>4. QED
    BY <1>1, <1>3, TimerExpiredInv, CheckCharAvailInv, ConsoleWriteDoneInv, DiskDoneInv, Zenon

(* The list is in order: when its head is not due, nothing is, but for the  *)
(* lone timer interrupt of an idle machine.                                 *)
LEMMA NothingDue ==
    ASSUME DevInv, ~Due
    PROVE  \A i \in DOMAIN pending : pending[i].when <= totalTicks =>
              pending[i].type = "TimerInt" /\ status = "IdleMode" /\ Tail(pending) = <<>>
  <1>1. pending \in Seq(PendingInterrupt) /\ Ordered(pending) /\ Single(pending) /\ totalTicks \in Nat
    BY Zenon DEF DevInv, DevTypeOK, PendingSound
  <1> SUFFICES ASSUME NEW i \in DOMAIN pending, pending[i].when <= totalTicks
               PROVE  pending[i].type = "TimerInt" /\ status = "IdleMode" /\ Tail(pending) = <<>>
    BY Zenon
  <1>2. pending # <<>>
    OBVIOUS
  <1>3. /\ Head(pending) \in PendingInterrupt /\ Head(pending).when <= pending[i].when
        /\ pending[i] = Head(pending) \/ \E j \in DOMAIN Tail(pending) : pending[i] = Tail(pending)[j]
    BY <1>1, <1>2, TailKeeps, Zenon
  <1>4. pending[i] \in PendingInterrupt
    BY <1>1, SeqLen, Zenon
  <1>5. Head(pending).when <= totalTicks
    <2>1. Head(pending).when \in Nat /\ pending[i].when \in Nat
      BY <1>3, <1>4, Zenon DEF PendingInterrupt
    <2>2. QED
      BY <1>1, <1>3, <2>1
  <1>6. status = "IdleMode" /\ Head(pending).type = "TimerInt" /\ Tail(pending) = <<>>
    BY <1>2, <1>5, Zenon DEF Due
  <1>7. DOMAIN Tail(pending) = {}
    BY <1>6
  <1>8. QED
    BY <1>3, <1>6, <1>7, Zenon

LEMMA TickEndInv == ASSUME DevInv, TickEnd PROVE DevInv'
  <1>1. \A i \in DOMAIN pending : pending[i].when <= totalTicks => pending[i].type = "TimerInt"
    BY NothingDue, Zenon DEF TickEnd
  <1>2. /\ phase = "tick" /\ ~yieldOnReturn' /\ UNCHANGED <<pending, consoleVars, diskVars, work>>
        /\ \/ phase' = "run" /\ UNCHANGED <<timer, totalTicks, status>>
           \/ OneTick(SystemTick)
    BY Zenon DEF TickEnd
  <1>3. /\ totalTicks' \in Nat /\ timer' = timer /\ IdleSound' /\ HaltsWhenDone'
        /\ phase' = "tick" \/ (phase' = "run" /\ totalTicks' = totalTicks)
    <2>1. CASE phase' = "run" /\ UNCHANGED <<timer, totalTicks, status>>
      BY <1>2, <2>1, Zenon DEF DevInv, DevTypeOK, IdleSound, HaltsWhenDone
    <2>2. CASE OneTick(SystemTick)
      BY <1>2, <2>2, OneTickKeeps, Zenon
    <2>3. QED
      BY <1>2, <2>1, <2>2, Zenon
  <1>4. DevTypeOK'
    BY <1>2, <1>3, Zenon DEF DevInv, DevTypeOK, consoleVars, diskVars
  <1>5. PendingSound'
    BY <1>1, <1>2, <1>3, Zenon DEF DevInv, PendingSound, consoleVars, diskVars
  <1>6. SemaphoresExact' /\ EchoesAll'
    BY <1>2, Zenon DEF DevInv, SemaphoresExact, EchoesAll, consoleVars, diskVars
  <1>7. QED
    BY <1>3, <1>4, <1>5, <1>6, Zenon DEF DevInv

LEMMA IdleEndInv == ASSUME DevInv, IdleEnd PROVE DevInv'
  <1>1. \A i \in DOMAIN pending : pending[i].when <= totalTicks => pending[i].type = "TimerInt"
    BY NothingDue, Zenon DEF IdleEnd
  <1>2. DevTypeOK'
    BY Zenon DEF DevInv, DevTypeOK, IdleEnd, consoleVars, diskVars
  <1>3. PendingSound'
    BY <1>1, Zenon DEF DevInv, PendingSound, IdleEnd, consoleVars, diskVars
  <1>4. SemaphoresExact' /\ EchoesAll'
    BY Zenon DEF DevInv, SemaphoresExact, EchoesAll, IdleEnd, consoleVars, diskVars
  <1>5. IdleSound' /\ HaltsWhenDone'
    BY Zenon DEF DevInv, IdleSound, HaltsWhenDone, IdleEnd
  <1>6. QED
    BY <1>2, <1>3, <1>4, <1>5, Zenon DEF DevInv

(* The clock moves to the next interrupt. *)
LEMMA IdleInv == ASSUME DevInv, Idle PROVE DevInv'
  <1> DEFINE h == Head(pending).when
  <1>1. pending # <<>> => h \in Nat
    <2>1. pending \in Seq(PendingInterrupt) /\ Ordered(pending) /\ Single(pending)
      BY Zenon DEF DevInv, DevTypeOK, PendingSound
    <2>2. pending # <<>> => Head(pending) \in PendingInterrupt
      BY <2>1, TailKeeps, Zenon
    <2>3. QED
      BY <2>2, Zenon DEF PendingInterrupt
  <1>2. totalTicks \in Nat
    BY Zenon DEF DevInv, DevTypeOK
  <1>3. totalTicks' = IF pending # <<>> /\ h > totalTicks THEN h ELSE totalTicks
    BY Zenon DEF Idle
  <1> HIDE DEF h
  <1>4. totalTicks' \in Nat /\ (pending # <<>> => h <= totalTicks')
    BY <1>1, <1>2, <1>3
  <1>5. DevTypeOK'
    BY <1>4, Zenon DEF DevInv, DevTypeOK, Idle, consoleVars, diskVars
  <1>6. PendingSound'
    BY Zenon DEF DevInv, PendingSound, Idle, consoleVars, diskVars
  <1>7. SemaphoresExact' /\ EchoesAll'
    BY Zenon DEF DevInv, SemaphoresExact, EchoesAll, Idle, consoleVars, diskVars
  <1>8. IdleSound' /\ HaltsWhenDone'
    <2>1. ~Ready'
      BY Zenon DEF Idle, Ready, consoleVars, diskVars
    <2>2. status' = "IdleMode" /\ phase' = "first" /\ pending' = pending
      BY Zenon DEF Idle
    <2>3. pending' # <<>> => Head(pending').when <= totalTicks'
      BY <1>4, <2>2, Zenon DEF h
    <2>4. QED
      BY <2>1, <2>2, <2>3, Zenon DEF IdleSound, HaltsWhenDone
  <1>9. QED
    BY <1>5, <1>6, <1>7, <1>8, Zenon DEF DevInv

(* Nothing is due although the clock moved to the next interrupt: there is  *)
(* none, or only the timer's.  Then no device is busy, and a thread that    *)
(* is not ready and not done would be waiting for one.                      *)
LEMMA HaltInv == ASSUME DevInv, Halt PROVE DevInv'
  <1>1. \A i \in DOMAIN pending : pending[i].type = "TimerInt"
    <2> SUFFICES ASSUME NEW i \in DOMAIN pending PROVE pending[i].type = "TimerInt"
      BY Zenon
    <2>1. pending \in Seq(PendingInterrupt) /\ Ordered(pending) /\ Single(pending)
      BY Zenon DEF DevInv, DevTypeOK, PendingSound
    <2>2. pending # <<>>
      OBVIOUS
    <2>3. Head(pending).when <= totalTicks
      BY <2>2, Zenon DEF DevInv, IdleSound, Halt
    <2>4. Head(pending).type = "TimerInt" /\ Tail(pending) = <<>>
      BY <2>2, <2>3, Zenon DEF Due, Halt
    <2>5. pending[i] = Head(pending) \/ \E j \in DOMAIN Tail(pending) : pending[i] = Tail(pending)[j]
      BY <2>1, <2>2, TailKeeps, Zenon
    <2>6. DOMAIN Tail(pending) = {}
      BY <2>4
    <2>7. QED
      BY <2>4, <2>5, <2>6, Zenon
  <1>2. ~Holds(pending, "DiskInt") /\ ~Holds(pending, "ConsoleWriteInt")
        /\ ~Holds(pending, "ConsoleReadInt")
    BY <1>1, Zenon DEF Holds
  <1>3. ~active /\ ~putBusy /\ echo = "done"
    BY <1>2, Zenon DEF DevInv, PendingSound
  <1>4. user = "done"
    <2>1. user # "ready" /\ ~(user = "P" /\ requestDone > 0)
      BY Zenon DEF DevInv, IdleSound, Halt, Ready
    <2>2. user = "P" => requestDone > 0
      BY <1>3 DEF DevInv, SemaphoresExact
    <2>3. QED
      BY <2>1, <2>2, Zenon DEF DevInv, DevTypeOK
  <1>5. HaltsWhenDone'
    BY <1>1, <1>3, <1>4, Zenon DEF HaltsWhenDone, Halt, consoleVars, diskVars
  <1>6. DevTypeOK'
    BY DEF DevInv, DevTypeOK, Halt, consoleVars, diskVars
  <1>7. PendingSound'
    BY Zenon DEF DevInv, PendingSound, Halt, consoleVars, diskVars
  <1>8. SemaphoresExact' /\ EchoesAll'
    BY Zenon DEF DevInv, SemaphoresExact, EchoesAll, Halt, consoleVars, diskVars
  <1>9. IdleSound'
    BY Zenon DEF DevInv, IdleSound, Halt
  <1>10. QED
    BY <1>5, <1>6, <1>7, <1>8, <1>9, Zenon DEF DevInv
-----------------------------------------------------------------------------
LEMMA RunInv == ASSUME DevInv, Run PROVE DevInv'
  <1>1. phase = "run"
    BY Zenon DEF Run
  <1>2. CASE EchoRead
    BY <1>1, <1>2, EchoReadInv, Zenon
  <1>3. CASE EchoPut
    BY <1>1, <1>3, EchoPutInv, Zenon
  <1>4. CASE EchoWritten
    BY <1>1, <1>4, EchoWrittenInv, Zenon
  <1>5. CASE \E sector \in DiskSector, writing \in BOOLEAN : DiskRequest(sector, writing)
    BY <1>1, <1>5, DiskRequestInv, Zenon
  <1>6. CASE DiskReturn
    BY <1>1, <1>6, DiskReturnInv, Zenon
  <1>7. CASE DiskFinish
    BY <1>1, <1>7, DiskFinishInv, Zenon
  <1>8. CASE Work
    BY <1>1, <1>8, WorkInv, Zenon
  <1>9. QED
    BY <1>2, <1>3, <1>4, <1>5, <1>6, <1>7, <1>8, Zenon DEF Run

(* The machine starts with the timer's interrupt and the keyboard's.        *)
LEMMA DevInitInv == DevicesInit => DevInv
  <1> SUFFICES ASSUME DevicesInit PROVE DevInv
    BY Zenon
  <1> DEFINE none == <<>>
  <1>1. PICK next \in TimeOfNextInterrupt, console \in BOOLEAN :
          LET clock == IF timer = "off" THEN none ELSE <<[when |-> next, type |-> "TimerInt"]>>
          IN  /\ pending = IF console THEN Scheduled(clock, ConsoleTime, "ConsoleReadInt")
                                      ELSE clock
              /\ echo = IF console THEN "read" ELSE "done"
    BY Zenon DEF DevicesInit
  <1> DEFINE clock == IF timer = "off" THEN none ELSE <<[when |-> next, type |-> "TimerInt"]>>
  <1>2. next \in Nat
    BY NextTimer, Zenon
  <1>3. /\ clock \in Seq(PendingInterrupt) /\ Ordered(clock) /\ Single(clock)
        /\ \A t : Holds(clock, t) <=> t = "TimerInt" /\ timer # "off"
        /\ \A i \in DOMAIN clock : clock[i].type = "TimerInt"
    <2>1. CASE timer = "off"
      <3>1. clock = <<>>
        BY <2>1, Zenon
      <3> HIDE DEF clock
      <3>2. QED
        BY <2>1, <3>1 DEF Ordered, Single, Holds
    <2>2. CASE timer # "off"
      <3> DEFINE e == [when |-> next, type |-> "TimerInt"]
      <3>1. clock = <<e>>
        BY <2>2, Zenon
      <3>2. e \in PendingInterrupt /\ e.type = "TimerInt"
        BY <1>2, Zenon DEF PendingInterrupt, IntType
      <3> HIDE DEF clock, e
      <3>3. clock \in Seq(PendingInterrupt) /\ DOMAIN clock = {1} /\ clock[1] = e
        BY <3>1, <3>2
      <3>4. QED
        BY <2>2, <3>2, <3>3 DEF Ordered, Single, Holds
    <2>3. QED
      BY <2>1, <2>2, Zenon
  <1>4. pending = (IF console THEN Scheduled(clock, ConsoleTime, "ConsoleReadInt") ELSE clock)
        /\ echo = IF console THEN "read" ELSE "done"
    BY <1>1, Zenon
  <1> HIDE DEF clock
  <1>5. /\ pending \in Seq(PendingInterrupt) /\ Ordered(pending) /\ Single(pending)
        /\ \A t : Holds(pending, t) <=>
              (t = "TimerInt" /\ timer # "off") \/ (console /\ t = "ConsoleReadInt")
        /\ \A i \in DOMAIN pending :
              pending[i].when <= totalTicks => pending[i].type = "TimerInt"
    <2>1. CASE ~console
      BY <1>3, <1>4, <2>1, Zenon
    <2>2. CASE console
      <3> DEFINE r == Scheduled(clock, ConsoleTime, "ConsoleReadInt")
                 e == [when |-> totalTicks + ConsoleTime, type |-> "ConsoleReadInt"]
      <3>1. pending = r
        BY <1>4, <2>2, Zenon
      <3>2. /\ e \in PendingInterrupt /\ e.type = "ConsoleReadInt" /\ ~(e.when <= totalTicks)
        BY DevicesAssumption DEF PendingInterrupt, IntType, DevicesInit
      <3>3. pending = SortedInsert(clock, e)
        BY <3>1, Zenon DEF Scheduled
      <3> HIDE DEF e, r
      <3>4. ~Holds(clock, e.type)
        BY <1>3, <3>2, Zenon
      <3>5. /\ pending \in Seq(PendingInterrupt) /\ Ordered(pending) /\ Single(pending)
            /\ \A t : Holds(pending, t) <=> Holds(clock, t) \/ t = e.type
            /\ \A i \in DOMAIN pending : pending[i] = e \/ \E j \in DOMAIN clock : pending[i] = clock[j]
        BY <1>3, <3>2, <3>3, <3>4, InsertKeeps
      <3>6. QED
        BY <1>3, <2>2, <3>2, <3>5, Zenon
    <2>3. QED
      BY <2>1, <2>2, Zenon
  <1>6. DevTypeOK
    <2>1. pending \in Seq(PendingInterrupt)
      BY <1>5, Zenon
    <2>2. echo \in {"read", "echo", "write", "done"} /\ typed \in Seq(Char) /\ echoed \in Seq(Char)
      BY <1>4, DevicesAssumption DEF DevicesInit
    <2>3. /\ timer \in {"off", "on", "random"} /\ totalTicks = 0 /\ phase = "run"
          /\ putBusy = FALSE /\ incoming = EOF /\ readAvail = 0 /\ writeDone = 0
          /\ active = FALSE /\ lastSector = 0 /\ bufferInit = 0 /\ requestDone = 0 /\ user = "ready"
      BY Zenon DEF DevicesInit
    <2>4. QED
      BY <2>1, <2>2, <2>3, Zenon DEF DevTypeOK
  <1>7. PendingSound
    <2>1. /\ Holds(pending, "TimerInt") <=> timer # "off"
          /\ ~Holds(pending, "DiskInt") /\ ~Holds(pending, "ConsoleWriteInt")
          /\ echo # "done" => Holds(pending, "ConsoleReadInt")
      BY <1>4, <1>5
    <2>2. ~active /\ ~putBusy /\ ~yieldOnReturn
      BY Zenon DEF DevicesInit
    <2>3. QED
      BY <1>5, <2>1, <2>2, Zenon DEF PendingSound
  <1>8. SemaphoresExact
    BY <1>4, Zenon DEF DevicesInit, SemaphoresExact
  <1>9. EchoesAll
    <2>1. echoed = <<>> /\ typed = Typed /\ incoming = EOF /\ echo # "echo" /\ Typed \in Seq(Char)
      BY <1>4, DevicesAssumption, Zenon DEF DevicesInit
    <2>2. QED
      BY <2>1 DEF EchoesAll
  <1>10. IdleSound /\ HaltsWhenDone
    BY Zenon DEF DevicesInit, IdleSound, HaltsWhenDone
  <1>11. QED
    BY <1>6, <1>7, <1>8, <1>9, <1>10, Zenon DEF DevInv

LEMMA DevInvStep == DevInv /\ [DevicesNext]_devVars => DevInv'
  <1> SUFFICES ASSUME DevInv, [DevicesNext]_devVars PROVE DevInv'
    BY Zenon
  <1>1. CASE DevicesNext
    BY <1>1, RunInv, CheckIfDueInv, TickEndInv, IdleInv, IdleEndInv, HaltInv, Zenon
       DEF DevicesNext
  <1>2. CASE UNCHANGED devVars
    <2>1. DevTypeOK' /\ IdleSound'
      BY <1>2 DEF devVars, DevInv, DevTypeOK, IdleSound, Ready
    <2>2. PendingSound' /\ HaltsWhenDone'
      BY <1>2, Zenon DEF devVars, DevInv, PendingSound, HaltsWhenDone
    <2>3. SemaphoresExact' /\ EchoesAll'
      BY <1>2, Zenon DEF devVars, DevInv, SemaphoresExact, EchoesAll
    <2>4. QED
      BY <2>1, <2>2, <2>3, Zenon DEF DevInv
  <1>3. QED
    BY <1>1, <1>2, Zenon

(* Only a request changes what DiskOnTime is about.                         *)
LEMMA OnTimeStep == DevInv /\ DiskOnTime /\ [DevicesNext]_devVars => DiskOnTime'
  <1> SUFFICES ASSUME DevInv, DiskOnTime, [DevicesNext]_devVars PROVE DiskOnTime'
    BY Zenon
  <1>1. CASE request' = request
    BY <1>1, Zenon DEF DiskOnTime
  <1>2. CASE \E sector \in DiskSector, writing \in BOOLEAN : DiskRequest(sector, writing)
    BY <1>2, RequestOnTime, Zenon DEF DevInv
  <1>3. \/ request' = request
        \/ \E sector \in DiskSector, writing \in BOOLEAN : DiskRequest(sector, writing)
    <2>1. Run => \/ request' = request
                 \/ \E sector \in DiskSector, writing \in BOOLEAN : DiskRequest(sector, writing)
      BY Zenon DEF Run, EchoRead, EchoPut, EchoWritten, DiskReturn, DiskFinish, Work, diskVars
    <2>2. CheckIfDue => request' = request
      <3> SUFFICES ASSUME CheckIfDue PROVE request' = request
        BY Zenon
      <3>1. Serving
        BY Zenon DEF CheckIfDue, Serving, Due
      <3>2. Head(pending).type \in IntType
        BY <3>1, ServingKeeps, Zenon
      <3>3. \/ TimerExpired(Tail(pending)) \/ CheckCharAvail(Tail(pending))
            \/ ConsoleWriteDone(Tail(pending)) \/ DiskDone(Tail(pending))
        BY <3>2, Zenon DEF CheckIfDue, IntType
      <3>4. QED
        BY <3>3, Zenon DEF TimerExpired, CheckCharAvail, ConsoleWriteDone, DiskDone, diskVars
    <2>3. TickEnd \/ Idle \/ IdleEnd \/ Halt \/ UNCHANGED devVars => request' = request
      BY Zenon DEF TickEnd, Idle, IdleEnd, Halt, diskVars, devVars
    <2>4. QED
      BY <2>1, <2>2, <2>3, Zenon DEF DevicesNext
  <1>4. QED
    BY <1>1, <1>2, <1>3, Zenon

(* The machine's invariant holds of any run of the devices, whatever is     *)
(* typed, asked of the disk and done by the timer.                          *)
THEOREM DevInvAlways == DevicesSpec => []DevInv
  <1>1. QED
    BY DevInitInv, DevInvStep, PTL DEF DevicesSpec

(* No device interrupt is late, lost or scheduled twice.                    *)
THEOREM InterruptsOnTime == DevicesSpec => []PendingSound
  <1>1. DevInv => PendingSound
    BY Zenon DEF DevInv
  <1>2. QED
    BY <1>1, DevInvAlways, PTL

(* The idle machine halts only when no thread waits for a device.           *)
THEOREM HaltsOnlyWhenDone == DevicesSpec => []HaltsWhenDone
  <1>1. DevInv => HaltsWhenDone
    BY Zenon DEF DevInv
  <1>2. QED
    BY <1>1, DevInvAlways, PTL

(* ConsoleTest echoes what is typed, in order, to a display that is free.   *)
THEOREM EchoesInOrder == DevicesSpec => []EchoesAll
  <1>1. DevInv => EchoesAll
    BY Zenon DEF DevInv
  <1>2. QED
    BY <1>1, DevInvAlways, PTL

(* A disk request completes when its sector has passed under the head.      *)
THEOREM RequestsOnTime == DevicesSpec => []DiskOnTime
  <1>1. DevicesInit => DiskOnTime
    BY Zenon DEF DevicesInit, DiskOnTime
  <1>2. QED
    BY <1>1, OnTimeStep, DevInvAlways, PTL DEF DevicesSpec
=============================================================================
