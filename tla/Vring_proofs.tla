----------------------------- MODULE Vring_proofs -----------------------------
(***************************************************************************)
(* Proofs about Vring: for every number of descriptors and every width of  *)
(* the indices that is a multiple of it (2^16 in the code), no descriptor  *)
(* is lost or doubled, the free chain ends where its counter says, and the *)
(* two sides exchange the buffers as BufferExchange promises.              *)
(*                                                                         *)
(* The indices wrap: the first part shows that what lies between two of    *)
(* them is a sequence that is written at one end and read at the other.    *)
(***************************************************************************)
EXTENDS Vring, FiniteSetTheorems, SequenceTheorems, WellFoundedInduction, TLAPS

\* What the two operators of a division are.
LEMMA DivMod ==
  ASSUME NEW x \in Int, NEW m \in Nat \ {0}
  PROVE  x = m * (x \div m) + (x % m) /\ x % m \in 0 .. m - 1 /\ x \div m \in Int
  OBVIOUS

LEMMA ModUnique ==
  ASSUME NEW m \in Nat \ {0}, NEW q \in Int, NEW r \in 0 .. m - 1
  PROVE  (m * q + r) % m = r
  OBVIOUS

\* Whole rounds do not count.
LEMMA ModPlus ==
  ASSUME NEW m \in Nat \ {0}, NEW x \in Int, NEW q \in Int
  PROVE  (m * q + x) % m = x % m
  <1> DEFINE d == x \div m
             r == x % m
  <1>1. x = m * d + r /\ r \in 0 .. m - 1 /\ d \in Int
    BY DivMod
  <1> HIDE DEF d, r
  <1>2. m * q + x = m * (q + d) + r
    BY <1>1
  <1>3. (m * (q + d) + r) % m = r
    BY <1>1, ModUnique
  <1> QED
    BY <1>2, <1>3 DEF r

\* Counting on from a remainder.
LEMMA ModShift ==
  ASSUME NEW m \in Nat \ {0}, NEW x \in Int, NEW k \in Int
  PROVE  ((x % m) + k) % m = (x + k) % m
  <1> DEFINE d == x \div m
             r == x % m
  <1>1. x = m * d + r /\ r \in Int /\ d \in Int
    BY DivMod
  <1> HIDE DEF d, r
  <1>2. x + k = m * d + (r + k)
    BY <1>1
  <1>3. r + k \in Int
    BY <1>1
  <1>4. (m * d + (r + k)) % m = (r + k) % m
    BY <1>1, <1>3, ModPlus
  <1> QED
    BY <1>2, <1>4 DEF r

\* Less than m apart is not the same remainder.
LEMMA ModApart ==
  ASSUME NEW m \in Nat \ {0}, NEW x \in Int, NEW k \in 1 .. m - 1
  PROVE  (x + k) % m # x % m
  <1> DEFINE d == x \div m
             r == x % m
  <1>1. x = m * d + r /\ r \in 0 .. m - 1 /\ d \in Int
    BY DivMod
  <1>2. CASE r + k < m
    <2> HIDE DEF d, r
    <2>1. x + k = m * d + (r + k) /\ r + k \in 0 .. m - 1
      BY <1>1, <1>2
    <2>2. (x + k) % m = r + k
      BY <1>1, <2>1, ModUnique
    <2> QED
      BY <1>1, <2>2 DEF r
  <1>3. CASE r + k >= m
    <2> HIDE DEF d, r
    <2>1. x + k = m * (d + 1) + (r + k - m) /\ r + k - m \in 0 .. m - 1 /\ d + 1 \in Int
      BY <1>1, <1>3
    <2>2. (x + k) % m = r + k - m
      BY <2>1, ModUnique
    <2> QED
      BY <1>1, <2>2 DEF r
  <1> QED
    BY <1>1, <1>2, <1>3

\* A slot does not depend on where the index wraps.
LEMMA SlotOf ==
  ASSUME NEW x \in Int
  PROVE  Slot(x % IdxMod) = x % vq_nentries /\ x % vq_nentries \in Desc /\ x % IdxMod \in Idx
  <1> DEFINE n == vq_nentries
             k == IdxMod \div n
             d == x \div IdxMod
             r == x % IdxMod
  <1>1. n \in Nat \ {0} /\ IdxMod \in Nat \ {0} /\ IdxMod % n = 0
    BY VringAssumption
  <1>2. IdxMod = n * k /\ k \in Int
    BY <1>1, DivMod
  <1>3. x = IdxMod * d + r /\ r \in 0 .. IdxMod - 1 /\ d \in Int
    BY <1>1, DivMod
  <1>4. x % n \in 0 .. n - 1
    BY <1>1, DivMod
  <1>5. x % n = r % n
    <2> HIDE DEF n, k, d, r
    <2>1. x = (n * k) * d + r
      BY <1>2, <1>3
    <2>2. (n * k) * d = n * (k * d) /\ k * d \in Int
      BY <1>1, <1>2, <1>3
    <2>3. x = n * (k * d) + r
      BY <2>1, <2>2
    <2>4. r \in Int /\ n \in Nat \ {0} /\ k * d \in Int
      BY <1>1, <1>3, <2>2
    <2>5. (n * (k * d) + r) % n = r % n
      BY <2>4, ModPlus
    <2> QED
      BY <2>3, <2>5
  <1> QED
    BY <1>3, <1>4, <1>5 DEF Slot, Desc, Idx

------------------------------------------------------------------------------
(* What lies between two positions of a ring.                               *)

Injective(s) == \A i, j \in DOMAIN s : s[i] = s[j] => i = j

\* How many entries are between two positions, and the first n from a position on.
Gap(from, to) == (to - from) % IdxMod
Window(ring, from, n) == [i \in 1 .. n |-> ring[(from + i - 1) % vq_nentries]]

\* Between, without the detour over the index.
LEMMA BetweenIs ==
  ASSUME NEW ring, NEW from \in Idx, NEW to \in Idx
  PROVE  /\ Gap(from, to) \in 0 .. IdxMod - 1
         /\ to = (from + Gap(from, to)) % IdxMod
         /\ Between(ring, from, to) = Window(ring, from, Gap(from, to))
  <1> DEFINE n == (to - from) % IdxMod
  <1>1. IdxMod \in Nat \ {0} /\ from \in 0 .. IdxMod - 1 /\ to \in 0 .. IdxMod - 1 /\ to - from \in Int
    BY VringAssumption DEF Idx
  <1>2. n \in 0 .. IdxMod - 1
    BY <1>1, DivMod
  <1>3. to = (from + n) % IdxMod
    <2>0. from \in Int /\ to \in Int
      BY <1>1
    <2>1. (n + from) % IdxMod = ((to - from) + from) % IdxMod
      BY <1>1, <2>0, ModShift
    <2>2. (to - from) + from = to /\ n + from = from + n
      BY <1>1, <1>2
    <2>3. to % IdxMod = to
      BY <1>1, <2>0
    <2> QED
      BY <2>1, <2>2, <2>3
  <1>4. \A i \in 1 .. n : Slot((from + i - 1) % IdxMod) = (from + i - 1) % vq_nentries
    <2> SUFFICES ASSUME NEW i \in 1 .. n PROVE Slot((from + i - 1) % IdxMod) = (from + i - 1) % vq_nentries
      OBVIOUS
    <2>1. from + i - 1 \in Int
      BY <1>1, <1>2
    <2> QED
      BY <2>1, SlotOf
  <1>5. Between(ring, from, to) = Window(ring, from, n)
    BY <1>4 DEF Between, Window
  <1> QED
    BY <1>2, <1>3, <1>5 DEF Gap

\* How many entries, when their number is known.
LEMMA Distance ==
  ASSUME NEW from \in Idx, NEW n \in 0 .. IdxMod - 1
  PROVE  Gap(from, (from + n) % IdxMod) = n
  <1>1. IdxMod \in Nat \ {0} /\ from \in Int /\ from + n \in Int /\ 0 - from \in Int
    BY VringAssumption DEF Idx
  <1>2. (((from + n) % IdxMod) + (0 - from)) % IdxMod = ((from + n) + (0 - from)) % IdxMod
    BY <1>1, ModShift
  <1>3. (from + n) + (0 - from) = n /\ n % IdxMod = n
    BY <1>1
  <1>4. (from + n) % IdxMod \in Int
    BY <1>1, DivMod
  <1>5. ((from + n) % IdxMod) + (0 - from) = ((from + n) % IdxMod) - from
    BY <1>1, <1>4
  <1> QED
    BY <1>2, <1>3, <1>5 DEF Gap

\* An index designates a slot.
LEMMA SlotTyped == \A x \in Idx : Slot(x) \in Desc
  <1> SUFFICES ASSUME NEW x \in Idx PROVE Slot(x) \in Desc
    OBVIOUS
  <1>1. x \in Int /\ x % IdxMod = x
    BY VringAssumption DEF Idx
  <1> QED
    BY <1>1, SlotOf

LEMMA IncIdx == \A x \in Idx : Inc(x) \in Idx
  BY VringAssumption DEF Inc, Idx

\* Two equal positions, and only those, have nothing between them.
LEMMA BetweenSeq ==
  ASSUME NEW ring \in [Desc -> Desc], NEW from \in Idx, NEW to \in Idx
  PROVE  /\ Between(ring, from, to) \in Seq(Desc)
         /\ Len(Between(ring, from, to)) = Gap(from, to)
         /\ Between(ring, from, to) = <<>> <=> from = to
  <1> DEFINE n == Gap(from, to)
             s == Between(ring, from, to)
  <1>0. n \in 0 .. IdxMod - 1 /\ to = (from + n) % IdxMod
    BY BetweenIs
  <1>1. s = Window(ring, from, n)
    BY BetweenIs
  <1> HIDE DEF n, s
  <1>2. n \in Nat /\ from \in 0 .. IdxMod - 1 /\ IdxMod \in Nat
    BY <1>0, VringAssumption DEF Idx
  <1>3. \A i \in 1 .. n : ring[(from + i - 1) % vq_nentries] \in Desc
    <2> SUFFICES ASSUME NEW i \in 1 .. n PROVE ring[(from + i - 1) % vq_nentries] \in Desc
      OBVIOUS
    <2>1. from + i - 1 \in Int
      BY <1>2
    <2>2. (from + i - 1) % vq_nentries \in Desc
      BY <2>1, SlotOf
    <2> QED
      BY <2>2
  <1>4. s \in Seq(Desc) /\ Len(s) = n
    BY <1>1, <1>2, <1>3 DEF Window
  <1>5. n = 0 => from = to
    BY <1>0, <1>2
  <1>6. from = to => n = 0
    BY <1>2, VringAssumption DEF n, Gap
  <1> QED
    BY <1>4, <1>5, <1>6 DEF n, s

\* Counting on from an index, in slots.
LEMMA ModDown ==
  ASSUME NEW x \in Int, NEW k \in Int
  PROVE  ((x % IdxMod) + k) % vq_nentries = (x + k) % vq_nentries
  <1>1. vq_nentries \in Nat \ {0} /\ IdxMod \in Nat \ {0}
    BY VringAssumption
  <1>2. x % IdxMod \in Int
    BY <1>1, DivMod
  <1>3. (((x % IdxMod) % vq_nentries) + k) % vq_nentries = ((x % IdxMod) + k) % vq_nentries
    BY <1>1, <1>2, ModShift
  <1>4. ((x % vq_nentries) + k) % vq_nentries = (x + k) % vq_nentries
    BY <1>1, ModShift
  <1>5. (x % IdxMod) % vq_nentries = x % vq_nentries
    BY SlotOf DEF Slot
  <1> QED
    BY <1>3, <1>4, <1>5

\* The reader moves on by one.
LEMMA BetweenTail ==
  ASSUME NEW ring \in [Desc -> Desc], NEW from \in Idx, NEW to \in Idx, from # to
  PROVE  /\ Between(ring, from, to) # <<>>
         /\ Head(Between(ring, from, to)) = ring[Slot(from)]
         /\ Between(ring, Inc(from), to) = Tail(Between(ring, from, to))
  <1> DEFINE n == Gap(from, to)
             s == Between(ring, from, to)
             up == Inc(from)
             t == Between(ring, up, to)
  <1>1. n \in 0 .. IdxMod - 1 /\ to = (from + n) % IdxMod
    BY BetweenIs
  <1>2. s = Window(ring, from, n) /\ t = Window(ring, up, Gap(up, to))
    BY BetweenIs, IncIdx
  <1>3. s # <<>> /\ s \in Seq(Desc) /\ Len(s) = n
    BY BetweenSeq
  <1>4. up \in Idx /\ up = (from + 1) % IdxMod
    BY IncIdx DEF Inc
  <1> HIDE DEF n, s, t, up
  <1>5. from \in Int /\ from \in Idx /\ IdxMod \in Nat \ {0} /\ vq_nentries \in Nat \ {0}
    BY VringAssumption DEF Idx
  <1>6. n \in 1 .. IdxMod - 1
    BY <1>1, <1>3
  <1>7. Gap(up, to) = n - 1
    <2>1. from + 1 \in Int /\ n - 1 \in Int
      BY <1>5, <1>6
    <2>2. (up + (n - 1)) % IdxMod = ((from + 1) + (n - 1)) % IdxMod
      BY <1>4, <1>5, <2>1, ModShift
    <2>3. (from + 1) + (n - 1) = from + n
      BY <1>5, <1>6
    <2>4. to = (up + (n - 1)) % IdxMod
      BY <1>1, <2>2, <2>3
    <2>5. n - 1 \in 0 .. IdxMod - 1
      BY <1>5, <1>6
    <2> QED
      BY <1>4, <2>4, <2>5, Distance
  <1>8. \A i \in 1 .. n - 1 : (up + i - 1) % vq_nentries = (from + (i + 1) - 1) % vq_nentries
    <2> SUFFICES ASSUME NEW i \in 1 .. n - 1
                 PROVE  (up + i - 1) % vq_nentries = (from + (i + 1) - 1) % vq_nentries
      OBVIOUS
    <2>1. from + 1 \in Int /\ i - 1 \in Int /\ i \in Int
      BY <1>5, <1>6
    <2>2. (up + (i - 1)) % vq_nentries = ((from + 1) + (i - 1)) % vq_nentries
      BY <1>4, <2>1, ModDown
    <2>3. (from + 1) + (i - 1) = from + (i + 1) - 1
      BY <1>5, <2>1
    <2>4. up \in Int
      BY <1>4, VringAssumption DEF Idx
    <2>5. up + (i - 1) = up + i - 1
      BY <2>1, <2>4
    <2> QED
      BY <2>2, <2>3, <2>5
  <1>9. t = [i \in 1 .. n - 1 |-> ring[(up + i - 1) % vq_nentries]]
    BY <1>2, <1>7 DEF Window
  <1>10. s = [i \in 1 .. n |-> ring[(from + i - 1) % vq_nentries]]
    BY <1>2 DEF Window
  <1>11. t = [i \in 1 .. n - 1 |-> s[i + 1]]
    <2>1. \A i \in 1 .. n - 1 : i + 1 \in 1 .. n
      BY <1>6
    <2>2. \A i \in 1 .. n - 1 : ring[(up + i - 1) % vq_nentries] = s[i + 1]
      BY <1>8, <1>10, <2>1
    <2> QED
      BY <1>9, <2>2
  <1>12. t = Tail(s)
    <2>1. t \in Seq(Desc) /\ Len(t) = n - 1
      BY <1>4, <1>7, BetweenSeq DEF t
    <2>2. Tail(s) \in Seq(Desc) /\ Len(Tail(s)) = n - 1 /\ \A i \in 1 .. n - 1 : Tail(s)[i] = s[i + 1]
      BY <1>3, HeadTailProperties
    <2>3. \A i \in 1 .. n - 1 : t[i] = Tail(s)[i]
      BY <1>11, <2>2
    <2> HIDE DEF t
    <2> QED
      BY <2>1, <2>2, <2>3, SeqEqual
  <1>13. Head(s) = ring[Slot(from)]
    <2>1. Head(s) = s[1] /\ 1 \in 1 .. n
      BY <1>3, <1>6
    <2>2. s[1] = ring[(from + 1 - 1) % vq_nentries]
      BY <1>10, <2>1
    <2>3. from + 1 - 1 = from
      BY <1>5
    <2> QED
      BY <2>1, <2>2, <2>3 DEF Slot
  <1> QED
    BY <1>3, <1>12, <1>13 DEF s, t, up

\* The writer moves on by one: no two rounds of the indices look alike.
LEMMA BetweenAppend ==
  ASSUME NEW ring \in [Desc -> Desc], NEW from \in Idx, NEW to \in Idx,
         Len(Between(ring, from, to)) < vq_nentries
  PROVE  Between(ring, from, Inc(to)) = Append(Between(ring, from, to), ring[Slot(to)])
  <1> DEFINE n == Gap(from, to)
             s == Between(ring, from, to)
             up == Inc(to)
             t == Between(ring, from, up)
  <1>1. n \in 0 .. IdxMod - 1 /\ to = (from + n) % IdxMod
    BY BetweenIs
  <1>2. s = Window(ring, from, n) /\ t = Window(ring, from, Gap(from, up))
    BY BetweenIs, IncIdx
  <1>3. s \in Seq(Desc) /\ Len(s) = n
    BY BetweenSeq
  <1>4. up \in Idx /\ up = (to + 1) % IdxMod
    BY IncIdx DEF Inc
  <1>5. n < vq_nentries
    BY <1>3
  <1> HIDE DEF n, s, t, up
  <1>6. from \in Int /\ from \in Idx /\ IdxMod \in Nat \ {0} /\ vq_nentries \in Nat \ {0} /\ IdxMod > vq_nentries
    BY VringAssumption DEF Idx
  <1>7. n + 1 \in 0 .. IdxMod - 1 /\ n \in Int /\ from + n \in Int
    BY <1>1, <1>5, <1>6
  <1>8. Gap(from, up) = n + 1
    <2>0. 1 \in Int
      OBVIOUS
    <2>1. up = ((from + n) + 1) % IdxMod
      BY <1>1, <1>4, <1>6, <1>7, <2>0, ModShift
    <2>2. (from + n) + 1 = from + (n + 1)
      BY <1>6, <1>7
    <2> QED
      BY <1>6, <1>7, <2>1, <2>2, Distance
  <1>9. t = [i \in 1 .. n + 1 |-> ring[(from + i - 1) % vq_nentries]]
    BY <1>2, <1>8 DEF Window
  <1>10. s = [i \in 1 .. n |-> ring[(from + i - 1) % vq_nentries]]
    BY <1>2 DEF Window
  <1>11. ring[Slot(to)] = ring[(from + (n + 1) - 1) % vq_nentries]
    <2>1. Slot(to) = (from + n) % vq_nentries
      BY <1>1, <1>7, SlotOf
    <2>2. from + n = from + (n + 1) - 1
      BY <1>6, <1>7
    <2> QED
      BY <2>1, <2>2
  <1>12. Append(s, ring[Slot(to)]) = [i \in 1 .. n + 1 |-> IF i = n + 1 THEN ring[Slot(to)] ELSE s[i]]
    BY <1>3, <1>7
  <1>13. \A i \in 1 .. n + 1 :
           ring[(from + i - 1) % vq_nentries] = IF i = n + 1 THEN ring[Slot(to)] ELSE s[i]
    <2> SUFFICES ASSUME NEW i \in 1 .. n + 1
                 PROVE  ring[(from + i - 1) % vq_nentries] = IF i = n + 1 THEN ring[Slot(to)] ELSE s[i]
      OBVIOUS
    <2>1. CASE i = n + 1
      BY <1>11, <2>1
    <2>2. CASE i # n + 1
      <3>1. i \in 1 .. n
        BY <1>7, <2>2
      <3> QED
        BY <1>10, <2>2, <3>1
    <2> QED
      BY <2>1, <2>2
  <1>14. t = Append(s, ring[Slot(to)])
    BY <1>9, <1>12, <1>13
  <1> QED
    BY <1>14 DEF s, t, up

\* The writer writes a slot that nobody reads.
LEMMA BetweenWrite ==
  ASSUME NEW ring \in [Desc -> Desc], NEW from \in Idx, NEW to \in Idx,
         Len(Between(ring, from, to)) < vq_nentries,
         NEW new, \A s \in Desc : s # Slot(to) => new[s] = ring[s]
  PROVE  Between(new, from, to) = Between(ring, from, to)
  <1> DEFINE n == Gap(from, to)
  <1>1. n \in 0 .. IdxMod - 1 /\ to = (from + n) % IdxMod
    BY BetweenIs
  <1>2. Between(ring, from, to) = Window(ring, from, n) /\ Between(new, from, to) = Window(new, from, n)
    BY BetweenIs
  <1>3. n < vq_nentries
    BY BetweenSeq
  <1>4. from \in Int /\ n \in Int /\ from + n \in Int /\ vq_nentries \in Nat \ {0}
    BY <1>1, VringAssumption DEF Idx
  <1>5. Slot(to) = (from + n) % vq_nentries /\ Slot(to) \in Desc
    BY <1>1, <1>4, SlotOf
  <1>6. \A i \in 1 .. n : new[(from + i - 1) % vq_nentries] = ring[(from + i - 1) % vq_nentries]
    <2> HIDE DEF n
    <2> SUFFICES ASSUME NEW i \in 1 .. n
                 PROVE  new[(from + i - 1) % vq_nentries] = ring[(from + i - 1) % vq_nentries]
      OBVIOUS
    <2>1. i \in Int /\ from + i - 1 \in Int /\ n - i + 1 \in 1 .. vq_nentries - 1
      BY <1>3, <1>4
    <2>2. (from + i - 1) + (n - i + 1) = from + n
      BY <1>4, <2>1
    <2>3. (from + i - 1) % vq_nentries # Slot(to)
      BY <1>4, <1>5, <2>1, <2>2, ModApart
    <2>4. (from + i - 1) % vq_nentries \in Desc
      BY <2>1, SlotOf
    <2> QED
      BY <2>3, <2>4
  <1>7. Window(new, from, n) = Window(ring, from, n)
    BY <1>6 DEF Window
  <1> QED
    BY <1>2, <1>7

------------------------------------------------------------------------------
(* Sequences of descriptors.                                                *)

LEMMA EntryAppend ==
  ASSUME NEW s \in Seq(Desc), NEW d \in Desc
  PROVE  /\ Entries(Append(s, d)) = Entries(s) \cup {d}
         /\ Injective(s) /\ d \notin Entries(s) => Injective(Append(s, d))
  <1> DEFINE t == Append(s, d)
             n == Len(s)
  <1>1. /\ n \in Nat /\ DOMAIN s = 1 .. n /\ DOMAIN t = 1 .. n + 1
        /\ t[n + 1] = d /\ \A i \in 1 .. n : t[i] = s[i]
    OBVIOUS
  <1> HIDE DEF t, n
  <1>2. Entries(t) = Entries(s) \cup {d}
    <2>1. \A i \in 1 .. n + 1 : i = n + 1 \/ i \in 1 .. n
      BY <1>1
    <2>2. \A i \in 1 .. n : i \in 1 .. n + 1
      BY <1>1
    <2>3. n + 1 \in 1 .. n + 1
      BY <1>1
    <2> QED
      BY <1>1, <2>1, <2>2, <2>3 DEF Entries
  <1>3. Injective(s) /\ d \notin Entries(s) => Injective(t)
    BY <1>1 DEF Entries, Injective
  <1> QED
    BY <1>2, <1>3 DEF t

LEMMA EntryTail ==
  ASSUME NEW s \in Seq(Desc), s # <<>>
  PROVE  /\ Head(s) \in Desc /\ Head(s) \in Entries(s)
         /\ Entries(s) = Entries(Tail(s)) \cup {Head(s)}
         /\ Injective(s) => Injective(Tail(s)) /\ Head(s) \notin Entries(Tail(s))
  <1> DEFINE t == Tail(s)
             n == Len(s)
             h == Head(s)
  <1>1. t \in Seq(Desc) /\ Len(t) = n - 1 /\ \A i \in 1 .. n - 1 : t[i] = s[i + 1]
    BY HeadTailProperties
  <1>2. n \in Nat \ {0} /\ h = s[1] /\ DOMAIN s = 1 .. n /\ h \in Desc
    OBVIOUS
  <1>3. DOMAIN t = 1 .. n - 1
    BY <1>1, <1>2
  <1> HIDE DEF t, n, h
  <1>4. \A i \in 1 .. n - 1 : i + 1 \in 1 .. n /\ i + 1 # 1
    BY <1>2
  <1>5. \A i \in 1 .. n : i = 1 \/ (i - 1 \in 1 .. n - 1 /\ (i - 1) + 1 = i)
    BY <1>2
  <1>6. 1 \in 1 .. n
    BY <1>2
  <1>7. Entries(s) = Entries(t) \cup {h}
    <2>1. ASSUME NEW x \in Entries(s) PROVE x \in Entries(t) \cup {h}
      <3>1. PICK i \in 1 .. n : x = s[i]
        BY <1>2, <2>1 DEF Entries
      <3>2. CASE i = 1
        BY <1>2, <3>1, <3>2
      <3>3. CASE i # 1
        <4>1. i - 1 \in 1 .. n - 1 /\ t[i - 1] = s[(i - 1) + 1] /\ (i - 1) + 1 = i
          BY <1>1, <1>5, <3>3
        <4> QED
          BY <1>3, <3>1, <4>1 DEF Entries
      <3> QED
        BY <3>2, <3>3
    <2>2. Entries(t) \subseteq Entries(s)
      BY <1>1, <1>2, <1>3, <1>4 DEF Entries
    <2>3. h \in Entries(s)
      BY <1>2, <1>6 DEF Entries
    <2> QED
      BY <2>1, <2>2, <2>3
  <1>8. ASSUME Injective(s) PROVE Injective(t) /\ h \notin Entries(t)
    <2>1. h \notin Entries(t)
      BY <1>1, <1>2, <1>3, <1>4, <1>6, <1>8 DEF Entries, Injective
    <2>2. ASSUME NEW i \in 1 .. n - 1, NEW j \in 1 .. n - 1, t[i] = t[j] PROVE i = j
      <3>1. s[i + 1] = s[j + 1] /\ i + 1 \in 1 .. n /\ j + 1 \in 1 .. n
        BY <1>1, <1>4, <2>2
      <3>2. i + 1 = j + 1
        BY <1>2, <1>8, <3>1 DEF Injective
      <3> QED
        BY <1>2, <3>2
    <2> QED
      BY <1>3, <2>1, <2>2 DEF Injective
  <1> QED
    BY <1>2, <1>7, <1>8 DEF t, h

\* Distinct descriptors are as many as there are, or fewer.
\* As many entries as positions.
LEMMA EntryCount ==
  ASSUME NEW s \in Seq(Desc), Injective(s)
  PROVE  IsFiniteSet(Entries(s)) /\ Cardinality(Entries(s)) = Len(s)
  <1>1. Len(s) \in Nat /\ DOMAIN s = 1 .. Len(s) /\ s \in [1 .. Len(s) -> Entries(s)]
    BY DEF Entries
  <1>2. s \in Bijection(1 .. Len(s), Entries(s))
    BY <1>1 DEF Bijection, Injection, Surjection, IsInjective, Entries, Injective
  <1>3. ExistsBijection(1 .. Len(s), Entries(s))
    BY <1>2 DEF ExistsBijection
  <1>4. IsFiniteSet(1 .. Len(s)) /\ Cardinality(1 .. Len(s)) = Len(s)
    BY <1>1, FS_Interval
  <1> QED
    BY <1>3, <1>4, FS_Bijection

LEMMA DescCount == IsFiniteSet(Desc) /\ Cardinality(Desc) = vq_nentries
  <1>1. vq_nentries \in Nat \ {0} /\ 0 \in Int /\ vq_nentries - 1 \in Int
    BY VringAssumption
  <1>2. IsFiniteSet(Desc) /\ Cardinality(Desc) = IF 0 > vq_nentries - 1 THEN 0 ELSE (vq_nentries - 1) - 0 + 1
    BY <1>1, FS_Interval DEF Desc
  <1> QED
    BY <1>1, <1>2

LEMMA EntryBound ==
  ASSUME NEW s \in Seq(Desc), Injective(s)
  PROVE  /\ Len(s) =< vq_nentries
         /\ \A d \in Desc : d \notin Entries(s) => Len(s) < vq_nentries
  <1>1. Entries(s) \subseteq Desc
    BY DEF Entries
  <1>2. IsFiniteSet(Entries(s)) /\ Cardinality(Entries(s)) = Len(s) /\ Len(s) \in Nat
    BY EntryCount
  <1>3. Cardinality(Entries(s)) =< vq_nentries /\ (Cardinality(Entries(s)) = vq_nentries => Entries(s) = Desc)
    BY <1>1, DescCount, FS_Subset
  <1> QED
    BY <1>2, <1>3, VringAssumption

------------------------------------------------------------------------------
(* The inductive invariant.  A descriptor that is not in one of five places *)
(* on its way to the device and back is free; the free ones form a chain.   *)

Offered  == Pending("driver", availRing, availIdx)
Returned == Pending("device", usedRing, usedIdx)
Away == Entries(Avail) \cup Offered \cup held \cup Entries(Used) \cup Returned

\* The five places share nothing, and no ring holds an entry twice.
Apart ==
  /\ Injective(Avail) /\ Injective(Used)
  /\ \A d \in Entries(Avail) : d \notin Offered /\ d \notin held /\ d \notin Entries(Used) /\ d \notin Returned
  /\ \A d \in Offered : d \notin held /\ d \notin Entries(Used) /\ d \notin Returned
  /\ \A d \in held : d \notin Entries(Used) /\ d \notin Returned
  /\ \A d \in Entries(Used) : d \notin Returned

\* e lists the free descriptors in the order in which they are chained.
IsChain(e) ==
  /\ e \in [1 .. vq_free_cnt + 1 -> 0 .. ChainEnd]
  /\ e[1] = vq_desc_head_idx /\ e[vq_free_cnt + 1] = ChainEnd
  /\ \A i \in 1 .. vq_free_cnt : e[i] \in Desc /\ e[i] \notin Away /\ next[e[i]] = e[i + 1]
  /\ \A i, j \in 1 .. vq_free_cnt : e[i] = e[j] => i = j
  /\ \A d \in Desc : d \notin Away => \E i \in 1 .. vq_free_cnt : e[i] = d

Chained == \E e \in [1 .. vq_free_cnt + 1 -> 0 .. ChainEnd] : IsChain(e)

\* What a descriptor carries.
Cleared == \A d \in Desc : d \notin Away => cookie[d] = NoBuf /\ ndescs[d] = 0
Loaded  == \A d \in Away : addr[d] \in Buf /\ cookie[d] = addr[d] /\ ndescs[d] = 1

\* Who has the buffers.
Owners ==
  /\ \A d, f \in Away : addr[d] = addr[f] => d = f
  /\ driver = Buf \ {addr[d] : d \in Away}
  /\ device = {addr[d] : d \in held}

IInv == TypeOK /\ Apart /\ Chained /\ Cleared /\ Loaded /\ Owners

LEMMA RingsTyped ==
  ASSUME TypeOK
  PROVE  /\ Avail \in Seq(Desc) /\ Used \in Seq(Desc)
         /\ Avail = <<>> <=> vq_available_idx = availIdx
         /\ Used = <<>> <=> vq_used_cons_idx = usedIdx
  BY BetweenSeq DEF TypeOK, Avail, Used

\* The head of the chain is free as long as the counter is not 0.
LEMMA HeadFree ==
  ASSUME TypeOK, Chained, vq_free_cnt > 0
  PROVE  vq_desc_head_idx \in Desc /\ vq_desc_head_idx \notin Away
  <1>1. PICK e \in [1 .. vq_free_cnt + 1 -> 0 .. ChainEnd] : IsChain(e)
    BY DEF Chained
  <1>2. vq_free_cnt \in Nat
    BY DEF TypeOK
  <1>3. 1 \in 1 .. vq_free_cnt
    BY <1>2
  <1> QED
    BY <1>1, <1>3 DEF IsChain

------------------------------------------------------------------------------
(* What each operation does to the five places.                             *)

LEMMA AddPlaces ==
  ASSUME IInv, NEW b \in Buf, AddBuffer(b)
  PROVE  /\ vq_desc_head_idx \in Desc /\ vq_desc_head_idx \notin Away
         /\ availRing' \in [Desc -> Desc]
         /\ Avail' = Avail /\ Used' = Used /\ held' = held /\ Returned' = Returned
         /\ Offered = {} /\ Offered' = {vq_desc_head_idx}
  <1> DEFINE h == vq_desc_head_idx
  <1>1. TypeOK /\ h \in Desc /\ h \notin Away
    BY HeadFree DEF IInv, AddBuffer, TypeOK
  <1>2. Len(Avail) < vq_nentries
    BY <1>1, RingsTyped, EntryBound DEF IInv, Apart, Away
  <1>3. availRing' = [availRing EXCEPT ![Slot(availIdx)] = h] /\ UNCHANGED <<availIdx, vq_available_idx>>
    BY DEF AddBuffer, posVars
  <1>4. availRing \in [Desc -> Desc] /\ availIdx \in Idx /\ vq_available_idx \in Idx
    BY <1>1 DEF TypeOK
  <1>5. availRing' \in [Desc -> Desc] /\ availRing'[Slot(availIdx)] = h /\ Avail' = Avail
    <2> DEFINE new == [availRing EXCEPT ![Slot(availIdx)] = h]
    <2>1. Len(Between(availRing, vq_available_idx, availIdx)) < vq_nentries
      BY <1>2 DEF Avail
    <2>a. h \in Desc
      BY <1>1
    <2>b. Slot(availIdx) \in Desc
      BY <1>4, SlotTyped
    <2>c. new \in [Desc -> Desc] /\ new[Slot(availIdx)] = h
      BY <1>4, <2>a, <2>b
    <2>d. \A s \in Desc : s # Slot(availIdx) => new[s] = availRing[s]
      BY <1>4, <2>b
    <2> HIDE DEF new, h
    <2>2. Between(new, vq_available_idx, availIdx) = Between(availRing, vq_available_idx, availIdx)
      BY <1>4, <2>1, <2>d, BetweenWrite
    <2>3. availRing' = new /\ availIdx' = availIdx /\ vq_available_idx' = vq_available_idx
      BY <1>3 DEF new, h
    <2> QED
      BY <2>2, <2>3, <2>c DEF Avail
  <1>6. Used' = Used /\ held' = held /\ Returned' = Returned
    BY DEF AddBuffer, posVars, Used, Returned, Pending
  <1>7. Offered = {} /\ Offered' = {h}
    BY <1>3, <1>5 DEF AddBuffer, Offered, Pending
  <1> QED
    BY <1>1, <1>5, <1>6, <1>7

LEMMA PublishAvailPlaces ==
  ASSUME IInv, PublishAvail
  PROVE  \E d \in Desc :
           /\ Offered = {d} /\ Offered' = {}
           /\ Avail' = Append(Avail, d)
           /\ Used' = Used /\ held' = held /\ Returned' = Returned
           /\ Len(Avail) < vq_nentries /\ d \notin Entries(Avail)
  <1> DEFINE d == availRing[Slot(availIdx)]
  <1>1. TypeOK /\ availRing \in [Desc -> Desc] /\ availIdx \in Idx /\ vq_available_idx \in Idx
    BY DEF IInv, TypeOK
  <1>2. availIdx \in Int /\ availIdx % IdxMod = availIdx
    BY <1>1, VringAssumption DEF Idx
  <1>3. Slot(availIdx) \in Desc
    BY <1>2, SlotOf
  <1>4. d \in Desc /\ Offered = {d} /\ Offered' = {}
    BY <1>1, <1>3 DEF PublishAvail, Offered, Pending
  <1>5. Len(Avail) < vq_nentries /\ d \notin Entries(Avail)
    BY <1>1, <1>4, RingsTyped, EntryBound DEF IInv, Apart
  <1>6. Avail' = Append(Avail, d)
    BY <1>1, <1>5, BetweenAppend DEF Avail, PublishAvail, posVars
  <1>7. Used' = Used /\ held' = held /\ Returned' = Returned
    BY DEF PublishAvail, posVars, Used, Returned, Pending
  <1> QED
    BY <1>4, <1>5, <1>6, <1>7

LEMMA GetAvailablePlaces ==
  ASSUME IInv, virtqueue_get_available_buffer
  PROVE  \E d \in Desc :
           /\ Avail # <<>> /\ d = Head(Avail) /\ Avail' = Tail(Avail)
           /\ held' = held \cup {d} /\ device' = device \cup {addr[d]}
           /\ Used' = Used /\ Offered' = Offered /\ Returned' = Returned
  <1> DEFINE d == availRing[Slot(vq_available_idx)]
  <1>1. TypeOK /\ availRing \in [Desc -> Desc] /\ availIdx \in Idx /\ vq_available_idx \in Idx
    BY DEF IInv, TypeOK
  <1>2. vq_available_idx \in Int /\ vq_available_idx # availIdx
    BY <1>1, VringAssumption DEF Idx, virtqueue_get_available_buffer
  <1>3. Avail # <<>> /\ Head(Avail) = d
    BY <1>1, <1>2, BetweenTail DEF Avail
  <1>4. Avail' = Tail(Avail)
    BY <1>1, <1>2, BetweenTail DEF Avail, virtqueue_get_available_buffer, Taken, ringVars
  <1>5. d \in Desc
    BY <1>1, <1>3, RingsTyped, EntryTail
  <1>6. held' = held \cup {d} /\ device' = device \cup {addr[d]}
    BY DEF virtqueue_get_available_buffer
  <1>7. Used' = Used /\ Offered' = Offered /\ Returned' = Returned
    BY DEF virtqueue_get_available_buffer, ringVars, Used, Offered, Returned, Pending
  <1> QED
    BY <1>3, <1>4, <1>5, <1>6, <1>7

LEMMA AddConsumedPlaces ==
  ASSUME IInv, NEW d \in Desc, AddConsumed(d)
  PROVE  /\ d \in held /\ held' = held \ {d}
         /\ usedRing' \in [Desc -> Desc]
         /\ Used' = Used /\ Avail' = Avail /\ Offered' = Offered
         /\ Returned = {} /\ Returned' = {d}
  <1>1. TypeOK /\ usedRing \in [Desc -> Desc] /\ usedIdx \in Idx /\ vq_used_cons_idx \in Idx
    BY DEF IInv, TypeOK
  <1>2. d \in held /\ d \notin Entries(Used)
    BY DEF IInv, Apart, AddConsumed
  <1>3. Len(Used) < vq_nentries
    BY <1>1, <1>2, RingsTyped, EntryBound DEF IInv, Apart
  <1>4. usedRing' = [usedRing EXCEPT ![Slot(usedIdx)] = d] /\ UNCHANGED <<usedIdx, vq_used_cons_idx>>
    BY DEF AddConsumed, WriteUsed, posVars
  <1>5. usedRing' \in [Desc -> Desc] /\ usedRing'[Slot(usedIdx)] = d /\ Used' = Used
    <2> DEFINE new == [usedRing EXCEPT ![Slot(usedIdx)] = d]
    <2>1. Len(Between(usedRing, vq_used_cons_idx, usedIdx)) < vq_nentries
      BY <1>3 DEF Used
    <2>b. Slot(usedIdx) \in Desc
      BY <1>1, SlotTyped
    <2>c. new \in [Desc -> Desc] /\ new[Slot(usedIdx)] = d
      BY <1>1, <2>b
    <2>d. \A s \in Desc : s # Slot(usedIdx) => new[s] = usedRing[s]
      BY <1>1, <2>b
    <2> HIDE DEF new
    <2>2. Between(new, vq_used_cons_idx, usedIdx) = Between(usedRing, vq_used_cons_idx, usedIdx)
      BY <1>1, <2>1, <2>d, BetweenWrite
    <2>3. usedRing' = new /\ usedIdx' = usedIdx /\ vq_used_cons_idx' = vq_used_cons_idx
      BY <1>4 DEF new
    <2> QED
      BY <2>2, <2>3, <2>c DEF Used
  <1>6. Avail' = Avail /\ Offered' = Offered /\ held' = held \ {d}
    BY DEF AddConsumed, posVars, Avail, Offered, Pending
  <1>7. Returned = {} /\ Returned' = {d}
    BY <1>4, <1>5 DEF AddConsumed, Returned, Pending
  <1> QED
    BY <1>2, <1>5, <1>6, <1>7

LEMMA PublishUsedPlaces ==
  ASSUME IInv, PublishUsed
  PROVE  \E d \in Desc :
           /\ Returned = {d} /\ Returned' = {}
           /\ Used' = Append(Used, d)
           /\ Avail' = Avail /\ held' = held /\ Offered' = Offered
           /\ Len(Used) < vq_nentries /\ d \notin Entries(Used)
  <1> DEFINE d == usedRing[Slot(usedIdx)]
  <1>1. TypeOK /\ usedRing \in [Desc -> Desc] /\ usedIdx \in Idx /\ vq_used_cons_idx \in Idx
    BY DEF IInv, TypeOK
  <1>2. usedIdx \in Int /\ usedIdx % IdxMod = usedIdx
    BY <1>1, VringAssumption DEF Idx
  <1>3. Slot(usedIdx) \in Desc
    BY <1>2, SlotOf
  <1>4. d \in Desc /\ Returned = {d} /\ Returned' = {}
    BY <1>1, <1>3 DEF PublishUsed, Returned, Pending
  <1>5. Len(Used) < vq_nentries /\ d \notin Entries(Used)
    BY <1>1, <1>4, RingsTyped, EntryBound DEF IInv, Apart
  <1>6. Used' = Append(Used, d)
    BY <1>1, <1>5, BetweenAppend DEF Used, PublishUsed, posVars
  <1>7. Avail' = Avail /\ held' = held /\ Offered' = Offered
    BY DEF PublishUsed, posVars, Avail, Offered, Pending
  <1> QED
    BY <1>4, <1>5, <1>6, <1>7

LEMMA GetBufferPlaces ==
  ASSUME IInv, virtqueue_get_buffer
  PROVE  \E d \in Desc :
           /\ Used # <<>> /\ d = Head(Used) /\ Used' = Tail(Used)
           /\ FreeChain(d) /\ cookie' = [cookie EXCEPT ![d] = NoBuf]
           /\ driver' = driver \cup {cookie[d]} /\ d \in Away
           /\ Avail' = Avail /\ held' = held /\ Offered' = Offered /\ Returned' = Returned
  <1> DEFINE d == usedRing[Slot(vq_used_cons_idx)]
  <1>1. TypeOK /\ usedRing \in [Desc -> Desc] /\ usedIdx \in Idx /\ vq_used_cons_idx \in Idx
    BY DEF IInv, TypeOK
  <1>2. vq_used_cons_idx \in Int /\ vq_used_cons_idx # usedIdx
    BY <1>1, VringAssumption DEF Idx, virtqueue_get_buffer
  <1>3. Used # <<>> /\ Head(Used) = d
    BY <1>1, <1>2, BetweenTail DEF Used
  <1>4. Used' = Tail(Used)
    BY <1>1, <1>2, BetweenTail DEF Used, virtqueue_get_buffer, ringVars
  <1>5. d \in Desc /\ d \in Away
    BY <1>1, <1>3, RingsTyped, EntryTail DEF Away
  <1>6. FreeChain(d) /\ cookie' = [cookie EXCEPT ![d] = NoBuf] /\ driver' = driver \cup {cookie[d]}
    BY DEF virtqueue_get_buffer
  <1>7. Avail' = Avail /\ held' = held /\ Offered' = Offered /\ Returned' = Returned
    BY DEF virtqueue_get_buffer, ringVars, Avail, Offered, Returned, Pending
  <1> QED
    BY <1>3, <1>4, <1>5, <1>6, <1>7

------------------------------------------------------------------------------
(* Each operation keeps the invariant.  Four of them only move a descriptor *)
(* from one of the five places to the next.                                 *)

LEMMA Moved ==
  ASSUME IInv, Away' = Away, UNCHANGED <<descVars, driver>>
  PROVE  Chained' /\ Cleared' /\ Loaded'
         /\ (\A d, f \in Away : addr[d] = addr[f] => d = f)'
         /\ (driver = Buf \ {addr[d] : d \in Away})'
  <1>1. UNCHANGED <<addr, next, cookie, ndescs, vq_desc_head_idx, vq_free_cnt, driver>>
    BY DEF descVars
  <1>2. Chained'
    <2>1. PICK e \in [1 .. vq_free_cnt + 1 -> 0 .. ChainEnd] : IsChain(e)
      BY DEF IInv, Chained
    <2>2. IsChain(e)'
      BY <1>1, <2>1 DEF IsChain
    <2> QED
      BY <1>1, <2>2 DEF Chained
  <1>3. Cleared' /\ Loaded'
    BY <1>1 DEF IInv, Cleared, Loaded
  <1>4. (\A d, f \in Away : addr[d] = addr[f] => d = f)'
    BY <1>1 DEF IInv, Owners
  <1>5. (driver = Buf \ {addr[d] : d \in Away})'
    BY <1>1 DEF IInv, Owners
  <1> QED
    BY <1>2, <1>3, <1>4, <1>5

LEMMA PublishAvailStep ==
  ASSUME IInv, PublishAvail
  PROVE  IInv'
  <1>1. PICK d \in Desc :
           /\ Offered = {d} /\ Offered' = {}
           /\ Avail' = Append(Avail, d)
           /\ Used' = Used /\ held' = held /\ Returned' = Returned
           /\ Len(Avail) < vq_nentries /\ d \notin Entries(Avail)
    BY PublishAvailPlaces
  <1>2. Avail \in Seq(Desc)
    BY RingsTyped DEF IInv
  <1>3. Entries(Avail') = Entries(Avail) \cup {d} /\ Injective(Avail')
    BY <1>1, <1>2, EntryAppend DEF IInv, Apart
  <1>4. Entries(Used') = Entries(Used)
    BY <1>1
  <1>5. Away' = Away
    BY <1>1, <1>3, <1>4 DEF Away
  <1>6. Apart'
    BY <1>1, <1>3, <1>4 DEF IInv, Apart
  <1>7. UNCHANGED <<descVars, driver, device>>
    BY DEF PublishAvail
  <1>8. TypeOK'
    BY IncIdx DEF IInv, TypeOK, PublishAvail, descVars, posVars
  <1>9. (device = {addr[f] : f \in held})'
    BY <1>1, <1>7 DEF IInv, Owners, descVars
  <1> QED
    BY <1>5, <1>6, <1>7, <1>8, <1>9, Moved DEF IInv, Owners

LEMMA GetAvailableStep ==
  ASSUME IInv, virtqueue_get_available_buffer
  PROVE  IInv'
  <1>1. PICK d \in Desc :
           /\ Avail # <<>> /\ d = Head(Avail) /\ Avail' = Tail(Avail)
           /\ held' = held \cup {d} /\ device' = device \cup {addr[d]}
           /\ Used' = Used /\ Offered' = Offered /\ Returned' = Returned
    BY GetAvailablePlaces
  <1>2. Avail \in Seq(Desc)
    BY RingsTyped DEF IInv
  <1>3. Entries(Avail) = Entries(Avail') \cup {d} /\ d \notin Entries(Avail') /\ Injective(Avail')
    BY <1>1, <1>2, EntryTail DEF IInv, Apart
  <1>4. Entries(Used') = Entries(Used)
    BY <1>1
  <1>5. Away' = Away
    BY <1>1, <1>3, <1>4 DEF Away
  <1>6. Apart'
    BY <1>1, <1>3, <1>4 DEF IInv, Apart
  <1>7. UNCHANGED <<descVars, driver>>
    BY DEF virtqueue_get_available_buffer
  <1>8. d \in Away /\ addr[d] \in Buf
    BY <1>3 DEF Away, IInv, Loaded
  <1>9. TypeOK'
    BY <1>1, <1>8, IncIdx
    DEF IInv, TypeOK, virtqueue_get_available_buffer, Taken, descVars, ringVars
  <1>10. (device = {addr[f] : f \in held})'
    BY <1>1, <1>7 DEF IInv, Owners, descVars
  <1> QED
    BY <1>5, <1>6, <1>7, <1>9, <1>10, Moved DEF IInv, Owners

LEMMA AddConsumedStep ==
  ASSUME IInv, NEW d \in Desc, AddConsumed(d)
  PROVE  IInv'
  <1>1. /\ d \in held /\ held' = held \ {d}
        /\ usedRing' \in [Desc -> Desc]
        /\ Used' = Used /\ Avail' = Avail /\ Offered' = Offered
        /\ Returned = {} /\ Returned' = {d}
    BY AddConsumedPlaces
  <1>2. Entries(Avail') = Entries(Avail) /\ Entries(Used') = Entries(Used)
    BY <1>1
  <1>3. Away' = Away
    BY <1>1, <1>2 DEF Away
  <1>4. Apart'
    BY <1>1, <1>2 DEF IInv, Apart
  <1>5. UNCHANGED <<descVars, driver>>
    BY DEF AddConsumed
  <1>6. TypeOK'
    BY <1>1 DEF IInv, TypeOK, AddConsumed, descVars, posVars
  <1>7. (device = {addr[f] : f \in held})'
    <2>1. device' = device \ {addr[d]} /\ UNCHANGED addr
      BY DEF AddConsumed, descVars
    <2>2. \A f \in held : f \in Away
      BY DEF Away
    <2>3. \A f \in held : addr[f] = addr[d] => f = d
      BY <1>1, <2>2 DEF IInv, Owners
    <2> QED
      BY <1>1, <2>1, <2>3 DEF IInv, Owners
  <1> QED
    BY <1>3, <1>4, <1>5, <1>6, <1>7, Moved DEF IInv, Owners

LEMMA PublishUsedStep ==
  ASSUME IInv, PublishUsed
  PROVE  IInv'
  <1>1. PICK d \in Desc :
           /\ Returned = {d} /\ Returned' = {}
           /\ Used' = Append(Used, d)
           /\ Avail' = Avail /\ held' = held /\ Offered' = Offered
           /\ Len(Used) < vq_nentries /\ d \notin Entries(Used)
    BY PublishUsedPlaces
  <1>2. Used \in Seq(Desc)
    BY RingsTyped DEF IInv
  <1>3. Entries(Used') = Entries(Used) \cup {d} /\ Injective(Used')
    BY <1>1, <1>2, EntryAppend DEF IInv, Apart
  <1>4. Entries(Avail') = Entries(Avail)
    BY <1>1
  <1>5. Away' = Away
    BY <1>1, <1>3, <1>4 DEF Away
  <1>6. Apart'
    BY <1>1, <1>3, <1>4 DEF IInv, Apart
  <1>7. UNCHANGED <<descVars, driver, device>>
    BY DEF PublishUsed
  <1>8. TypeOK'
    BY IncIdx DEF IInv, TypeOK, PublishUsed, descVars, posVars
  <1>9. (device = {addr[f] : f \in held})'
    BY <1>1, <1>7 DEF IInv, Owners, descVars
  <1> QED
    BY <1>5, <1>6, <1>7, <1>8, <1>9, Moved DEF IInv, Owners

\* The head leaves the chain, the rest of which is a chain.
LEMMA AddStep ==
  ASSUME IInv, NEW b \in Buf, AddBuffer(b)
  PROVE  IInv'
  <1> DEFINE h == vq_desc_head_idx
             n == vq_free_cnt
  <1>1. /\ h \in Desc /\ h \notin Away
        /\ availRing' \in [Desc -> Desc]
        /\ Avail' = Avail /\ Used' = Used /\ held' = held /\ Returned' = Returned
        /\ Offered = {} /\ Offered' = {h}
    BY AddPlaces
  <1>2. Entries(Avail') = Entries(Avail) /\ Entries(Used') = Entries(Used)
    BY <1>1
  <1>3. Away' = Away \cup {h}
    BY <1>1, <1>2 DEF Away
  <1>4. Apart'
    BY <1>1, <1>2 DEF IInv, Apart, Away
  <1>5. n \in 1 .. vq_nentries /\ n - 1 \in 0 .. vq_nentries
    BY VringAssumption DEF IInv, TypeOK, AddBuffer
  <1>6. /\ addr' = [addr EXCEPT ![h] = b] /\ cookie' = [cookie EXCEPT ![h] = b]
        /\ ndescs' = [ndescs EXCEPT ![h] = 1]
        /\ vq_desc_head_idx' = next[h] /\ vq_free_cnt' = n - 1 /\ next' = next
        /\ driver' = driver \ {b} /\ b \in driver
    BY DEF AddBuffer
  <1>7. /\ addr \in [Desc -> Buf \cup {NoBuf}] /\ cookie \in [Desc -> Buf \cup {NoBuf}]
        /\ ndescs \in [Desc -> {0, 1}] /\ next \in [Desc -> 0 .. ChainEnd]
    BY DEF IInv, TypeOK
  <1>8. TypeOK'
    <2>1. (/\ addr \in [Desc -> Buf \cup {NoBuf}] /\ cookie \in [Desc -> Buf \cup {NoBuf}]
           /\ next \in [Desc -> 0 .. ChainEnd] /\ ndescs \in [Desc -> {0, 1}]
           /\ vq_desc_head_idx \in 0 .. ChainEnd /\ vq_free_cnt \in 0 .. vq_nentries)'
      BY <1>1, <1>5, <1>6, <1>7
    <2> QED
      BY <1>1, <1>6, <2>1 DEF IInv, TypeOK, AddBuffer, posVars
  <1>9. Chained'
    <2>1. PICK e \in [1 .. n + 1 -> 0 .. ChainEnd] : IsChain(e)
      BY DEF IInv, Chained
    <2>2. \A i \in 1 .. n : i + 1 \in 1 .. n + 1
      BY <1>5
    <2>3. PICK f \in [1 .. n -> 0 .. ChainEnd] : \A i \in 1 .. n : f[i] = e[i + 1]
      <3>1. [i \in 1 .. n |-> e[i + 1]] \in [1 .. n -> 0 .. ChainEnd]
        BY <2>2
      <3> QED
        BY <3>1
    <2>4. 1 \in 1 .. n /\ n \in 1 .. n /\ 1 + 1 = 2
      BY <1>5
    <2>5. e[1] = h /\ next[e[1]] = e[2] /\ e[n + 1] = ChainEnd
      BY <2>1, <2>4 DEF IsChain
    <2>6. \A i \in 1 .. n - 1 : i \in 1 .. n /\ i + 1 \in 1 .. n /\ i + 1 # 1
      BY <1>5
    <2>7. f[1] = next[h] /\ f[n] = ChainEnd
      BY <2>3, <2>4, <2>5
    <2>8. \A i \in 1 .. n - 1 : f[i] \in Desc /\ f[i] \notin Away \cup {h} /\ next[f[i]] = f[i + 1]
      <3> SUFFICES ASSUME NEW i \in 1 .. n - 1
                   PROVE  f[i] \in Desc /\ f[i] \notin Away \cup {h} /\ next[f[i]] = f[i + 1]
        OBVIOUS
      <3>1. f[i] = e[i + 1] /\ f[i + 1] = e[(i + 1) + 1]
        BY <2>3, <2>6
      <3>2. e[i + 1] \in Desc /\ e[i + 1] \notin Away /\ next[e[i + 1]] = e[(i + 1) + 1]
        BY <2>1, <2>6 DEF IsChain
      <3>3. e[i + 1] # e[1]
        BY <2>1, <2>4, <2>6 DEF IsChain
      <3> QED
        BY <2>5, <3>1, <3>2, <3>3
    <2>9. \A i, j \in 1 .. n - 1 : f[i] = f[j] => i = j
      <3> SUFFICES ASSUME NEW i \in 1 .. n - 1, NEW j \in 1 .. n - 1, f[i] = f[j]
                   PROVE  i = j
        OBVIOUS
      <3>1. e[i + 1] = e[j + 1]
        BY <2>3, <2>6
      <3>2. i + 1 = j + 1
        BY <2>1, <2>6, <3>1 DEF IsChain
      <3> QED
        BY <1>5, <3>2
    <2>10. \A d \in Desc : d \notin Away \cup {h} => \E i \in 1 .. n - 1 : f[i] = d
      <3> SUFFICES ASSUME NEW d \in Desc, d \notin Away \cup {h} PROVE \E i \in 1 .. n - 1 : f[i] = d
        OBVIOUS
      <3>1. PICK i \in 1 .. n : e[i] = d
        BY <2>1 DEF IsChain
      <3>2. i # 1
        BY <2>5, <3>1
      <3>3. i - 1 \in 1 .. n - 1 /\ i - 1 \in 1 .. n /\ (i - 1) + 1 = i
        BY <1>5, <3>2
      <3> QED
        BY <2>3, <3>1, <3>3
    <2>11. (n - 1) + 1 = n
      BY <1>5
    <2>12. IsChain(f)'
      BY <1>3, <1>6, <2>3, <2>7, <2>8, <2>9, <2>10, <2>11 DEF IsChain
    <2> QED
      BY <1>6, <2>3, <2>11, <2>12 DEF Chained
  <1>10. Cleared'
    BY <1>3, <1>6, <1>7 DEF IInv, Cleared
  <1>11. Loaded'
    <2> SUFFICES ASSUME NEW d \in Away' PROVE addr'[d] \in Buf /\ cookie'[d] = addr'[d] /\ ndescs'[d] = 1
      BY DEF Loaded
    <2>1. CASE d = h
      BY <1>1, <1>6, <1>7, <2>1
    <2>2. CASE d # h
      <3>1. d \in Away
        BY <1>3, <2>2
      <3>2. addr'[d] = addr[d] /\ cookie'[d] = cookie[d] /\ ndescs'[d] = ndescs[d]
        BY <1>6, <1>7, <2>2
      <3> QED
        BY <3>1, <3>2 DEF IInv, Loaded
    <2> QED
      BY <2>1, <2>2
  <1>12. addr'[h] = b /\ \A d \in Away : addr'[d] = addr[d] /\ addr[d] # b
    <2>1. \A d \in Away : addr[d] \notin driver
      BY DEF IInv, Owners
    <2> QED
      BY <1>1, <1>6, <1>7, <2>1
  <1>13. Owners'
    <2>1. \A d, f \in Away' : addr'[d] = addr'[f] => d = f
      BY <1>3, <1>12 DEF IInv, Owners
    <2>2. {addr'[d] : d \in Away'} = {addr[d] : d \in Away} \cup {b}
      BY <1>3, <1>12
    <2>3. driver' = Buf \ {addr'[d] : d \in Away'}
      BY <1>6, <2>2 DEF IInv, Owners
    <2>4. \A d \in held : d \in Away
      BY DEF Away
    <2>5. device' = {addr'[d] : d \in held'}
      BY <1>1, <1>12, <2>4 DEF IInv, Owners, AddBuffer
    <2> QED
      BY <2>1, <2>3, <2>5 DEF Owners
  <1> QED
    BY <1>4, <1>8, <1>9, <1>10, <1>11, <1>13 DEF IInv

\* The descriptor goes in front of the chain.
LEMMA GetBufferStep ==
  ASSUME IInv, virtqueue_get_buffer
  PROVE  IInv'
  <1> DEFINE h == vq_desc_head_idx
             n == vq_free_cnt
  <1>1. PICK d \in Desc :
           /\ Used # <<>> /\ d = Head(Used) /\ Used' = Tail(Used)
           /\ FreeChain(d) /\ cookie' = [cookie EXCEPT ![d] = NoBuf]
           /\ driver' = driver \cup {cookie[d]} /\ d \in Away
           /\ Avail' = Avail /\ held' = held /\ Offered' = Offered /\ Returned' = Returned
    BY GetBufferPlaces
  <1>2. Used \in Seq(Desc)
    BY RingsTyped DEF IInv
  <1>3. Entries(Used) = Entries(Used') \cup {d} /\ d \notin Entries(Used') /\ Injective(Used')
    BY <1>1, <1>2, EntryTail DEF IInv, Apart
  <1>4. Entries(Avail') = Entries(Avail)
    BY <1>1
  <1>5. Away = Away' \cup {d} /\ d \notin Away'
    <2>1. Away = Away' \cup {d}
      BY <1>1, <1>3, <1>4 DEF Away
    <2>2. d \in Entries(Used)
      BY <1>3
    <2>3. d \notin Entries(Avail) /\ d \notin Offered /\ d \notin held /\ d \notin Returned
      BY <2>2 DEF IInv, Apart
    <2>4. d \notin Away'
      BY <1>1, <1>3, <1>4, <2>3 DEF Away
    <2> QED
      BY <2>1, <2>4
  <1>6. Apart'
    BY <1>1, <1>3, <1>4 DEF IInv, Apart
  <1>7. addr[d] \in Buf /\ cookie[d] = addr[d] /\ ndescs[d] = 1
    BY <1>1 DEF IInv, Loaded
  <1>8. /\ addr \in [Desc -> Buf \cup {NoBuf}] /\ cookie \in [Desc -> Buf \cup {NoBuf}]
        /\ ndescs \in [Desc -> {0, 1}] /\ next \in [Desc -> 0 .. ChainEnd]
        /\ h \in 0 .. ChainEnd /\ n \in 0 .. vq_nentries /\ n \in Nat
    BY DEF IInv, TypeOK
  <1>9. /\ UNCHANGED addr /\ cookie' = [cookie EXCEPT ![d] = NoBuf]
        /\ ndescs' = [ndescs EXCEPT ![d] = 0] /\ next' = [next EXCEPT ![d] = h]
        /\ vq_desc_head_idx' = d /\ vq_free_cnt' = n + 1
        /\ driver' = driver \cup {addr[d]} /\ UNCHANGED <<device, held>>
    BY <1>1, <1>7, <1>8 DEF virtqueue_get_buffer, FreeChain
  <1>10. PICK e \in [1 .. n + 1 -> 0 .. ChainEnd] : IsChain(e)
    BY DEF IInv, Chained
  <1>11. PICK f \in [1 .. n + 2 -> 0 .. ChainEnd] :
           f[1] = d /\ \A i \in 1 .. n + 1 : f[i + 1] = e[i]
    <2> DEFINE g == [i \in 1 .. n + 2 |-> IF i = 1 THEN d ELSE e[i - 1]]
    <2>1. \A i \in 1 .. n + 2 : i # 1 => i - 1 \in 1 .. n + 1
      BY <1>8
    <2>2. d \in 0 .. ChainEnd
      BY VringAssumption DEF Desc, ChainEnd
    <2>3. g \in [1 .. n + 2 -> 0 .. ChainEnd]
      BY <2>1, <2>2
    <2>4. 1 \in 1 .. n + 2 /\ \A i \in 1 .. n + 1 : i + 1 \in 1 .. n + 2 /\ i + 1 # 1 /\ (i + 1) - 1 = i
      BY <1>8
    <2>5. g[1] = d /\ \A i \in 1 .. n + 1 : g[i + 1] = e[i]
      BY <2>4
    <2> HIDE DEF g
    <2> QED
      BY <2>3, <2>5
  <1>12. \A i \in 1 .. n + 1 : i = 1 \/ (i - 1 \in 1 .. n /\ i - 1 \in 1 .. n + 1 /\ (i - 1) + 1 = i)
    BY <1>8
  <1>13. \A i \in 1 .. n : i \in 1 .. n + 1 /\ i + 1 \in 1 .. n + 1
    BY <1>8
  <1>14. 1 \in 1 .. n + 1 /\ n + 1 \in 1 .. n + 1 /\ (n + 1) + 1 = n + 2 /\ 1 + 1 = 2
    BY <1>8
  <1>15. \A i \in 1 .. n + 1 : f[i] \in Desc
    BY <1>1, <1>10, <1>11, <1>12 DEF IsChain
  <1>16. \A i, j \in 1 .. n + 1 : f[i] = f[j] => i = j
    <2>1. \A i \in 1 .. n + 1 : i # 1 => f[i] # d
      <3> SUFFICES ASSUME NEW i \in 1 .. n + 1, i # 1 PROVE f[i] # d
        OBVIOUS
      <3>1. i - 1 \in 1 .. n /\ f[i] = e[i - 1]
        BY <1>11, <1>12
      <3>2. e[i - 1] \notin Away
        BY <1>10, <3>1 DEF IsChain
      <3> QED
        BY <1>1, <3>1, <3>2
    <2> SUFFICES ASSUME NEW i \in 1 .. n + 1, NEW j \in 1 .. n + 1, f[i] = f[j] PROVE i = j
      OBVIOUS
    <2>2. CASE i = 1 \/ j = 1
      BY <1>11, <2>1, <2>2
    <2>3. CASE i # 1 /\ j # 1
      <3>1. i - 1 \in 1 .. n /\ j - 1 \in 1 .. n /\ e[i - 1] = e[j - 1]
        BY <1>11, <1>12, <2>3
      <3>2. i - 1 = j - 1
        BY <1>10, <3>1 DEF IsChain
      <3> QED
        BY <1>8, <3>2
    <2> QED
      BY <2>2, <2>3
  <1>17. n + 1 \in 0 .. vq_nentries
    <2> DEFINE s == [i \in 1 .. n + 1 |-> f[i]]
    <2>1. s \in Seq(Desc) /\ Len(s) = n + 1
      BY <1>8, <1>15
    <2>2. Injective(s)
      BY <1>16 DEF Injective
    <2> HIDE DEF s
    <2>3. Len(s) =< vq_nentries
      BY <2>1, <2>2, EntryBound
    <2> QED
      BY <1>8, <2>1, <2>3, VringAssumption
  <1>18. TypeOK'
    <2>1. d \in 0 .. ChainEnd
      BY VringAssumption DEF Desc, ChainEnd
    <2>2. (/\ addr \in [Desc -> Buf \cup {NoBuf}] /\ cookie \in [Desc -> Buf \cup {NoBuf}]
           /\ next \in [Desc -> 0 .. ChainEnd] /\ ndescs \in [Desc -> {0, 1}]
           /\ vq_desc_head_idx \in 0 .. ChainEnd /\ vq_free_cnt \in 0 .. vq_nentries)'
      BY <1>8, <1>9, <1>17, <2>1
    <2> QED
      BY <1>7, <1>9, <2>2, IncIdx DEF IInv, TypeOK, virtqueue_get_buffer, ringVars
  <1>19. Chained'
    <2>1. f[1] = d /\ f[n + 2] = ChainEnd
      BY <1>10, <1>11, <1>14 DEF IsChain
    <2>2. \A i \in 1 .. n + 1 : f[i] \in Desc /\ f[i] \notin Away' /\ next'[f[i]] = f[i + 1]
      <3> SUFFICES ASSUME NEW i \in 1 .. n + 1
                   PROVE  f[i] \notin Away' /\ next'[f[i]] = f[i + 1]
        BY <1>15
      <3>1. CASE i = 1
        <4>1. f[i] = d /\ f[i + 1] = h
          BY <1>10, <1>11, <1>14, <3>1 DEF IsChain
        <4> QED
          BY <1>5, <1>8, <1>9, <4>1
      <3>2. CASE i # 1
        <4>1. i - 1 \in 1 .. n /\ f[i] = e[i - 1] /\ (i - 1) + 1 = i
          BY <1>11, <1>12, <3>2
        <4>2. e[i - 1] \notin Away /\ next[e[i - 1]] = e[i] /\ e[i - 1] \in Desc
          BY <1>10, <4>1 DEF IsChain
        <4>3. f[i] # d
          BY <1>1, <4>1, <4>2
        <4>4. next'[f[i]] = next[f[i]]
          BY <1>8, <1>9, <4>1, <4>2, <4>3
        <4> QED
          BY <1>5, <1>11, <4>1, <4>2, <4>4
      <3> QED
        BY <3>1, <3>2
    <2>3. \A c \in Desc : c \notin Away' => \E i \in 1 .. n + 1 : f[i] = c
      <3> SUFFICES ASSUME NEW c \in Desc, c \notin Away' PROVE \E i \in 1 .. n + 1 : f[i] = c
        OBVIOUS
      <3>1. CASE c = d
        BY <1>11, <1>14, <3>1
      <3>2. CASE c # d
        <4>1. PICK i \in 1 .. n : e[i] = c
          BY <1>5, <1>10, <3>2 DEF IsChain
        <4> QED
          BY <1>11, <1>13, <4>1
      <3> QED
        BY <3>1, <3>2
    <2>4. IsChain(f)'
      BY <1>9, <1>14, <1>16, <2>1, <2>2, <2>3 DEF IsChain
    <2> QED
      BY <1>9, <1>14, <2>4 DEF Chained
  <1>20. Cleared'
    BY <1>5, <1>8, <1>9 DEF IInv, Cleared
  <1>21. \A c \in Away' : c \in Away /\ c # d /\ cookie'[c] = cookie[c] /\ ndescs'[c] = ndescs[c]
    <2>1. \A c \in Away' : c \in Away /\ c # d
      BY <1>5
    <2> QED
      BY <1>8, <1>9, <2>1
  <1>22. Loaded'
    BY <1>9, <1>21 DEF IInv, Loaded
  <1>23. Owners'
    <2>1. \A c, g \in Away' : addr'[c] = addr'[g] => c = g
      BY <1>9, <1>21 DEF IInv, Owners
    <2>2. \A c \in Away' : addr[c] # addr[d]
      BY <1>1, <1>21 DEF IInv, Owners
    <2>3. driver' = Buf \ {addr'[c] : c \in Away'}
      BY <1>5, <1>7, <1>9, <2>2 DEF IInv, Owners
    <2>4. device' = {addr'[c] : c \in held'}
      BY <1>9 DEF IInv, Owners
    <2> QED
      BY <2>1, <2>3, <2>4 DEF Owners
  <1> QED
    BY <1>6, <1>18, <1>19, <1>20, <1>22, <1>23 DEF IInv

LEMMA InitInv == Init => IInv
  <1> SUFFICES ASSUME Init PROVE IInv
    OBVIOUS
  <1>1. vq_nentries \in Nat \ {0} /\ IdxMod \in Nat \ {0} /\ 0 \in Desc /\ 0 \in Idx /\ 0 \in 0 .. ChainEnd
    BY VringAssumption DEF Desc, Idx, ChainEnd
  <1>2. \A d \in Desc : d \in Int /\ d + 1 \in 0 .. ChainEnd
    BY <1>1 DEF Desc, ChainEnd
  <1>3. TypeOK
    BY <1>1, <1>2 DEF Init, TypeOK
  <1>4. Avail = <<>> /\ Used = <<>>
    BY <1>3, RingsTyped DEF Init
  <1>5. Offered = {} /\ Returned = {} /\ held = {}
    BY DEF Init, Offered, Returned, Pending
  <1>6. Entries(<<>>) = {} /\ Injective(<<>>)
    BY DEF Entries, Injective
  <1>7. Away = {} /\ Apart
    BY <1>4, <1>5, <1>6 DEF Away, Apart
  <1>8. Chained
    <2>1. PICK e \in [1 .. vq_nentries + 1 -> 0 .. ChainEnd] : \A i \in 1 .. vq_nentries + 1 : e[i] = i - 1
      <3>1. \A i \in 1 .. vq_nentries + 1 : i - 1 \in 0 .. ChainEnd
        BY <1>1 DEF ChainEnd
      <3>2. [i \in 1 .. vq_nentries + 1 |-> i - 1] \in [1 .. vq_nentries + 1 -> 0 .. ChainEnd]
        BY <3>1
      <3> QED
        BY <3>2
    <2>2. e[1] = 0 /\ e[vq_nentries + 1] = ChainEnd
      BY <1>1, <2>1 DEF ChainEnd
    <2>3. \A i \in 1 .. vq_nentries : e[i] = i - 1 /\ e[i + 1] = (i - 1) + 1 /\ i - 1 \in Desc
      BY <1>1, <2>1 DEF Desc
    <2>4. \A i, j \in 1 .. vq_nentries : e[i] = e[j] => i = j
      BY <1>1, <2>3
    <2>5. \A d \in Desc : d + 1 \in 1 .. vq_nentries /\ (d + 1) - 1 = d
      BY <1>1 DEF Desc
    <2>6. \A d \in Desc : \E i \in 1 .. vq_nentries : e[i] = d
      BY <2>3, <2>5
    <2>7. next = [d \in Desc |-> d + 1] /\ vq_free_cnt = vq_nentries /\ vq_desc_head_idx = 0
      BY DEF Init
    <2>8. IsChain(e)
      BY <1>7, <2>1, <2>2, <2>3, <2>4, <2>6, <2>7 DEF IsChain
    <2> QED
      BY <2>7, <2>8 DEF Chained
  <1>9. Cleared /\ Loaded /\ Owners
    BY <1>5, <1>7 DEF Init, Cleared, Loaded, Owners
  <1> QED
    BY <1>3, <1>7, <1>8, <1>9 DEF IInv

\* The invariant that all the results below rest on.
THEOREM Invariant == Spec => []IInv
  <1>1. Init => IInv
    BY InitInv
  <1>2. ASSUME IInv, [Next]_vars PROVE IInv'
    <2>1. CASE \E b \in Buf : AddBuffer(b)
      BY <1>2, <2>1, AddStep
    <2>2. CASE PublishAvail
      BY <1>2, <2>2, PublishAvailStep
    <2>3. CASE virtqueue_get_buffer
      BY <1>2, <2>3, GetBufferStep
    <2>4. CASE virtqueue_get_available_buffer
      BY <1>2, <2>4, GetAvailableStep
    <2>5. CASE \E d \in Desc : AddConsumed(d)
      BY <1>2, <2>5, AddConsumedStep
    <2>6. CASE PublishUsed
      BY <1>2, <2>6, PublishUsedStep
    <2>7. CASE UNCHANGED vars
      <3>1. UNCHANGED <<descVars, ringVars, posVars, driver, device, held, publishing>>
        BY <2>7 DEF vars
      <3>2. UNCHANGED <<Avail, Used, Offered, Returned>>
        BY <3>1 DEF Avail, Used, Offered, Returned, Pending, ringVars, posVars
      <3>3. Away' = Away
        BY <3>1, <3>2 DEF Away
      <3>4. Apart'
        BY <1>2, <3>1, <3>2 DEF IInv, Apart
      <3>5. TypeOK'
        BY <1>2, <3>1 DEF IInv, TypeOK, descVars, ringVars, posVars
      <3>6. (device = {addr[f] : f \in held})'
        BY <1>2, <3>1 DEF IInv, Owners, descVars
      <3>7. Chained' /\ Cleared' /\ Loaded' /\ Owners'
        BY <1>2, <3>1, <3>3, <3>6, Moved DEF Owners
      <3> QED
        BY <3>4, <3>5, <3>7 DEF IInv
    <2> QED
      BY <1>2, <2>1, <2>2, <2>3, <2>4, <2>5, <2>6, <2>7 DEF Next, Driver, Device
  <1> QED
    BY <1>1, <1>2, PTL DEF Spec

------------------------------------------------------------------------------
(* The properties that the runs check.                                      *)

\* A set of natural numbers that is not empty has a least element.
LEMMA Least ==
  ASSUME NEW S, S \subseteq Nat, S # {}
  PROVE  \E a \in S : \A b \in S : a =< b
  <1> DEFINE R == {p \in Nat \X Nat : p[1] < p[2]}
  <1>1. IsWellFoundedOn(R, Nat)
    BY NatLessThanWellFounded DEF OpToRel
  <1> HIDE DEF R
  <1>2. PICK x \in S : \A y \in S : ~(<<y, x>> \in R)
    BY <1>1, WFMin
  <1>3. ASSUME NEW y \in S PROVE x =< y
    <2>1. x \in Nat /\ y \in Nat
      OBVIOUS
    <2>2. y < x => <<y, x>> \in R
      BY <2>1 DEF R
    <2> QED
      BY <1>2, <2>1, <2>2
  <1> QED
    BY <1>3

\* The recursive definition of Walk has a solution, hence it satisfies its equation.
LEMMA WalkEquation ==
  ASSUME TypeOK, Chained
  PROVE  /\ Walk[1] = vq_desc_head_idx
         /\ \A i \in 2 .. vq_nentries + 1 : Walk[i] = IF Walk[i - 1] \in Desc THEN next[Walk[i - 1]] ELSE ChainEnd
  <1> DEFINE N == 1 .. vq_nentries + 1
             step(at) == [i \in N |-> IF i = 1 THEN vq_desc_head_idx
                                      ELSE IF at[i - 1] \in Desc THEN next[at[i - 1]] ELSE ChainEnd]
  <1>1. PICK e \in [1 .. vq_free_cnt + 1 -> 0 .. ChainEnd] : IsChain(e)
    BY DEF Chained
  <1>2. vq_free_cnt \in 0 .. vq_nentries /\ vq_nentries \in Nat \ {0}
    BY VringAssumption DEF TypeOK
  <1>3. ChainEnd \notin Desc
    BY VringAssumption DEF ChainEnd, Desc
  <1> DEFINE g == [i \in N |-> IF i \in 1 .. vq_free_cnt + 1 THEN e[i] ELSE ChainEnd]
  <1>4. ASSUME NEW i \in N
        PROVE  g[i] = IF i = 1 THEN vq_desc_head_idx
                      ELSE IF g[i - 1] \in Desc THEN next[g[i - 1]] ELSE ChainEnd
    <2>1. CASE i = 1
      BY <1>1, <1>2, <2>1 DEF IsChain
    <2>2. CASE i # 1 /\ i - 1 \in 1 .. vq_free_cnt
      <3>1. i - 1 \in N /\ i - 1 \in 1 .. vq_free_cnt + 1 /\ i \in 1 .. vq_free_cnt + 1 /\ (i - 1) + 1 = i
        BY <1>2, <2>2
      <3>2. g[i - 1] = e[i - 1] /\ g[i] = e[i]
        BY <3>1
      <3>3. e[i - 1] \in Desc /\ next[e[i - 1]] = e[i]
        BY <1>1, <2>2, <3>1 DEF IsChain
      <3> QED
        BY <2>2, <3>2, <3>3
    <2>3. CASE i # 1 /\ i - 1 = vq_free_cnt + 1
      <3>1. i - 1 \in N /\ i - 1 \in 1 .. vq_free_cnt + 1 /\ i \notin 1 .. vq_free_cnt + 1
        BY <1>2, <2>3
      <3>2. g[i - 1] = ChainEnd /\ g[i] = ChainEnd
        BY <1>1, <2>3, <3>1 DEF IsChain
      <3> QED
        BY <1>3, <2>3, <3>2
    <2>4. CASE i # 1 /\ i - 1 > vq_free_cnt + 1
      <3>1. i - 1 \in N /\ i - 1 \notin 1 .. vq_free_cnt + 1 /\ i \notin 1 .. vq_free_cnt + 1
        BY <1>2, <2>4
      <3>2. g[i - 1] = ChainEnd /\ g[i] = ChainEnd
        BY <3>1
      <3> QED
        BY <1>3, <2>4, <3>2
    <2>5. i = 1 \/ i - 1 \in 1 .. vq_free_cnt \/ i - 1 = vq_free_cnt + 1 \/ i - 1 > vq_free_cnt + 1
      BY <1>2
    <2> QED
      BY <2>1, <2>2, <2>3, <2>4, <2>5
  <1>5. g = step(g)
    <2>1. g = [i \in N |-> g[i]]
      OBVIOUS
    <2> HIDE DEF g
    <2> QED
      BY <1>4, <2>1
  <1>6. Walk = CHOOSE at : at = step(at)
    BY DEF Walk
  <1> HIDE DEF step, g
  <1>7. Walk = step(Walk)
    BY <1>5, <1>6
  <1>8. \A i \in N : Walk[i] = IF i = 1 THEN vq_desc_head_idx
                               ELSE IF Walk[i - 1] \in Desc THEN next[Walk[i - 1]] ELSE ChainEnd
    BY <1>7 DEF step
  <1>9. 1 \in N /\ \A i \in 2 .. vq_nentries + 1 : i \in N /\ i # 1
    BY <1>2
  <1> QED
    BY <1>8, <1>9

\* Walk follows the chain that the invariant promises.
LEMMA WalkIs ==
  ASSUME IInv
  PROVE  \E e \in [1 .. vq_free_cnt + 1 -> 0 .. ChainEnd] :
           IsChain(e) /\ \A i \in 1 .. vq_free_cnt + 1 : Walk[i] = e[i]
  <1>1. PICK e \in [1 .. vq_free_cnt + 1 -> 0 .. ChainEnd] : IsChain(e)
    BY DEF IInv, Chained
  <1>2. vq_free_cnt \in 0 .. vq_nentries /\ vq_nentries \in Nat \ {0}
    BY VringAssumption DEF IInv, TypeOK
  <1>3. /\ Walk[1] = vq_desc_head_idx
        /\ \A i \in 2 .. vq_nentries + 1 : Walk[i] = IF Walk[i - 1] \in Desc THEN next[Walk[i - 1]] ELSE ChainEnd
    BY WalkEquation DEF IInv
  <1> DEFINE W == {i \in 1 .. vq_free_cnt + 1 : Walk[i] # e[i]}
  <1>4. ASSUME W # {} PROVE FALSE
    <2>1. W \subseteq Nat
      BY <1>2
    <2>2. PICK a \in W : \A b \in W : a =< b
      BY <1>4, <2>1, Least
    <2>3. a # 1
      BY <1>1, <1>3, <2>2 DEF IsChain
    <2>4. a - 1 \in 1 .. vq_free_cnt /\ a - 1 \in 1 .. vq_free_cnt + 1 /\ (a - 1) + 1 = a /\ a \in 2 .. vq_nentries + 1
      BY <1>2, <2>2, <2>3
    <2>5. a - 1 \notin W
      BY <2>1, <2>2, <2>4
    <2>6. Walk[a - 1] = e[a - 1]
      BY <2>4, <2>5
    <2>7. e[a - 1] \in Desc /\ next[e[a - 1]] = e[a]
      BY <1>1, <2>4 DEF IsChain
    <2>8. Walk[a] = e[a]
      BY <1>3, <2>4, <2>6, <2>7
    <2> QED
      BY <2>2, <2>8
  <1> QED
    BY <1>1, <1>4

LEMMA ChainEntries ==
  ASSUME IInv
  PROVE  Entries(Chain) = Desc \ Away /\ Walk[vq_free_cnt + 1] = ChainEnd
  <1>1. PICK e \in [1 .. vq_free_cnt + 1 -> 0 .. ChainEnd] :
          IsChain(e) /\ \A i \in 1 .. vq_free_cnt + 1 : Walk[i] = e[i]
    BY WalkIs
  <1>2. vq_free_cnt \in Nat
    BY DEF IInv, TypeOK
  <1>3. vq_free_cnt + 1 \in 1 .. vq_free_cnt + 1 /\ \A i \in 1 .. vq_free_cnt : i \in 1 .. vq_free_cnt + 1
    BY <1>2
  <1>4. Entries(Chain) = {e[i] : i \in 1 .. vq_free_cnt}
    <2>1. DOMAIN Chain = 1 .. vq_free_cnt /\ \A i \in 1 .. vq_free_cnt : Chain[i] = e[i]
      BY <1>1, <1>3 DEF Chain
    <2> QED
      BY <2>1 DEF Entries
  <1>5. {e[i] : i \in 1 .. vq_free_cnt} = Desc \ Away
    BY <1>1 DEF IsChain
  <1>6. Walk[vq_free_cnt + 1] = ChainEnd
    BY <1>1, <1>3 DEF IsChain
  <1> QED
    BY <1>4, <1>5, <1>6

LEMMA AwayIsDesc ==
  ASSUME IInv
  PROVE  Away \subseteq Desc
  <1>1. Entries(Avail) \subseteq Desc /\ Entries(Used) \subseteq Desc
    BY RingsTyped DEF IInv, Entries
  <1>2. Offered \subseteq Desc /\ Returned \subseteq Desc /\ held \subseteq Desc
    <2>1. availIdx \in Int /\ availIdx % IdxMod = availIdx /\ usedIdx \in Int /\ usedIdx % IdxMod = usedIdx
      BY VringAssumption DEF IInv, TypeOK, Idx
    <2>2. Slot(availIdx) \in Desc /\ Slot(usedIdx) \in Desc
      BY <2>1, SlotOf
    <2> QED
      BY <2>2 DEF IInv, TypeOK, Offered, Returned, Pending
  <1> QED
    BY <1>1, <1>2 DEF Away

\* TypeOK: among the rest, the number of free descriptors never leaves its range,
\* whatever the two sides do.
THEOREM TypeCorrect == Spec => []TypeOK
  <1>1. IInv => TypeOK
    BY DEF IInv
  <1> QED
    BY <1>1, Invariant, PTL

\* OnePlaceEach: no descriptor is lost or doubled on its way through the rings of
\* virtqueue.c, and no unread entry is overwritten when their indices wrap.
THEOREM OnePlace == Spec => []OnePlaceEach
  <1>1. ASSUME IInv PROVE OnePlaceEach
    <2> DEFINE parts == <<Entries(Chain), Entries(Avail), Pending("driver", availRing, availIdx),
                          held, Entries(Used), Pending("device", usedRing, usedIdx)>>
    <2>1. Entries(Chain) = Desc \ Away /\ Away \subseteq Desc
      BY <1>1, ChainEntries, AwayIsDesc
    <2>2. /\ DOMAIN parts = 1 .. 6
          /\ parts[1] = Desc \ Away /\ parts[2] = Entries(Avail) /\ parts[3] = Offered
          /\ parts[4] = held /\ parts[5] = Entries(Used) /\ parts[6] = Returned
      BY <2>1 DEF Offered, Returned
    <2> HIDE DEF parts
    <2>3. UNION {parts[i] : i \in DOMAIN parts} = Desc
      <3>1. ASSUME NEW d \in Desc PROVE \E i \in 1 .. 6 : d \in parts[i]
        <4>1. d \in parts[1] \/ d \in parts[2] \/ d \in parts[3] \/ d \in parts[4] \/ d \in parts[5] \/ d \in parts[6]
          BY <2>2 DEF Away
        <4> QED
          BY <4>1
      <3>2. ASSUME NEW i \in 1 .. 6 PROVE parts[i] \subseteq Desc
        <4>1. i = 1 \/ i = 2 \/ i = 3 \/ i = 4 \/ i = 5 \/ i = 6
          OBVIOUS
        <4> QED
          BY <2>1, <2>2, <4>1 DEF Away
      <3> QED
        BY <2>2, <3>1, <3>2
    <2>4. \A i, j \in DOMAIN parts : i # j => parts[i] \cap parts[j] = {}
      <3>1. \A i, j \in 1 .. 6 : i < j => parts[i] \cap parts[j] = {}
        <4> SUFFICES ASSUME NEW i \in 1 .. 6, NEW j \in 1 .. 6, i < j, NEW d, d \in parts[i], d \in parts[j]
                     PROVE  FALSE
          OBVIOUS
        <4>1. CASE i = 1
          <5>1. j = 2 \/ j = 3 \/ j = 4 \/ j = 5 \/ j = 6
            BY <4>1
          <5> QED
            BY <2>2, <4>1, <5>1 DEF Away
        <4>2. CASE i = 2
          <5>1. j = 3 \/ j = 4 \/ j = 5 \/ j = 6
            BY <4>2
          <5> QED
            BY <1>1, <2>2, <4>2, <5>1 DEF IInv, Apart
        <4>3. CASE i = 3
          <5>1. j = 4 \/ j = 5 \/ j = 6
            BY <4>3
          <5> QED
            BY <1>1, <2>2, <4>3, <5>1 DEF IInv, Apart
        <4>4. CASE i = 4
          <5>1. j = 5 \/ j = 6
            BY <4>4
          <5> QED
            BY <1>1, <2>2, <4>4, <5>1 DEF IInv, Apart
        <4>5. CASE i = 5
          <5>1. j = 6
            BY <4>5
          <5> QED
            BY <1>1, <2>2, <4>5, <5>1 DEF IInv, Apart
        <4> QED
          BY <4>1, <4>2, <4>3, <4>4, <4>5
      <3>2. \A i, j \in 1 .. 6 : i # j => i < j \/ j < i
        OBVIOUS
      <3> QED
        BY <2>2, <3>1, <3>2
    <2>5. Cardinality(Entries(Avail)) = Len(Avail) /\ Cardinality(Entries(Used)) = Len(Used)
      BY <1>1, RingsTyped, EntryCount DEF IInv, Apart
    <2> QED
      BY <2>3, <2>4, <2>5 DEF OnePlaceEach, parts
  <1> QED
    BY <1>1, Invariant, PTL

\* ChainTerminated: what VQ_RING_ASSERT_CHAIN_TERM asks when the ring is full holds
\* in every state: the free chain has exactly vq_free_cnt descriptors.
THEOREM ChainEnds == Spec => []ChainTerminated
  <1>1. IInv => ChainTerminated
    BY ChainEntries DEF ChainTerminated
  <1> QED
    BY <1>1, Invariant, PTL

\* FreeIsClean: a VQASSERT of virtqueue_add_buffer never fires: the descriptor it
\* takes has no cookie left from the buffer before.
THEOREM FreeClean == Spec => []FreeIsClean
  <1>1. IInv => FreeIsClean
    BY ChainEntries DEF IInv, Cleared, FreeIsClean
  <1> QED
    BY <1>1, Invariant, PTL

------------------------------------------------------------------------------
(* The virtqueue implements the exchange of buffers.  A buffer counts as    *)
(* handed over when the index is published, not when the slot is written.   *)

Loads(s, a) == [i \in DOMAIN s |-> a[s[i]]]

LEMMA LoadsSeq ==
  ASSUME NEW T, NEW a \in [Desc -> T], NEW s \in Seq(Desc)
  PROVE  /\ Loads(s, a) \in Seq(T) /\ Len(Loads(s, a)) = Len(s)
         /\ DOMAIN s = 1 .. Len(s) /\ Len(s) \in Nat
         /\ \A i \in 1 .. Len(s) : Loads(s, a)[i] = a[s[i]]
  <1>1. DOMAIN s = 1 .. Len(s) /\ Len(s) \in Nat /\ \A i \in 1 .. Len(s) : s[i] \in Desc
    OBVIOUS
  <1>2. \A i \in 1 .. Len(s) : a[s[i]] \in T
    BY <1>1
  <1> QED
    BY <1>1, <1>2 DEF Loads

LEMMA LoadsAppend ==
  ASSUME NEW T, NEW a \in [Desc -> T], NEW s \in Seq(Desc), NEW d \in Desc
  PROVE  Loads(Append(s, d), a) = Append(Loads(s, a), a[d])
  <1> DEFINE z == Append(s, d)
             u == Loads(z, a)
             v == Append(Loads(s, a), a[d])
             n == Len(s)
  <1>1. z \in Seq(Desc) /\ Len(z) = n + 1 /\ n \in Nat
    OBVIOUS
  <1>6. z[n + 1] = d /\ \A i \in 1 .. n : z[i] = s[i]
    BY AppendProperties
  <1> HIDE DEF z
  <1>2. u \in Seq(T) /\ Len(u) = n + 1 /\ \A i \in 1 .. n + 1 : u[i] = a[z[i]]
    <2>1. z \in Seq(Desc)
      BY <1>1
    <2>2. u \in Seq(T) /\ Len(u) = Len(z) /\ \A i \in 1 .. Len(z) : u[i] = a[z[i]]
      BY <2>1, LoadsSeq
    <2> HIDE DEF u, n
    <2> QED
      BY <1>1, <2>2
  <1>3. Loads(s, a) \in Seq(T) /\ Len(Loads(s, a)) = n /\ \A i \in 1 .. n : Loads(s, a)[i] = a[s[i]]
    BY LoadsSeq
  <1>4. a[d] \in T
    OBVIOUS
  <1>5. /\ v \in Seq(T) /\ Len(v) = n + 1 /\ v[n + 1] = a[d]
        /\ \A i \in 1 .. n : v[i] = Loads(s, a)[i]
    BY <1>3, <1>4, AppendProperties
  <1> HIDE DEF u, v, n
  <1>7. \A i \in 1 .. n + 1 : i = n + 1 \/ i \in 1 .. n
    BY <1>1
  <1>8. ASSUME NEW i \in 1 .. n + 1 PROVE u[i] = v[i]
    <2>1. CASE i = n + 1
      BY <1>2, <1>5, <1>6, <2>1
    <2>2. CASE i \in 1 .. n
      BY <1>2, <1>3, <1>5, <1>6, <2>2
    <2> QED
      BY <1>7, <2>1, <2>2
  <1>9. u = v
    BY <1>2, <1>5, <1>8, SeqEqual
  <1> QED
    BY <1>9 DEF u, v, z

LEMMA LoadsTail ==
  ASSUME NEW T, NEW a \in [Desc -> T], NEW s \in Seq(Desc), s # <<>>
  PROVE  /\ Loads(s, a) # <<>> /\ Head(Loads(s, a)) = a[Head(s)]
         /\ Loads(Tail(s), a) = Tail(Loads(s, a))
  <1> DEFINE t == Tail(s)
             u == Loads(s, a)
             v == Loads(t, a)
             n == Len(s)
  <1>1. n \in Nat \ {0} /\ Head(s) = s[1]
    OBVIOUS
  <1>2. t \in Seq(Desc) /\ Len(t) = n - 1 /\ \A i \in 1 .. n - 1 : t[i] = s[i + 1]
    BY HeadTailProperties
  <1>3. u \in Seq(T) /\ Len(u) = n /\ \A i \in 1 .. n : u[i] = a[s[i]]
    BY LoadsSeq
  <1> HIDE DEF t
  <1>4. v \in Seq(T) /\ Len(v) = n - 1 /\ \A i \in 1 .. n - 1 : v[i] = a[t[i]]
    <2>1. t \in Seq(Desc)
      BY <1>2
    <2>2. v \in Seq(T) /\ Len(v) = Len(t) /\ \A i \in 1 .. Len(t) : v[i] = a[t[i]]
      BY <2>1, LoadsSeq
    <2> HIDE DEF v, n
    <2> QED
      BY <1>2, <2>2
  <1> HIDE DEF u, v, n
  <1>5. u # <<>> /\ Head(u) = u[1]
    BY <1>1, <1>3
  <1>6. Tail(u) \in Seq(T) /\ Len(Tail(u)) = n - 1 /\ \A i \in 1 .. n - 1 : Tail(u)[i] = u[i + 1]
    BY <1>3, <1>5, HeadTailProperties
  <1>7. 1 \in 1 .. n /\ \A i \in 1 .. n - 1 : i + 1 \in 1 .. n
    BY <1>1
  <1>8. ASSUME NEW i \in 1 .. n - 1 PROVE v[i] = Tail(u)[i]
    <2>1. v[i] = a[s[i + 1]]
      BY <1>2, <1>4
    <2>2. Tail(u)[i] = a[s[i + 1]]
      BY <1>3, <1>6, <1>7
    <2> QED
      BY <2>1, <2>2
  <1>9. v = Tail(u)
    BY <1>4, <1>6, <1>8, SeqEqual
  <1> QED
    BY <1>1, <1>3, <1>5, <1>7, <1>9 DEF u, t, v

\* What the abstract variables are.
HeldByDriver == driver \cup {addr[d] : d \in Offered}
HeldByDevice == device \cup {addr[d] : d \in Returned}

\* The buffers away from the driver are fewer than the descriptors: at most one for
\* each descriptor other than the one that is being offered.
LEMMA CapacityKept ==
  ASSUME IInv, NEW x \in Desc, Offered = {x}
  PROVE  Cardinality(Buf \ HeldByDriver) < vq_nentries
  <1> DEFINE S == Buf \ HeldByDriver
             R == Desc \ {x}
  <1>1. \A b \in S : \E d \in Away : addr[d] = b
    BY DEF IInv, Owners, HeldByDriver
  <1>2. \A b \in S : \E d \in R : addr[d] = b
    BY <1>1, AwayIsDesc DEF HeldByDriver
  <1> DEFINE f == [b \in S |-> CHOOSE d \in R : addr[d] = b]
  <1>3. \A b \in S : f[b] \in R /\ addr[f[b]] = b
    BY <1>2
  <1>4. f \in [S -> R]
    BY <1>3
  <1>5. IsInjective(f)
    BY <1>3 DEF IsInjective
  <1>6. f \in Injection(S, R)
    BY <1>4, <1>5 DEF Injection
  <1>7. IsFiniteSet(R) /\ Cardinality(R) = vq_nentries - 1
    BY DescCount, FS_RemoveElement
  <1> HIDE DEF S, R, f
  <1>8. IsFiniteSet(S) /\ Cardinality(S) =< vq_nentries - 1
    BY <1>6, <1>7, FS_Injection
  <1>9. Cardinality(S) \in Nat
    BY <1>8, FS_CardinalityType
  <1> QED
    BY <1>8, <1>9, VringAssumption DEF S

LEMMA AddrTyped == IInv => addr \in [Desc -> Buf \cup {NoBuf}]
  BY DEF IInv, TypeOK

\* The instance has a copy of the operator of FiniteSets.
LEMMA SameCardinality == \A S : Exchange!Cardinality(S) = Cardinality(S)
  BY DEF Exchange!Cardinality, Cardinality

LEMMA OfferStep ==
  ASSUME IInv, PublishAvail
  PROVE  \E b \in Buf : Exchange!Offer(b)
  <1>1. PICK d \in Desc :
           /\ Offered = {d} /\ Offered' = {}
           /\ Avail' = Append(Avail, d)
           /\ Used' = Used /\ held' = held /\ Returned' = Returned
           /\ Len(Avail) < vq_nentries /\ d \notin Entries(Avail)
    BY PublishAvailPlaces
  <1>2. d \in Away /\ addr[d] \in Buf /\ addr[d] \notin driver
    BY <1>1 DEF Away, IInv, Loaded, Owners
  <1>3. UNCHANGED <<addr, driver, device>>
    BY DEF PublishAvail, descVars
  <1>4. HeldByDriver = driver \cup {addr[d]} /\ HeldByDriver' = driver /\ HeldByDevice' = HeldByDevice
    BY <1>1, <1>3 DEF HeldByDriver, HeldByDevice
  <1>5. addr[d] \in HeldByDriver /\ HeldByDriver' = HeldByDriver \ {addr[d]}
    BY <1>2, <1>4
  <1>6. Cardinality(Buf \ HeldByDriver) < vq_nentries
    BY <1>1, CapacityKept
  <1>7. Avail \in Seq(Desc)
    BY RingsTyped DEF IInv
  <1>8. Loads(Append(Avail, d), addr) = Append(Loads(Avail, addr), addr[d])
    BY <1>7, AddrTyped, LoadsAppend
  <1>9. BufsOf(Avail)' = Append(BufsOf(Avail), addr[d]) /\ BufsOf(Used)' = BufsOf(Used)
    BY <1>1, <1>3, <1>8 DEF BufsOf, Loads
  <1>10. PICK b \in Buf : b = addr[d]
    BY <1>2
  <1>11. /\ b \in HeldByDriver /\ HeldByDriver' = HeldByDriver \ {b}
         /\ BufsOf(Avail)' = Append(BufsOf(Avail), b)
    BY <1>5, <1>9, <1>10
  <1>12. Exchange!Cardinality(Buf \ HeldByDriver) < vq_nentries
    BY <1>6, SameCardinality
  <1>13. Exchange!Offer(b)
    BY <1>4, <1>9, <1>11, <1>12 DEF Exchange!Offer, HeldByDriver, HeldByDevice, Offered, Returned
  <1> QED
    BY <1>13

LEMMA TakeStep ==
  ASSUME IInv, virtqueue_get_available_buffer
  PROVE  Exchange!Take
  <1>1. PICK d \in Desc :
           /\ Avail # <<>> /\ d = Head(Avail) /\ Avail' = Tail(Avail)
           /\ held' = held \cup {d} /\ device' = device \cup {addr[d]}
           /\ Used' = Used /\ Offered' = Offered /\ Returned' = Returned
    BY GetAvailablePlaces
  <1>2. UNCHANGED <<addr, driver>>
    BY DEF virtqueue_get_available_buffer, descVars
  <1>3. HeldByDriver' = HeldByDriver /\ HeldByDevice' = HeldByDevice \cup {addr[d]}
    BY <1>1, <1>2 DEF HeldByDriver, HeldByDevice
  <1>4. Avail \in Seq(Desc)
    BY RingsTyped DEF IInv
  <1>5. /\ Loads(Avail, addr) # <<>> /\ Head(Loads(Avail, addr)) = addr[d]
        /\ Loads(Tail(Avail), addr) = Tail(Loads(Avail, addr))
    BY <1>1, <1>4, AddrTyped, LoadsTail
  <1>6. /\ BufsOf(Avail) # <<>> /\ Head(BufsOf(Avail)) = addr[d]
        /\ BufsOf(Avail)' = Tail(BufsOf(Avail)) /\ BufsOf(Used)' = BufsOf(Used)
    BY <1>1, <1>2, <1>5 DEF BufsOf, Loads
  <1> QED
    BY <1>3, <1>6 DEF Exchange!Take, HeldByDriver, HeldByDevice, Offered, Returned

LEMMA GiveBackStep ==
  ASSUME IInv, PublishUsed
  PROVE  \E b \in Buf : Exchange!GiveBack(b)
  <1>1. PICK d \in Desc :
           /\ Returned = {d} /\ Returned' = {}
           /\ Used' = Append(Used, d)
           /\ Avail' = Avail /\ held' = held /\ Offered' = Offered
           /\ Len(Used) < vq_nentries /\ d \notin Entries(Used)
    BY PublishUsedPlaces
  <1>2. d \in Away /\ addr[d] \in Buf
    BY <1>1 DEF Away, IInv, Loaded
  <1>3. addr[d] \notin device
    <2>1. \A f \in held : f \in Away /\ f # d
      BY <1>1 DEF Away, IInv, Apart
    <2> QED
      BY <1>2, <2>1 DEF IInv, Owners
  <1>4. UNCHANGED <<addr, driver, device>>
    BY DEF PublishUsed, descVars
  <1>5. HeldByDevice = device \cup {addr[d]} /\ HeldByDevice' = device /\ HeldByDriver' = HeldByDriver
    BY <1>1, <1>4 DEF HeldByDriver, HeldByDevice
  <1>6. addr[d] \in HeldByDevice /\ HeldByDevice' = HeldByDevice \ {addr[d]}
    BY <1>3, <1>5
  <1>7. Used \in Seq(Desc)
    BY RingsTyped DEF IInv
  <1>8. Loads(Append(Used, d), addr) = Append(Loads(Used, addr), addr[d])
    BY <1>7, AddrTyped, LoadsAppend
  <1>9. BufsOf(Used)' = Append(BufsOf(Used), addr[d]) /\ BufsOf(Avail)' = BufsOf(Avail)
    BY <1>1, <1>4, <1>8 DEF BufsOf, Loads
  <1>10. PICK b \in Buf : b = addr[d]
    BY <1>2
  <1>11. /\ b \in HeldByDevice /\ HeldByDevice' = HeldByDevice \ {b}
         /\ BufsOf(Used)' = Append(BufsOf(Used), b)
    BY <1>6, <1>9, <1>10
  <1>12. Exchange!GiveBack(b)
    BY <1>5, <1>9, <1>11 DEF Exchange!GiveBack, HeldByDriver, HeldByDevice, Offered, Returned
  <1> QED
    BY <1>12

LEMMA ReclaimStep ==
  ASSUME IInv, virtqueue_get_buffer
  PROVE  Exchange!Reclaim
  <1>1. PICK d \in Desc :
           /\ Used # <<>> /\ d = Head(Used) /\ Used' = Tail(Used)
           /\ FreeChain(d) /\ cookie' = [cookie EXCEPT ![d] = NoBuf]
           /\ driver' = driver \cup {cookie[d]} /\ d \in Away
           /\ Avail' = Avail /\ held' = held /\ Offered' = Offered /\ Returned' = Returned
    BY GetBufferPlaces
  <1>2. UNCHANGED <<addr, device>> /\ cookie[d] = addr[d]
    BY <1>1 DEF virtqueue_get_buffer, IInv, Loaded
  <1>3. HeldByDevice' = HeldByDevice /\ HeldByDriver' = HeldByDriver \cup {addr[d]}
    BY <1>1, <1>2 DEF HeldByDriver, HeldByDevice
  <1>4. Used \in Seq(Desc)
    BY RingsTyped DEF IInv
  <1>5. /\ Loads(Used, addr) # <<>> /\ Head(Loads(Used, addr)) = addr[d]
        /\ Loads(Tail(Used), addr) = Tail(Loads(Used, addr))
    BY <1>1, <1>4, AddrTyped, LoadsTail
  <1>6. /\ BufsOf(Used) # <<>> /\ Head(BufsOf(Used)) = addr[d]
        /\ BufsOf(Used)' = Tail(BufsOf(Used)) /\ BufsOf(Avail)' = BufsOf(Avail)
    BY <1>1, <1>2, <1>5 DEF BufsOf, Loads
  <1> QED
    BY <1>3, <1>6 DEF Exchange!Reclaim, HeldByDriver, HeldByDevice, Offered, Returned

\* Writing a slot that is not published yet changes nothing for the other side.
LEMMA AddStutters ==
  ASSUME IInv, NEW b \in Buf, AddBuffer(b)
  PROVE  UNCHANGED <<HeldByDriver, HeldByDevice, BufsOf(Avail), BufsOf(Used)>>
  <1> DEFINE h == vq_desc_head_idx
  <1>1. /\ h \in Desc /\ h \notin Away
        /\ Avail' = Avail /\ Used' = Used /\ held' = held /\ Returned' = Returned
        /\ Offered = {} /\ Offered' = {h}
    BY AddPlaces
  <1>2. addr' = [addr EXCEPT ![h] = b] /\ driver' = driver \ {b} /\ b \in driver /\ UNCHANGED device
    BY DEF AddBuffer
  <1>3. addr'[h] = b /\ \A d \in Desc : d # h => addr'[d] = addr[d]
    BY <1>1, <1>2, AddrTyped
  <1> HIDE DEF h
  <1>4. HeldByDriver' = HeldByDriver
    BY <1>1, <1>2, <1>3 DEF HeldByDriver
  <1>5. Away \subseteq Desc
    BY AwayIsDesc
  <1>6. HeldByDevice' = HeldByDevice
    <2>1. \A d \in Returned : addr'[d] = addr[d]
      BY <1>1, <1>3, <1>5 DEF Away
    <2> QED
      BY <1>1, <1>2, <2>1 DEF HeldByDevice
  <1>7. \A i \in DOMAIN Avail : addr'[Avail[i]] = addr[Avail[i]]
    <2>1. \A i \in DOMAIN Avail : Avail[i] \in Away
      BY DEF Away, Entries
    <2> QED
      BY <1>1, <1>3, <1>5, <2>1
  <1>8. \A i \in DOMAIN Used : addr'[Used[i]] = addr[Used[i]]
    <2>1. \A i \in DOMAIN Used : Used[i] \in Away
      BY DEF Away, Entries
    <2> QED
      BY <1>1, <1>3, <1>5, <2>1
  <1>9. BufsOf(Avail)' = BufsOf(Avail) /\ BufsOf(Used)' = BufsOf(Used)
    BY <1>1, <1>7, <1>8 DEF BufsOf
  <1> QED
    BY <1>4, <1>6, <1>9

LEMMA ConsumedStutters ==
  ASSUME IInv, NEW d \in Desc, AddConsumed(d)
  PROVE  UNCHANGED <<HeldByDriver, HeldByDevice, BufsOf(Avail), BufsOf(Used)>>
  <1>1. /\ d \in held /\ held' = held \ {d}
        /\ Used' = Used /\ Avail' = Avail /\ Offered' = Offered
        /\ Returned = {} /\ Returned' = {d}
    BY AddConsumedPlaces
  <1>2. UNCHANGED <<addr, driver>> /\ device' = device \ {addr[d]}
    BY DEF AddConsumed, descVars
  <1>3. addr[d] \in device
    BY <1>1 DEF IInv, Owners
  <1>4. HeldByDriver' = HeldByDriver /\ HeldByDevice' = HeldByDevice
    BY <1>1, <1>2, <1>3 DEF HeldByDriver, HeldByDevice
  <1>5. BufsOf(Avail)' = BufsOf(Avail) /\ BufsOf(Used)' = BufsOf(Used)
    BY <1>1, <1>2 DEF BufsOf
  <1> QED
    BY <1>4, <1>5

\* Implements: seen from outside, virtqueue.c hands the buffers over as
\* BufferExchange promises, in order and never more than there are descriptors.
THEOREM ExchangeKept == Spec => Implements
  <1>1. Init => Exchange!Init
    <2> SUFFICES ASSUME Init PROVE Exchange!Init
      OBVIOUS
    <2>1. IInv
      BY InitInv
    <2>2. Avail = <<>> /\ Used = <<>>
      BY <2>1, RingsTyped DEF IInv, Init
    <2>3. BufsOf(Avail) = <<>> /\ BufsOf(Used) = <<>>
      BY <2>2 DEF BufsOf
    <2> QED
      BY <2>3 DEF Init, Exchange!Init, Pending
  <1>2. ASSUME IInv, [Next]_vars PROVE [Exchange!Next]_Exchange!vars
    <2> DEFINE still == UNCHANGED <<HeldByDriver, HeldByDevice, BufsOf(Avail), BufsOf(Used)>>
    <2>1. still => UNCHANGED Exchange!vars
      BY DEF Exchange!vars, HeldByDriver, HeldByDevice, Offered, Returned
    <2>2. CASE \E b \in Buf : AddBuffer(b)
      BY <1>2, <2>1, <2>2, AddStutters
    <2>3. CASE PublishAvail
      BY <1>2, <2>3, OfferStep DEF Exchange!Next
    <2>4. CASE virtqueue_get_buffer
      BY <1>2, <2>4, ReclaimStep DEF Exchange!Next
    <2>5. CASE virtqueue_get_available_buffer
      BY <1>2, <2>5, TakeStep DEF Exchange!Next
    <2>6. CASE \E d \in Desc : AddConsumed(d)
      BY <1>2, <2>1, <2>6, ConsumedStutters
    <2>7. CASE PublishUsed
      BY <1>2, <2>7, GiveBackStep DEF Exchange!Next
    <2>8. CASE UNCHANGED vars
      <3>1. UNCHANGED <<addr, driver, device, Avail, Used, Offered, Returned>>
        BY <2>8 DEF vars, descVars, ringVars, posVars, Avail, Used, Offered, Returned, Pending
      <3>2. still
        BY <3>1 DEF HeldByDriver, HeldByDevice, BufsOf
      <3> QED
        BY <2>1, <3>2
    <2> QED
      BY <1>2, <2>2, <2>3, <2>4, <2>5, <2>6, <2>7, <2>8 DEF Next, Driver, Device
  <1> QED
    BY <1>1, <1>2, Invariant, PTL DEF Implements, Exchange!Spec, Spec
==============================================================================
