-------------------------------- MODULE CommonLemmas --------------------------------
(***********************************************************************************)
(* Facts that several proofs need: division with a remainder, the greatest number  *)
(* of a set (Max of FiniteSetsExt), and how the last entry of a kind moves when a  *)
(* history grows. That a greatest number exists rests on the order of the natural  *)
(* numbers being well founded.                                                     *)
(***********************************************************************************)
EXTENDS Histories, WellFoundedInduction, TLAPS

\* A remainder lies below the divisor.
LEMMA ModBounds == \A a \in Nat, n \in Nat \ {0} : a % n \in 0 .. n - 1
  OBVIOUS

\* A number is its own remainder past the multiples of the divisor it holds.
LEMMA ModUnique ==
  \A n \in Nat \ {0}, q \in Int, r \in Nat : r < n => (n * q + r) % n = r
  BY SMTT(60)

\* A number is a multiple of the divisor and the remainder.
LEMMA DivMod ==
  \A a \in Int, n \in Nat \ {0} :
    a = n * (a \div n) + (a % n) /\ a \div n \in Int /\ a % n \in 0 .. n - 1
  BY SMTT(60)

\* Two numbers have the same remainder if the divisor divides their difference.
LEMMA SameRemainder ==
  ASSUME NEW x \in Int, NEW y \in Int, NEW n \in Nat \ {0}
  PROVE  (x - y) % n = 0 <=> x % n = y % n
<1> DEFINE i == x \div n
           j == y \div n
           q == (x - y) \div n
           r == x % n
           s == y % n
<1>1. x = n * i + r /\ i \in Int /\ r \in 0 .. n - 1
  BY DivMod, Zenon
<1>2. y = n * j + s /\ j \in Int /\ s \in 0 .. n - 1
  BY DivMod, Zenon
<1>3. x - y \in Int
  OBVIOUS
<1>4. (x - y) % n = 0 => x - y = n * q + 0 /\ q \in Int
  BY <1>3, DivMod, Zenon
<1>5. \A k \in Int, t \in 0 .. n - 1 : (n * k + t) % n = t
  BY ModUnique
<1> HIDE DEF i, j, q, r, s
<1>6. ASSUME (x - y) % n = 0 PROVE r = s
  <2>1. x = n * (q + j) + s /\ q + j \in Int
    <3>1. x = n * q + (n * j + s)
      BY <1>2, <1>4, <1>6
    <3>2. n * (q + j) = n * q + n * j
      BY <1>2, <1>4, <1>6, SMT
    <3>3. n * q \in Int /\ n * j \in Int /\ q + j \in Int
      BY <1>2, <1>4, <1>6
    <3> QED
      BY <1>2, <3>1, <3>2, <3>3
  <2>2. (n * (q + j) + s) % n = s
    BY <1>2, <1>5, <2>1
  <2>3. x % n = s
    BY <2>1, <2>2, Zenon
  <2> QED
    BY <2>3 DEF r
<1>7. ASSUME r = s PROVE (x - y) % n = 0
  <2>1. x - y = n * (i - j) + 0 /\ i - j \in Int
    <3>1. n * (i - j) = n * i - n * j
      BY <1>1, <1>2, SMT
    <3>2. n * i \in Int /\ n * j \in Int /\ i - j \in Int
      BY <1>1, <1>2
    <3> QED
      BY <1>1, <1>2, <1>7, <3>1, <3>2
  <2>2. (n * (i - j) + 0) % n = 0
    BY <1>5, <2>1
  <2> QED
    BY <2>1, <2>2, Zenon
<1> QED
  BY <1>6, <1>7 DEF r, s
---------------------------------------------------------------------------------
(* The greatest number of a set.                                                  *)

\* A set of natural numbers with a member has a least one.
LEMMA LeastExists ==
  ASSUME NEW S, S \subseteq Nat, S # {}
  PROVE  \E x \in S : \A y \in S : x <= y
<1>1. PICK x \in S : \A y \in S : ~ (<< y, x >> \in OpToRel(<, Nat))
  BY NatLessThanWellFounded, WFMin
<1>2. \A y \in S : ~ (y < x)
  BY <1>1 DEF OpToRel
<1>3. x \in Nat /\ \A y \in S : y \in Nat
  OBVIOUS
<1> QED
  BY <1>2, <1>3

\* A set of natural numbers with a member and a bound has a greatest one, which is its
\* Max.
LEMMA MaxIsGreatest ==
  ASSUME NEW S, S \subseteq Nat, S # {}, NEW n \in Nat, \A x \in S : x <= n
  PROVE  Max(S) \in S /\ \A y \in S : y <= Max(S)
<1> DEFINE gaps == { n - x : x \in S }
<1> \A x \in S : x \in Nat
  OBVIOUS
<1>1. gaps \subseteq Nat /\ gaps # {}
  OBVIOUS
<1>2. PICK g \in gaps : \A h \in gaps : g <= h
  BY <1>1, LeastExists
<1>3. PICK x \in S : g = n - x
  BY <1>2
<1>4. \A y \in S : y <= x
  BY <1>2, <1>3
<1>5. \E z \in S : \A y \in S : z >= y
  BY <1>4
<1> QED
  BY <1>5 DEF Max

\* The member no other is above is Max.
LEMMA MaxIsUnique ==
  ASSUME NEW S, S \subseteq Nat, NEW x \in S, \A y \in S : y <= x
  PROVE  Max(S) = x
<1>1. Max(S) \in S /\ \A y \in S : y <= Max(S)
  BY MaxIsGreatest
<1>2. x \in Nat /\ Max(S) \in Nat
  BY <1>1
<1> QED
  BY <1>1, <1>2

---------------------------------------------------------------------------------
(* Histories.                                                                     *)

\* The last position before n is one before n, of the entries asked for, and no such
\* entry follows it; it is 0 if and only if there is none.
LEMMA LastBeforeIs ==
  ASSUME NEW S, NEW list \in Seq(S), NEW entries, NEW n \in Nat
  PROVE  LET k == LastBefore(list, entries, n)
         IN  \/ k = 0 /\ \A j \in 1 .. n - 1 : list[j] \notin entries
             \/ k \in 1 .. n - 1 /\ list[k] \in entries
                /\ \A j \in 1 .. n - 1 : list[j] \in entries => j <= k
<1> DEFINE hits == { k \in 1 .. n - 1 : list[k] \in entries }
<1>1. LastBefore(list, entries, n) = IF hits = {} THEN 0 ELSE Max(hits)
  BY DEF LastBefore
<1>2. hits \subseteq Nat /\ \A x \in hits : x <= n
  OBVIOUS
<1>3. CASE hits = {}
  BY <1>1, <1>3
<1>4. CASE hits # {}
  <2>1. Max(hits) \in hits /\ \A j \in hits : j <= Max(hits)
    BY <1>2, <1>4, MaxIsGreatest
  <2> DEFINE k == Max(hits)
  <2>2. LastBefore(list, entries, n) = k
    BY <1>1, <1>4
  <2> HIDE DEF k
  <2>3. k \in hits /\ \A j \in hits : j <= k
    BY <2>1 DEF k
  <2> QED
    BY <2>2, <2>3
<1> QED
  BY <1>3, <1>4

\* The position that has those facts is the last one.
LEMMA LastBeforeUnique ==
  ASSUME NEW S, NEW list \in Seq(S), NEW entries, NEW n \in Nat,
         NEW k \in 1 .. n - 1, list[k] \in entries,
         \A j \in 1 .. n - 1 : list[j] \in entries => j <= k
  PROVE  LastBefore(list, entries, n) = k
<1> DEFINE hits == { j \in 1 .. n - 1 : list[j] \in entries }
<1>1. k \in hits /\ hits \subseteq Nat /\ \A j \in hits : j <= k
  OBVIOUS
<1>2. Max(hits) = k
  BY <1>1, MaxIsUnique
<1>3. LastBefore(list, entries, n) = IF hits = {} THEN 0 ELSE Max(hits)
  BY DEF LastBefore
<1> HIDE DEF hits
<1> QED
  BY <1>1, <1>2, <1>3

\* Entries that are added later do not change what was last before a position.
LEMMA LastBeforeKept ==
  ASSUME NEW S, NEW list \in Seq(S), NEW e \in S, NEW entries,
         NEW n \in Nat, n <= Len(list) + 1
  PROVE  LastBefore(Append(list, e), entries, n) = LastBefore(list, entries, n)
<1> DEFINE new == Append(list, e)
<1>1. Len(list) \in Nat /\ \A k \in 1 .. n - 1 : new[k] = list[k]
  OBVIOUS
<1>2. { k \in 1 .. n - 1 : new[k] \in entries } = { k \in 1 .. n - 1 : list[k] \in entries }
  BY <1>1
<1> QED
  BY <1>2 DEF LastBefore

\* An entry that is asked for is the last one once it is added; any other leaves the
\* last one where it was.
LEMMA LastInAppended ==
  ASSUME NEW S, NEW list \in Seq(S), NEW e \in S, NEW entries
  PROVE  LastIn(Append(list, e), entries) =
           IF e \in entries THEN Len(list) + 1 ELSE LastIn(list, entries)
<1> DEFINE new == Append(list, e)
           n   == Len(list) + 1
<1>1. /\ new \in Seq(S) /\ Len(new) = n /\ n \in Nat /\ n \in 1 .. n /\ (n + 1) - 1 = n /\ n + 1 \in Nat
      /\ new[n] = e /\ \A k \in 1 .. n - 1 : new[k] = list[k]
  OBVIOUS
<1>2. LastIn(new, entries) = LastBefore(new, entries, n + 1)
  BY <1>1 DEF LastIn
<1> HIDE DEF new, n
<1>3. CASE e \in entries
  <2>1. \A j \in 1 .. n : j <= n
    BY <1>1
  <2>2. LastBefore(new, entries, n + 1) = n
    BY <1>1, <1>3, <2>1, LastBeforeUnique
  <2> QED
    BY <1>2, <1>3, <2>2 DEF new, n
<1>4. CASE e \notin entries
  <2>1. \A k \in 1 .. n : k = n \/ k \in 1 .. n - 1
    BY <1>1
  <2>2. { k \in 1 .. n : new[k] \in entries } = { k \in 1 .. n - 1 : list[k] \in entries }
    BY <1>1, <1>4, <2>1
  <2>3. LastBefore(new, entries, n + 1) = LastBefore(list, entries, n)
    BY <1>1, <2>2 DEF LastBefore
  <2> QED
    BY <1>2, <1>4, <2>3 DEF LastIn, new, n
<1> QED
  BY <1>3, <1>4

\* A history with nothing in it has no last entry of any kind.
LEMMA LastInNone == \A entries : LastIn(<< >>, entries) = 0
  BY DEF LastIn, LastBefore

\* The last position of a history.
LEMMA LastInRange ==
  ASSUME NEW S, NEW list \in Seq(S), NEW entries
  PROVE  /\ LastIn(list, entries) \in 0 .. Len(list)
         /\ LastIn(list, entries) # 0 => list[LastIn(list, entries)] \in entries
<1> DEFINE n == Len(list) + 1
           k == LastBefore(list, entries, n)
<1>1. n \in Nat /\ n - 1 = Len(list) /\ Len(list) \in Nat
  OBVIOUS
<1>2. \/ k = 0 /\ \A j \in 1 .. n - 1 : list[j] \notin entries
      \/ k \in 1 .. n - 1 /\ list[k] \in entries
         /\ \A j \in 1 .. n - 1 : list[j] \in entries => j <= k
  BY <1>1, LastBeforeIs
<1>3. LastIn(list, entries) = k
  BY DEF LastIn
<1> HIDE DEF k, n
<1> QED
  BY <1>1, <1>2, <1>3
=====================================================================================
