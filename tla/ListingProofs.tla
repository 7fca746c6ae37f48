--------------------------- MODULE ListingProofs ---------------------------
(***************************************************************************)
(* Lemmas about the operators of Listing, for strings and lists of any     *)
(* length: the order of strings, binary search, filters and pages.         *)
(***************************************************************************)
EXTENDS Listing, LeastNumbers, FiniteSetTheorems, SequenceTheorems, TLAPS

-----------------------------------------------------------------------------
(* The order of strings. *)

(* A prefix agrees with the whole as far as it goes. *)
LEMMA PrefixAgrees ==
    ASSUME NEW s \in Strings, NEW t \in Strings
    PROVE  IsPrefix(s, t) <=> Len(s) <= Len(t) /\ \A i \in 1..Len(s) : s[i] = t[i]
  <1>1. /\ Len(s) \in Nat /\ Len(t) \in Nat
        /\ \A i \in 1..Len(s) : s[i] \in Nat
        /\ \A i \in 1..Len(t) : t[i] \in Nat
    BY LenProperties DEF Strings
  <1>2. /\ SubSeq(s, 1, Len(s)) \in Seq(Nat) /\ Len(SubSeq(s, 1, Len(s))) = Len(s)
        /\ \A i \in 1..Len(s) : SubSeq(s, 1, Len(s))[i] = s[i]
    <2>1. PICK n \in Nat : n = Len(s)
      BY <1>1
    <2>2. \A i \in 1..n : s[i] \in Nat
      BY <1>1, <2>1
    <2>3. /\ SubSeq(s, 1, n) \in Seq(Nat) /\ Len(SubSeq(s, 1, n)) = IF 1 <= n THEN n - 1 + 1 ELSE 0
          /\ \A i \in 1..(n - 1 + 1) : SubSeq(s, 1, n)[i] = s[1 + i - 1]
      BY <2>2, SubSeqProperties
    <2>4. QED
      BY <2>1, <2>3
  <1>3. ASSUME Len(s) <= Len(t)
        PROVE  /\ SubSeq(t, 1, Len(s)) \in Seq(Nat) /\ Len(SubSeq(t, 1, Len(s))) = Len(s)
               /\ \A i \in 1..Len(s) : SubSeq(t, 1, Len(s))[i] = t[i]
    <2>1. PICK n \in Nat : n = Len(s)
      BY <1>1
    <2>2. \A i \in 1..n : t[i] \in Nat
      BY <1>1, <1>3, <2>1
    <2>3. /\ SubSeq(t, 1, n) \in Seq(Nat) /\ Len(SubSeq(t, 1, n)) = IF 1 <= n THEN n - 1 + 1 ELSE 0
          /\ \A i \in 1..(n - 1 + 1) : SubSeq(t, 1, n)[i] = t[1 + i - 1]
      BY <2>2, SubSeqProperties
    <2>4. QED
      BY <2>1, <2>3
  <1>4. ASSUME Len(s) <= Len(t), \A i \in 1..Len(s) : s[i] = t[i]
        PROVE  SubSeq(s, 1, Len(s)) = SubSeq(t, 1, Len(s))
    BY <1>2, <1>3, <1>4, SeqEqual
  <1>5. QED
    BY <1>1, <1>2, <1>3, <1>4 DEF IsPrefix

(* Where s and t part, with s the lesser: s has ended or has the lesser character there. *)
PartAt(s, t, i) ==
    /\ i \in 1..Len(t) /\ i <= Len(s) + 1
    /\ \A j \in 1..(i - 1) : s[j] = t[j]
    /\ i <= Len(s) => s[i] < t[i]

LEMMA LessParts ==
    ASSUME NEW s \in Strings, NEW t \in Strings
    PROVE  Less(s, t) <=> \E i \in Nat : PartAt(s, t, i)
  <1>1. /\ Len(s) \in Nat /\ Len(t) \in Nat
        /\ DOMAIN s = 1..Len(s) /\ DOMAIN t = 1..Len(t)
    BY LenProperties DEF Strings
  <1>2. ASSUME IsStrictPrefix(s, t)
        PROVE  PartAt(s, t, Len(s) + 1)
    <2>1. Len(s) <= Len(t) /\ \A i \in 1..Len(s) : s[i] = t[i]
      BY <1>2, PrefixAgrees DEF IsStrictPrefix
    <2>2. Len(s) # Len(t)
      BY <1>2, <2>1, SeqEqual DEF IsStrictPrefix, Strings
    <2>3. PICK n \in Nat : n = Len(s)
      BY <1>1
    <2>4. PICK m \in Nat : m = Len(t)
      BY <1>1
    <2>5. n < m /\ (\A j \in 1..n : s[j] = t[j]) /\ 1..(n + 1 - 1) = 1..n
      BY <2>1, <2>2, <2>3, <2>4
    <2>6. n + 1 \in 1..m /\ n + 1 <= n + 1 /\ ~(n + 1 <= n)
      BY <2>5
    <2>7. QED
      BY <2>3, <2>4, <2>5, <2>6 DEF PartAt
  <1>3. ASSUME NEW i \in DOMAIN s \cap DOMAIN t, s[i] < t[i], \A j \in 1..(i - 1) : s[j] = t[j]
        PROVE  i \in Nat /\ PartAt(s, t, i)
    BY <1>1, <1>3 DEF PartAt
  <1>4. ASSUME NEW i \in Nat, PartAt(s, t, i), i <= Len(s)
        PROVE  i \in DOMAIN s \cap DOMAIN t /\ s[i] < t[i] /\ \A j \in 1..(i - 1) : s[j] = t[j]
    BY <1>1, <1>4 DEF PartAt
  <1>5. ASSUME NEW i \in Nat, PartAt(s, t, i), ~(i <= Len(s))
        PROVE  IsStrictPrefix(s, t)
    <2>1. i = Len(s) + 1 /\ Len(s) < Len(t) /\ \A j \in 1..Len(s) : s[j] = t[j]
      BY <1>1, <1>5 DEF PartAt
    <2>2. IsPrefix(s, t)
      BY <1>1, <2>1, PrefixAgrees
    <2>3. QED
      BY <1>1, <2>1, <2>2 DEF IsStrictPrefix
  <1>6. QED
    BY <1>1, <1>2, <1>3, <1>4, <1>5 DEF Less

LEMMA LessIrreflexive ==
    ASSUME NEW s \in Strings
    PROVE  ~Less(s, s)
  <1>1. Len(s) \in Nat /\ \A i \in 1..Len(s) : s[i] \in Nat
    BY LenProperties DEF Strings
  <1>2. ASSUME NEW i \in Nat, PartAt(s, s, i)
        PROVE  FALSE
    BY <1>1, <1>2 DEF PartAt
  <1>3. QED
    BY <1>2, LessParts

LEMMA LessTransitive ==
    ASSUME NEW s \in Strings, NEW t \in Strings, NEW u \in Strings, Less(s, t), Less(t, u)
    PROVE  Less(s, u)
  <1>1. /\ Len(s) \in Nat /\ Len(t) \in Nat /\ Len(u) \in Nat
        /\ \A i \in 1..Len(s) : s[i] \in Nat
        /\ \A i \in 1..Len(t) : t[i] \in Nat
        /\ \A i \in 1..Len(u) : u[i] \in Nat
    BY LenProperties DEF Strings
  <1>2. PICK i \in Nat : PartAt(s, t, i)
    BY LessParts
  <1>3. PICK j \in Nat : PartAt(t, u, j)
    BY LessParts
  <1>4. CASE i <= j
    <2>1. PartAt(s, u, i)
      BY <1>1, <1>2, <1>3, <1>4 DEF PartAt
    <2>2. QED
      BY <2>1, LessParts
  <1>5. CASE j < i
    <2>1. PartAt(s, u, j)
      BY <1>1, <1>2, <1>3, <1>5 DEF PartAt
    <2>2. QED
      BY <2>1, LessParts
  <1>6. QED
    BY <1>4, <1>5

LEMMA LessTotal ==
    ASSUME NEW s \in Strings, NEW t \in Strings, s # t
    PROVE  Less(s, t) \/ Less(t, s)
  <1>1. /\ Len(s) \in Nat /\ Len(t) \in Nat
        /\ \A i \in 1..Len(s) : s[i] \in Nat
        /\ \A i \in 1..Len(t) : t[i] \in Nat
    BY LenProperties DEF Strings
  <1> DEFINE Apart == {i \in Nat \ {0} : i > Len(s) \/ i > Len(t) \/ s[i] # t[i]}
  <1>2. Len(s) + 1 \in Apart /\ Apart \subseteq Nat
    BY <1>1
  <1>3. PICK i \in Apart : \A j \in Apart : i <= j
    BY <1>2, LeastNumber
  <1>4. \A j \in 1..(i - 1) : j <= Len(s) /\ j <= Len(t) /\ s[j] = t[j]
    BY <1>1, <1>3
  <1>5. i <= Len(s) + 1 /\ i <= Len(t) + 1
    BY <1>1, <1>3
  <1>6. ~(i > Len(s) /\ i > Len(t))
    <2>1. SUFFICES ASSUME i > Len(s), i > Len(t) PROVE FALSE
      OBVIOUS
    <2>2. Len(s) = Len(t) /\ \A j \in 1..Len(s) : s[j] = t[j]
      BY <1>1, <1>4, <1>5, <2>1
    <2>3. QED
      BY <2>2, SeqEqual DEF Strings
  <1>7. PartAt(s, t, i) \/ PartAt(t, s, i)
    BY <1>1, <1>3, <1>4, <1>5, <1>6 DEF PartAt
  <1>8. QED
    BY <1>7, LessParts

-----------------------------------------------------------------------------
(* Binary search. *)

(* A test that, once passed, is passed from there on. *)
Monotone(n, passed) ==
    \A i, j \in 0..(n - 1) : i < j /\ i \in passed => j \in passed

(* Such a test has a place from which on it is passed. *)
LEMMA FirstPassed ==
    ASSUME NEW n \in Nat, NEW passed, Monotone(n, passed)
    PROVE  \E p \in 0..n : \A i \in 0..(n - 1) : i \in passed <=> p <= i
  <1> DEFINE Candidates == {i \in 0..n : i = n \/ i \in passed}
  <1>1. Candidates \subseteq Nat /\ n \in Candidates
    OBVIOUS
  <1>2. PICK p \in Candidates : \A i \in Candidates : p <= i
    BY <1>1, LeastNumber
  <1>3. \A i \in 0..(n - 1) : i \in passed <=> p <= i
    BY <1>2 DEF Monotone
  <1>4. QED
    BY <1>2, <1>3

(* sort.Search finds that place: whichever half of the interval it goes on with, the       *)
(* place, moved into the interval, stays where it is.                                     *)
THEOREM SearchFinds ==
    ASSUME NEW n \in Nat, NEW passed, NEW p \in 0..n,
           \A i \in 0..(n - 1) : i \in passed <=> p <= i
    PROVE  Search(n, passed) = p
  <1> DEFINE D == (0..n) \X (0..n)
             Half(w) == (w[1] + w[2]) \div 2
             Clamp(w) == IF w[2] <= w[1] \/ p < w[1] THEN w[1] ELSE IF w[2] < p THEN w[2] ELSE p
             Body(f, w) ==
                 IF w[1] >= w[2] THEN w[1]
                 ELSE IF Half(w) \in passed THEN f[<<w[1], Half(w)>>] ELSE f[<<Half(w) + 1, w[2]>>]
             find == CHOOSE f : f = [w \in D |-> Body(f, w)]
             witness == [w \in D |-> Clamp(w)]
  <1>1. ASSUME NEW i \in 0..n, NEW j \in 0..n, i < j, NEW h, h = (i + j) \div 2
        PROVE  h \in 0..(n - 1) /\ h + 1 \in 0..n /\ i <= h /\ h < j
    BY <1>1
  <1>2. ASSUME NEW w \in D
        PROVE  witness[w] = Body(witness, w)
    <2>1. PICK i \in 0..n, j \in 0..n : w = <<i, j>>
      BY <1>2
    <2>2. CASE i >= j
      BY <2>1, <2>2
    <2>3. CASE i < j
      <3>1. PICK h : h = (i + j) \div 2
        OBVIOUS
      <3>2. h \in 0..(n - 1) /\ h + 1 \in 0..n /\ i <= h /\ h < j /\ Half(w) = h
        BY <1>1, <2>1, <2>3, <3>1
      <3>3. CASE h \in passed
        <4>1. witness[<<i, h>>] = Clamp(<<i, h>>) /\ p <= h
          BY <3>2, <3>3
        <4>2. QED
          BY <2>1, <2>3, <3>2, <3>3, <4>1
      <3>4. CASE h \notin passed
        <4>1. witness[<<h + 1, j>>] = Clamp(<<h + 1, j>>) /\ h < p
          BY <3>2, <3>4
        <4>2. QED
          BY <2>1, <2>3, <3>2, <3>4, <4>1
      <3>5. QED
        BY <3>3, <3>4
    <2>4. QED
      BY <2>2, <2>3
  <1>3. witness = [w \in D |-> Body(witness, w)]
    <2> HIDE DEF Body, Clamp
    <2>1. \A w \in D : witness[w] = Body(witness, w)
      BY <1>2
    <2>2. QED
      BY <2>1
  <1>4. find = [w \in D |-> Body(find, w)]
    <2> HIDE DEF Body, witness
    <2>1. QED
      BY <1>3
  <1>5. \A w \in D : find[w] = Body(find, w)
    <2> HIDE DEF Body, find
    <2>1. QED
      BY <1>4
  <1> HIDE DEF find
  <1> DEFINE Astray == {d \in Nat : \E i, j \in 0..n :
                           i <= j /\ d = j - i /\ find[<<i, j>>] # Clamp(<<i, j>>)}
  <1>6. Astray = {}
    <2>1. SUFFICES ASSUME Astray # {} PROVE FALSE
      OBVIOUS
    <2>2. PICK d \in Nat : d \in Astray /\ \A e \in Nat : e < d => e \notin Astray
      <3>1. PICK d \in Astray : \A e \in Astray : d <= e
        BY <2>1, LeastNumber
      <3>2. d \in Nat /\ \A e \in Nat : e < d => e \notin Astray
        <4> HIDE DEF Astray
        <4>1. Astray \subseteq Nat
          BY DEF Astray
        <4>2. QED
          BY <3>1, <4>1
      <3>3. QED
        BY <3>1, <3>2
    <2>3. PICK i \in 0..n, j \in 0..n : i <= j /\ d = j - i /\ find[<<i, j>>] # Clamp(<<i, j>>)
      BY <2>2
    <2>4. i < j
      <3>1. SUFFICES ASSUME i = j PROVE FALSE
        BY <2>3
      <3>2. <<i, j>> \in D /\ find[<<i, j>>] = Body(find, <<i, j>>)
        BY <1>5
      <3>3. find[<<i, j>>] = i /\ Clamp(<<i, j>>) = i
        BY <3>1, <3>2
      <3>4. QED
        BY <2>3, <3>3
    <2>5. PICK h : h = (i + j) \div 2
      OBVIOUS
    <2>6. h \in 0..(n - 1) /\ h + 1 \in 0..n /\ h \in 0..n /\ i <= h /\ h < j
      BY <1>1, <2>4, <2>5
    <2>7. find[<<i, j>>] = IF h \in passed THEN find[<<i, h>>] ELSE find[<<h + 1, j>>]
      BY <1>5, <2>4, <2>5
    <2>8. find[<<i, h>>] = Clamp(<<i, h>>)
      <3>1. h - i \in Nat /\ h - i < d
        BY <2>3, <2>6
      <3>2. h - i \notin Astray
        BY <2>2, <3>1
      <3>3. QED
        BY <2>6, <3>1, <3>2
    <2>9. find[<<h + 1, j>>] = Clamp(<<h + 1, j>>)
      <3>1. j - (h + 1) \in Nat /\ j - (h + 1) < d
        BY <2>3, <2>6
      <3>2. j - (h + 1) \notin Astray
        BY <2>2, <3>1
      <3>3. QED
        BY <2>6, <3>1, <3>2
    <2>10. QED
      BY <2>3, <2>4, <2>6, <2>7, <2>8, <2>9
  <1>7. find[<<0, n>>] = p
    <2>1. n - 0 \notin Astray
      BY <1>6
    <2>2. find[<<0, n>>] = Clamp(<<0, n>>)
      BY <2>1
    <2>3. QED
      BY <2>2
  <1>8. Search(n, passed) = find[<<0, n>>]
    BY DEF Search, find
  <1>9. QED
    BY <1>7, <1>8

-----------------------------------------------------------------------------
(* Lists. *)

Ascending(list) == \A i, j \in 1..Len(list) : i < j => ~Less(list[j], list[i])
Strict(list)    == \A i, j \in 1..Len(list) : i < j => Less(list[i], list[j])

LEMMA PlacesFinite ==
    ASSUME NEW n \in Nat
    PROVE  IsFiniteSet(1..n) /\ Cardinality(1..n) = n
  <1>1. 1 \in Int /\ n \in Int /\ (IF 1 > n THEN 0 ELSE n - 1 + 1) = n
    OBVIOUS
  <1>2. QED
    BY <1>1, FS_Interval

LEMMA LessAsymmetric ==
    ASSUME NEW s \in Strings, NEW t \in Strings, Less(s, t)
    PROVE  ~Less(t, s)
  BY LessIrreflexive, LessTransitive

LEMMA NotLessLess ==
    ASSUME NEW s \in Strings, NEW t \in Strings, NEW u \in Strings, ~Less(t, s), Less(t, u)
    PROVE  Less(s, u)
  BY LessTotal, LessTransitive

LEMMA LessNotLess ==
    ASSUME NEW s \in Strings, NEW t \in Strings, NEW u \in Strings, Less(s, t), ~Less(u, t)
    PROVE  Less(s, u)
  BY LessTotal, LessTransitive

LEMMA StrictAscends ==
    ASSUME NEW list \in Seq(Strings), Strict(list)
    PROVE  Ascending(list)
  <1>1. \A i \in 1..Len(list) : list[i] \in Strings
    BY ElementOfSeq
  <1>2. QED
    BY <1>1, LessAsymmetric DEF Strict, Ascending

(* An ascending list without repetitions ascends strictly. *)
LEMMA SingleStrict ==
    ASSUME NEW list \in Seq(Strings), Ascending(list), Cardinality(ToSet(list)) = Len(list)
    PROVE  Strict(list)
  <1>1. /\ Len(list) \in Nat /\ list \in [1..Len(list) -> Strings] /\ DOMAIN list = 1..Len(list)
    BY LenProperties
  <1>2. list \in Surjection(1..Len(list), ToSet(list))
    BY <1>1 DEF Surjection, ToSet
  <1>3. IsFiniteSet(1..Len(list)) /\ Cardinality(1..Len(list)) = Len(list)
    BY <1>1, PlacesFinite
  <1>4. list \in Injection(1..Len(list), ToSet(list))
    BY <1>2, <1>3, FS_Surjection
  <1>5. \A i, j \in 1..Len(list) : i # j => list[i] # list[j]
    BY <1>4 DEF Injection, IsInjective
  <1>6. QED
    BY <1>1, <1>5, LessTotal DEF Ascending, Strict

(* A list without repetitions has as many members as places. *)
LEMMA StrictSingle ==
    ASSUME NEW list \in Seq(Strings), Strict(list)
    PROVE  Cardinality(ToSet(list)) = Len(list)
  <1>1. /\ Len(list) \in Nat /\ list \in [1..Len(list) -> Strings] /\ DOMAIN list = 1..Len(list)
    BY LenProperties
  <1>2. list \in Surjection(1..Len(list), ToSet(list))
    BY <1>1 DEF Surjection, ToSet
  <1>3. IsFiniteSet(1..Len(list)) /\ Cardinality(1..Len(list)) = Len(list)
    BY <1>1, PlacesFinite
  <1>4. \A i, j \in 1..Len(list) : i # j => list[i] # list[j]
    BY <1>1, LessIrreflexive DEF Strict
  <1>5. list \in Injection(1..Len(list), ToSet(list))
    BY <1>1, <1>2, <1>4 DEF Injection, IsInjective, Surjection
  <1>6. QED
    BY <1>2, <1>3, <1>5, FS_Surjection

(* sort.SearchStrings returns the number of strings before s. *)
LEMMA SearchStringsFinds ==
    ASSUME NEW list \in Seq(Strings), Ascending(list), NEW s \in Strings
    PROVE  /\ SearchStrings(list, s) \in 0..Len(list)
           /\ \A i \in 1..Len(list) : Less(list[i], s) <=> i <= SearchStrings(list, s)
  <1> DEFINE passed == {i \in 0..(Len(list) - 1) : ~Less(list[i + 1], s)}
  <1>1. Len(list) \in Nat /\ \A i \in 1..Len(list) : list[i] \in Strings
    BY LenProperties, ElementOfSeq
  <1>2. PICK n \in Nat : n = Len(list)
    BY <1>1
  <1>3. ASSUME NEW i \in 0..(n - 1), NEW j \in 0..(n - 1), i < j, ~Less(list[i + 1], s)
        PROVE  ~Less(list[j + 1], s)
    <2>1. i + 1 \in 1..Len(list) /\ j + 1 \in 1..Len(list) /\ i + 1 < j + 1
      BY <1>2, <1>3
    <2>2. ~Less(list[j + 1], list[i + 1])
      BY <2>1 DEF Ascending
    <2>3. QED
      BY <1>1, <1>3, <2>1, <2>2, NotLessLess
  <1>4. Monotone(n, passed)
    BY <1>2, <1>3 DEF Monotone
  <1>5. PICK p \in 0..n : \A i \in 0..(n - 1) : i \in passed <=> p <= i
    <2> HIDE DEF passed
    <2>1. QED
      BY <1>4, FirstPassed
  <1>6. SearchStrings(list, s) = p
    <2>1. Search(n, passed) = p
      <3> HIDE DEF passed
      <3>1. QED
        BY <1>5, SearchFinds
    <2>2. QED
      BY <1>2, <2>1 DEF SearchStrings
  <1>7. ASSUME NEW i \in 1..n
        PROVE  Less(list[i], s) <=> i <= p
    <2>1. i - 1 \in 0..(n - 1) /\ i - 1 + 1 = i
      OBVIOUS
    <2>2. i - 1 \in passed <=> p <= i - 1
      BY <1>5, <2>1
    <2>3. i - 1 \in passed <=> ~Less(list[i], s)
      BY <1>2, <2>1
    <2>4. QED
      BY <2>2, <2>3
  <1>8. QED
    BY <1>2, <1>6, <1>7

(* A page starts behind everything up to the cursor, and the next one behind this one. *)
LEMMA PageParts ==
    ASSUME NEW list \in Seq(Strings), Ascending(list), NEW cursor \in Strings,
           NEW limit \in Nat \ {0}
    PROVE  \E start \in 0..Len(list) : \E end \in start..Len(list) :
              /\ Paginate(list, cursor, limit).items = SubSeq(list, start + 1, end)
              /\ Paginate(list, cursor, limit).next =
                    IF end < Len(list) THEN list[end] ELSE <<>>
              /\ start < Len(list) => start < end
              /\ \A i \in 1..start : cursor # <<>> /\ ~Less(cursor, list[i])
              /\ cursor # <<>> => \A i \in (start + 1)..Len(list) :
                                     /\ ~Less(list[i], cursor)
                                     /\ Strict(list) => Less(cursor, list[i])
  <1>1. Len(list) \in Nat /\ \A i \in 1..Len(list) : list[i] \in Strings
    BY LenProperties, ElementOfSeq
  <1>2. PICK n \in Nat : n = Len(list)
    BY <1>1
  <1> DEFINE at    == IF cursor = <<>> THEN 0 ELSE SearchStrings(list, cursor)
             start == IF cursor # <<>> /\ at < n /\ list[at + 1] = cursor THEN at + 1 ELSE at
             end   == IF start + limit < n THEN start + limit ELSE n
  <1>3. Paginate(list, cursor, limit) =
           [items |-> SubSeq(list, start + 1, end),
            next  |-> IF start < n /\ end < n THEN list[end] ELSE <<>>]
    BY <1>2 DEF Paginate
  <1>4. at \in 0..n /\ (cursor # <<>> => \A i \in 1..n : Less(list[i], cursor) <=> i <= at)
    BY <1>2, SearchStringsFinds
  <1> HIDE DEF at
  <1>5. start \in 0..n
    BY <1>4
  <1>6. \A i \in 1..start : cursor # <<>> /\ ~Less(cursor, list[i])
    <2>1. CASE cursor = <<>>
      BY <2>1 DEF at
    <2>2. CASE cursor # <<>>
      <3>1. ASSUME NEW i \in 1..start PROVE ~Less(cursor, list[i])
        <4>1. i \in 1..n
          BY <1>4
        <4>2. CASE i <= at
          BY <1>1, <1>2, <1>4, <2>2, <4>1, <4>2, LessAsymmetric
        <4>3. CASE ~(i <= at)
          <5>1. i = at + 1 /\ list[i] = cursor
            BY <1>4, <4>3
          <5>2. QED
            BY <5>1, LessIrreflexive
        <4>4. QED
          BY <4>2, <4>3
      <3>2. QED
        BY <2>2, <3>1
    <2>3. QED
      BY <2>1, <2>2
  <1>7. ASSUME cursor # <<>>, NEW i \in (start + 1)..n
        PROVE  ~Less(list[i], cursor) /\ (Strict(list) => Less(cursor, list[i]))
    <2>1. i \in 1..n /\ ~(i <= at) /\ at + 1 \in 1..n
      BY <1>4, <1>5
    <2>2. ~Less(list[i], cursor) /\ ~Less(list[at + 1], cursor)
      BY <1>4, <1>7, <2>1
    <2>3. ASSUME Strict(list)
          PROVE  Less(cursor, list[i])
      <3>1. CASE list[at + 1] = cursor
        <4>1. at + 1 < i
          BY <1>4, <1>7, <2>1, <3>1
        <4>2. QED
          BY <1>2, <2>1, <2>3, <3>1, <4>1 DEF Strict
      <3>2. CASE list[at + 1] # cursor
        <4>1. Less(cursor, list[at + 1])
          BY <1>1, <1>2, <2>1, <2>2, <3>2, LessTotal
        <4>2. i = at + 1 \/ Less(list[at + 1], list[i])
          BY <1>2, <1>4, <2>1, <2>3 DEF Strict
        <4>3. QED
          BY <1>1, <1>2, <2>1, <4>1, <4>2, LessTransitive
      <3>3. QED
        BY <3>1, <3>2
    <2>4. QED
      BY <2>2, <2>3
  <1> HIDE DEF start
  <1>8. end \in start..n /\ (start < n => start < end) /\ (start < n /\ end < n <=> end < n)
    BY <1>5
  <1> HIDE DEF end
  <1>9. /\ Paginate(list, cursor, limit).items = SubSeq(list, start + 1, end)
        /\ Paginate(list, cursor, limit).next = IF end < n THEN list[end] ELSE <<>>
    <2>1. Paginate(list, cursor, limit).items = SubSeq(list, start + 1, end)
      <3>1. PICK items : items = SubSeq(list, start + 1, end)
        OBVIOUS
      <3>2. Paginate(list, cursor, limit) =
               [items |-> items, next |-> IF start < n /\ end < n THEN list[end] ELSE <<>>]
        BY <1>3, <3>1
      <3>3. Paginate(list, cursor, limit).items = items
        BY <3>2
      <3>4. QED
        BY <3>1, <3>3, Zenon
    <2>2. Paginate(list, cursor, limit).next = IF start < n /\ end < n THEN list[end] ELSE <<>>
      BY <1>3
    <2>3. QED
      BY <1>8, <2>1, <2>2
  <1>10. \E i \in 0..n : \E j \in i..n :
            /\ Paginate(list, cursor, limit).items = SubSeq(list, i + 1, j)
            /\ Paginate(list, cursor, limit).next = IF j < n THEN list[j] ELSE <<>>
            /\ i < n => i < j
            /\ \A k \in 1..i : cursor # <<>> /\ ~Less(cursor, list[k])
            /\ cursor # <<>> => \A k \in (i + 1)..n :
                                   ~Less(list[k], cursor) /\ (Strict(list) => Less(cursor, list[k]))
    <2> USE <1>5, <1>8
    <2>1. WITNESS start \in 0..n
    <2>2. WITNESS end \in start..n
    <2>3. QED
      BY <1>6, <1>7, <1>8, <1>9
  <1>11. QED
    BY <1>2, <1>10

(* What lies between two places of a list. *)
LEMMA SubSeqMembers ==
    ASSUME NEW list \in Seq(Strings), NEW a \in Nat \ {0}, NEW b \in Nat, b <= Len(list)
    PROVE  /\ SubSeq(list, a, b) \in Seq(Strings)
           /\ ToSet(SubSeq(list, a, b)) = {list[i] : i \in a..b}
           /\ Strict(list) => Strict(SubSeq(list, a, b))
           /\ Ascending(list) => Ascending(SubSeq(list, a, b))
  <1>1. Len(list) \in Nat /\ \A i \in 1..Len(list) : list[i] \in Strings
    BY LenProperties, ElementOfSeq
  <1>2. \A i \in a..b : i \in 1..Len(list) /\ list[i] \in Strings
    BY <1>1
  <1>3. /\ SubSeq(list, a, b) \in Seq(Strings)
        /\ Len(SubSeq(list, a, b)) = IF a <= b THEN b - a + 1 ELSE 0
        /\ \A i \in 1..(b - a + 1) : SubSeq(list, a, b)[i] = list[a + i - 1]
    BY <1>2, SubSeqProperties
  <1>4. PICK part : part = SubSeq(list, a, b)
    OBVIOUS
  <1>5. /\ part \in Seq(Strings) /\ DOMAIN part = 1..Len(part) /\ Len(part) \in Nat
        /\ Len(part) = IF a <= b THEN b - a + 1 ELSE 0
        /\ \A i \in 1..(b - a + 1) : part[i] = list[a + i - 1]
    BY <1>3, <1>4, LenProperties
  <1>6. \A i \in 1..Len(part) : a + i - 1 \in a..b /\ part[i] = list[a + i - 1]
    BY <1>5
  <1>7. \A i \in a..b : i - a + 1 \in 1..Len(part) /\ part[i - a + 1] = list[i]
    BY <1>5
  <1>8. ToSet(part) = {list[i] : i \in a..b}
    <2>1. ToSet(part) = {part[i] : i \in 1..Len(part)}
      BY <1>5 DEF ToSet
    <2>2. ASSUME NEW i \in 1..Len(part)
          PROVE  part[i] \in {list[j] : j \in a..b}
      BY <1>6
    <2>3. ASSUME NEW j \in a..b
          PROVE  list[j] \in {part[i] : i \in 1..Len(part)}
      <3>1. PICK i \in 1..Len(part) : part[i] = list[j]
        BY <1>7
      <3>2. QED
        BY <3>1
    <2>4. QED
      BY <2>1, <2>2, <2>3
  <1>9. (Strict(list) => Strict(part)) /\ (Ascending(list) => Ascending(part))
    <2>1. \A i, j \in 1..Len(part) : i < j =>
             a + i - 1 \in 1..Len(list) /\ a + j - 1 \in 1..Len(list) /\ a + i - 1 < a + j - 1
      BY <1>2, <1>5, <1>6
    <2>2. QED
      BY <1>6, <2>1 DEF Strict, Ascending
  <1>10. QED
    BY <1>4, <1>5, <1>8, <1>9

(* What a page has in it, between the cursor it was asked with and the next one. *)
IsPage(list, cursor, items, next) ==
    /\ items \subseteq ToSet(list) /\ next \in Strings
    /\ \A x \in ToSet(list) : \/ x \in items
                              \/ cursor # <<>> /\ ~Less(cursor, x)
                              \/ next # <<>> /\ Less(next, x)
    /\ next # <<>> => next \in items
    /\ \A x \in items : next # <<>> => ~Less(next, x)
    /\ \A x \in items : cursor # <<>> => ~Less(x, cursor) /\ (Strict(list) => Less(cursor, x))

(* paginate returns all of a sorted list that lies behind the cursor and not behind the     *)
(* next one, whether or not the string the cursor names is still listed.                   *)
THEOREM PageMembers ==
    ASSUME NEW list \in Seq(Strings), Ascending(list), <<>> \notin ToSet(list),
           NEW cursor \in Strings, NEW limit \in Nat \ {0},
           NEW items, items = ToSet(Paginate(list, cursor, limit).items),
           NEW next, next = Paginate(list, cursor, limit).next
    PROVE  /\ IsPage(list, cursor, items, next)
           /\ Strict(list) => Cardinality(items) = Len(Paginate(list, cursor, limit).items)
  <1>1. /\ Len(list) \in Nat /\ DOMAIN list = 1..Len(list)
        /\ \A i \in 1..Len(list) : list[i] \in Strings
    BY LenProperties, ElementOfSeq
  <1>2. PICK n \in Nat : n = Len(list)
    BY <1>1
  <1>3. PICK start \in 0..n, end \in 0..n :
              /\ start <= end
              /\ Paginate(list, cursor, limit).items = SubSeq(list, start + 1, end)
              /\ next = IF end < n THEN list[end] ELSE <<>>
              /\ start < n => start < end
              /\ \A i \in 1..start : cursor # <<>> /\ ~Less(cursor, list[i])
              /\ cursor # <<>> => \A i \in (start + 1)..n :
                                     ~Less(list[i], cursor) /\ (Strict(list) => Less(cursor, list[i]))
    <2>1. PICK start \in 0..n : \E end \in start..n :
              /\ Paginate(list, cursor, limit).items = SubSeq(list, start + 1, end)
              /\ Paginate(list, cursor, limit).next = IF end < n THEN list[end] ELSE <<>>
              /\ start < n => start < end
              /\ \A i \in 1..start : cursor # <<>> /\ ~Less(cursor, list[i])
              /\ cursor # <<>> => \A i \in (start + 1)..n :
                                     ~Less(list[i], cursor) /\ (Strict(list) => Less(cursor, list[i]))
      BY <1>2, PageParts
    <2>2. PICK end \in start..n :
              /\ Paginate(list, cursor, limit).items = SubSeq(list, start + 1, end)
              /\ Paginate(list, cursor, limit).next = IF end < n THEN list[end] ELSE <<>>
              /\ start < n => start < end
              /\ \A i \in 1..start : cursor # <<>> /\ ~Less(cursor, list[i])
              /\ cursor # <<>> => \A i \in (start + 1)..n :
                                     ~Less(list[i], cursor) /\ (Strict(list) => Less(cursor, list[i]))
      BY <2>1
    <2>3. end \in 0..n /\ start <= end
      OBVIOUS
    <2>4. QED
      BY <2>2, <2>3
  <1>4. /\ items = {list[i] : i \in (start + 1)..end}
        /\ Strict(list) => Strict(SubSeq(list, start + 1, end))
        /\ SubSeq(list, start + 1, end) \in Seq(Strings)
    <2>1. start + 1 \in Nat \ {0} /\ end <= Len(list)
      BY <1>2
    <2>2. QED
      BY <1>3, <2>1, SubSeqMembers
  <1>5. ToSet(list) = {list[i] : i \in 1..n}
    BY <1>1, <1>2 DEF ToSet
  <1>6. next # <<>> <=> end < n
    BY <1>1, <1>2, <1>3, <1>5
  <1>7. items \subseteq ToSet(list) /\ next \in Strings
    BY <1>1, <1>2, <1>3, <1>4, <1>5, EmptySeq DEF Strings
  <1>8. \A x \in ToSet(list) : \/ x \in items
                               \/ cursor # <<>> /\ ~Less(cursor, x)
                               \/ next # <<>> /\ Less(next, x)
    <2>1. SUFFICES ASSUME NEW i \in 1..n, i > end, list[i] \notin items
                   PROVE  next # <<>> /\ Less(next, list[i])
      BY <1>3, <1>4, <1>5
    <2>2. next # <<>> /\ next = list[end] /\ end \in (start + 1)..end /\ end \in 1..n
      BY <1>3, <1>6, <2>1
    <2>3. ~Less(list[i], list[end]) /\ list[end] # list[i]
      BY <1>2, <1>4, <2>1, <2>2 DEF Ascending
    <2>4. QED
      BY <1>1, <1>2, <2>2, <2>3, LessTotal
  <1>9. next # <<>> => next \in items /\ \A x \in items : ~Less(next, x)
    <2>1. SUFFICES ASSUME next # <<>> PROVE next \in items /\ \A x \in items : ~Less(next, x)
      OBVIOUS
    <2>2. next = list[end] /\ end \in (start + 1)..end /\ end \in 1..n
      BY <1>3, <1>6, <2>1
    <2>3. ASSUME NEW i \in (start + 1)..end
          PROVE  ~Less(next, list[i])
      <3>1. i \in 1..n /\ (i = end \/ i < end)
        OBVIOUS
      <3>2. QED
        BY <1>1, <1>2, <2>2, <3>1, LessIrreflexive DEF Ascending
    <2>4. QED
      BY <1>4, <2>2, <2>3
  <1>10. cursor # <<>> => \A x \in items : ~Less(x, cursor) /\ (Strict(list) => Less(cursor, x))
    BY <1>3, <1>4
  <1>11. Strict(list) => Cardinality(items) = Len(Paginate(list, cursor, limit).items)
    BY <1>3, <1>4, StrictSingle, Zenon
  <1>12. QED
    BY <1>7, <1>8, <1>9, <1>10, <1>11 DEF IsPage

-----------------------------------------------------------------------------
(* Lists made of sets. *)

(* The members of a finite set can be put in any total order of theirs. *)
LEMMA RankedOrders ==
    ASSUME NEW S, IsFiniteSet(S), NEW order,
           \A x \in S : <<x, x>> \notin order,
           \A x, y, z \in S : <<x, y>> \in order /\ <<y, z>> \in order => <<x, z>> \in order,
           \A x, y \in S : x # y => <<x, y>> \in order \/ <<y, x>> \in order
    PROVE  /\ Cardinality(S) \in Nat
           /\ Ranked(S, order) \in [1..Cardinality(S) -> S]
           /\ \A i, j \in 1..Cardinality(S) :
                 i < j => <<Ranked(S, order)[i], Ranked(S, order)[j]>> \in order
           /\ \A x \in S : \E i \in 1..Cardinality(S) : Ranked(S, order)[i] = x
  <1> DEFINE below(x) == {y \in S : <<y, x>> \in order}
             rank     == [x \in S |-> Cardinality(below(x)) + 1]
  <1>1. PICK n \in Nat : n = Cardinality(S)
    BY FS_CardinalityType
  <1>2. \A x \in S : /\ IsFiniteSet(below(x)) /\ Cardinality(below(x)) \in Nat
                     /\ Cardinality(below(x)) < n
    <2>1. TAKE x \in S
    <2>2. below(x) \subseteq S /\ x \in S \ below(x)
      OBVIOUS
    <2> HIDE DEF below
    <2>3. IsFiniteSet(below(x)) /\ Cardinality(below(x)) \in Nat
          /\ Cardinality(below(x)) <= n /\ (Cardinality(below(x)) = n => S = below(x))
      BY <1>1, <2>2, FS_Subset, FS_CardinalityType
    <2>4. QED
      BY <2>2, <2>3
  <1>3. \A x, y \in S : <<x, y>> \in order => Cardinality(below(x)) < Cardinality(below(y))
    <2>1. SUFFICES ASSUME NEW x \in S, NEW y \in S, <<x, y>> \in order
                   PROVE  Cardinality(below(x)) < Cardinality(below(y))
      OBVIOUS
    <2>2. below(x) \subseteq below(y) /\ x \in below(y) /\ x \notin below(x)
      BY <2>1
    <2>3. IsFiniteSet(below(y)) /\ Cardinality(below(y)) \in Nat /\ Cardinality(below(x)) \in Nat
      BY <1>2
    <2> HIDE DEF below
    <2>4. Cardinality(below(x)) <= Cardinality(below(y))
          /\ (Cardinality(below(x)) = Cardinality(below(y)) => below(y) = below(x))
      BY <2>2, <2>3, FS_Subset
    <2>5. QED
      BY <2>2, <2>3, <2>4
  <1>4. rank \in [S -> 1..n]
    <2> HIDE DEF below
    <2>1. \A x \in S : Cardinality(below(x)) + 1 \in 1..n
      BY <1>2
    <2>2. QED
      BY <2>1
  <1>5. \A x, y \in S : rank[x] = rank[y] => x = y
    <2> HIDE DEF below
    <2>1. ASSUME NEW x \in S, NEW y \in S, x # y
          PROVE  Cardinality(below(x)) # Cardinality(below(y))
      <3>1. Cardinality(below(x)) < Cardinality(below(y)) \/ Cardinality(below(y)) < Cardinality(below(x))
        BY <1>3, <2>1
      <3>2. QED
        BY <1>2, <3>1
    <2>2. QED
      BY <1>2, <2>1
  <1>6. \A i \in 1..n : \E x \in S : rank[x] = i
    <2> HIDE DEF rank
    <2>1. rank \in Injection(S, 1..n)
      BY <1>4, <1>5 DEF Injection, IsInjective
    <2>2. IsFiniteSet(1..n) /\ Cardinality(1..n) = n
      BY PlacesFinite
    <2>3. rank \in Surjection(S, 1..n)
      BY <1>1, <2>1, <2>2, FS_Injection
    <2>4. QED
      BY <2>3 DEF Surjection
  <1>7. \A i \in 1..n : Ranked(S, order)[i] \in S /\ rank[Ranked(S, order)[i]] = i
    <2>1. TAKE i \in 1..n
    <2>2. Ranked(S, order)[i] = CHOOSE x \in S : Cardinality(below(x)) = i - 1
      BY <1>1 DEF Ranked
    <2> HIDE DEF below
    <2>3. PICK x \in S : rank[x] = i
      BY <1>6
    <2>4. Cardinality(below(x)) = i - 1
      BY <1>2, <2>3
    <2>5. Ranked(S, order)[i] \in S /\ Cardinality(below(Ranked(S, order)[i])) = i - 1
      BY <2>2, <2>4
    <2>6. QED
      BY <2>5
  <1>8. \A i, j \in 1..n : i < j => <<Ranked(S, order)[i], Ranked(S, order)[j]>> \in order
    <2>1. SUFFICES ASSUME NEW i \in 1..n, NEW j \in 1..n, i < j
                   PROVE  <<Ranked(S, order)[i], Ranked(S, order)[j]>> \in order
      OBVIOUS
    <2>2. PICK x \in S : x = Ranked(S, order)[i] /\ rank[x] = i
      BY <1>7
    <2>3. PICK y \in S : y = Ranked(S, order)[j] /\ rank[y] = j
      BY <1>7
    <2> HIDE DEF below
    <2>4. Cardinality(below(x)) < Cardinality(below(y))
      BY <1>2, <2>1, <2>2, <2>3
    <2>5. x # y /\ <<y, x>> \notin order
      BY <1>2, <1>3, <2>4
    <2>6. QED
      BY <2>2, <2>3, <2>5
  <1>9. \A x \in S : \E i \in 1..n : Ranked(S, order)[i] = x
    <2> HIDE DEF rank
    <2>1. TAKE x \in S
    <2>2. rank[x] \in 1..n
      BY <1>4
    <2>3. Ranked(S, order)[rank[x]] = x
      BY <1>5, <1>7, <2>2
    <2>4. QED
      BY <2>2, <2>3
  <1>10. Ranked(S, order) \in [1..n -> S]
    <2>1. \A i \in 1..n : Ranked(S, order)[i] \in S
      BY <1>7
    <2> DEFINE Member(i) == CHOOSE x \in S : Cardinality({y \in S : <<y, x>> \in order}) = i - 1
    <2>2. Ranked(S, order) = [i \in 1..n |-> Member(i)]
      BY <1>1 DEF Ranked
    <2> HIDE DEF Member
    <2>3. \A i \in 1..n : Member(i) \in S
      BY <2>1, <2>2
    <2>4. QED
      BY <2>2, <2>3
  <1>11. QED
    BY <1>1, <1>8, <1>9, <1>10

(* Sorted returns the members of the set, each once, in Go's order. *)
LEMMA SortedSorts ==
    ASSUME NEW S \in SUBSET Strings, IsFiniteSet(S)
    PROVE  Sorted(S) \in Seq(Strings) /\ Strict(Sorted(S)) /\ ToSet(Sorted(S)) = S
  <1> DEFINE order == {p \in S \X S : Less(p[1], p[2])}
  <1>1. \A x, y \in S : <<x, y>> \in order <=> Less(x, y)
    OBVIOUS
  <1>2. \A x, y, z \in S : Less(x, y) /\ Less(y, z) => Less(x, z)
    BY LessTransitive
  <1>3. /\ \A x \in S : ~Less(x, x)
        /\ \A x, y \in S : x # y => Less(x, y) \/ Less(y, x)
    BY LessIrreflexive, LessTotal
  <1>4. Sorted(S) = Ranked(S, order)
    BY DEF Sorted
  <1> HIDE DEF order
  <1>5. PICK n \in Nat : n = Cardinality(S)
    BY FS_CardinalityType
  <1>6. /\ Ranked(S, order) \in [1..n -> S]
        /\ \A i, j \in 1..n : i < j => <<Ranked(S, order)[i], Ranked(S, order)[j]>> \in order
        /\ \A x \in S : \E i \in 1..n : Ranked(S, order)[i] = x
    BY <1>1, <1>2, <1>3, <1>5, RankedOrders
  <1>7. PICK list : list = Sorted(S)
    OBVIOUS
  <1>8. /\ list \in [1..n -> S]
        /\ \A i, j \in 1..n : i < j => Less(list[i], list[j])
        /\ \A x \in S : \E i \in 1..n : list[i] = x
    <2>1. \A i \in 1..n : list[i] \in S
      BY <1>4, <1>6, <1>7
    <2>2. QED
      BY <1>1, <1>4, <1>6, <1>7, <2>1
  <1>9. list \in Seq(Strings) /\ Len(list) = n /\ DOMAIN list = 1..n
    BY <1>8
  <1>10. ToSet(list) = S
    BY <1>8, <1>9 DEF ToSet
  <1>11. QED
    BY <1>7, <1>8, <1>9, <1>10 DEF Strict

-----------------------------------------------------------------------------
(* Filters. *)

(* The first k letters of the pattern, one after another among the first j of s. *)
Embeds(s, pattern, k, j) ==
    \E at \in [1..k -> 1..j] :
       \A a, b \in 1..k : s[at[a]] = pattern[a] /\ (a < b => at[a] < at[b])

LEMMA EmbedsGrows ==
    ASSUME NEW s, NEW pattern, NEW j \in Nat, NEW k \in Nat
    PROVE  /\ Embeds(s, pattern, 0, j)
           /\ Embeds(s, pattern, k, j) => Embeds(s, pattern, k, j + 1)
           /\ Embeds(s, pattern, k, j) /\ s[j + 1] = pattern[k + 1]
                 => Embeds(s, pattern, k + 1, j + 1)
  <1>1. Embeds(s, pattern, 0, j)
    <2>1. [i \in 1..0 |-> 1] \in [1..0 -> 1..j]
      OBVIOUS
    <2>2. \A a, b \in 1..0 : FALSE
      OBVIOUS
    <2>3. QED
      BY <2>1, <2>2 DEF Embeds
  <1>2. ASSUME Embeds(s, pattern, k, j)
        PROVE  Embeds(s, pattern, k, j + 1)
    <2>1. PICK at \in [1..k -> 1..j] :
             \A a, b \in 1..k : s[at[a]] = pattern[a] /\ (a < b => at[a] < at[b])
      BY <1>2 DEF Embeds
    <2>2. at \in [1..k -> 1..(j + 1)]
      OBVIOUS
    <2>3. QED
      BY <2>1, <2>2 DEF Embeds
  <1>3. ASSUME Embeds(s, pattern, k, j), s[j + 1] = pattern[k + 1]
        PROVE  Embeds(s, pattern, k + 1, j + 1)
    <2>1. PICK at \in [1..k -> 1..j] :
             \A a, b \in 1..k : s[at[a]] = pattern[a] /\ (a < b => at[a] < at[b])
      BY <1>3 DEF Embeds
    <2> DEFINE more == [i \in 1..(k + 1) |-> IF i = k + 1 THEN j + 1 ELSE at[i]]
    <2>2. more \in [1..(k + 1) -> 1..(j + 1)]
      OBVIOUS
    <2>3. \A a \in 1..(k + 1) : a = k + 1 \/ a \in 1..k
      OBVIOUS
    <2>4. \A a \in 1..k : more[a] = at[a] /\ at[a] < j + 1
      OBVIOUS
    <2>5. more[k + 1] = j + 1 /\ \A a \in 1..(k + 1) : ~(k + 1 < a)
      OBVIOUS
    <2> HIDE DEF more
    <2>6. \A a, b \in 1..(k + 1) : s[more[a]] = pattern[a] /\ (a < b => more[a] < more[b])
      BY <1>3, <2>1, <2>3, <2>4, <2>5
    <2>7. QED
      BY <2>2, <2>6 DEF Embeds
  <1>4. QED
    BY <1>1, <1>2, <1>3

LEMMA EmbedsShrinks ==
    ASSUME NEW s, NEW pattern, NEW j \in Nat, NEW k \in Nat,
           Embeds(s, pattern, k + 1, j + 1)
    PROVE  /\ Embeds(s, pattern, k, j)
           /\ s[j + 1] # pattern[k + 1] => Embeds(s, pattern, k + 1, j)
  <1>1. PICK at \in [1..(k + 1) -> 1..(j + 1)] :
           \A a, b \in 1..(k + 1) : s[at[a]] = pattern[a] /\ (a < b => at[a] < at[b])
    BY DEF Embeds
  <1>2. k + 1 \in 1..(k + 1) /\ at[k + 1] \in 1..(j + 1)
        /\ \A a \in 1..k : a \in 1..(k + 1) /\ a < k + 1 /\ at[a] \in 1..(j + 1)
    OBVIOUS
  <1>3. \A a \in 1..k : at[a] \in 1..j
    BY <1>1, <1>2
  <1>4. Embeds(s, pattern, k, j)
    <2> DEFINE less == [i \in 1..k |-> at[i]]
    <2>1. less \in [1..k -> 1..j]
      BY <1>3
    <2>2. \A a, b \in 1..k : s[less[a]] = pattern[a] /\ (a < b => less[a] < less[b])
      BY <1>1, <1>2
    <2> HIDE DEF less
    <2>3. QED
      BY <2>1, <2>2 DEF Embeds
  <1>5. ASSUME s[j + 1] # pattern[k + 1]
        PROVE  Embeds(s, pattern, k + 1, j)
    <2>1. at[k + 1] \in 1..j
      BY <1>1, <1>2, <1>5
    <2>2. \A a \in 1..(k + 1) : a = k + 1 \/ a \in 1..k
      OBVIOUS
    <2>3. at \in [1..(k + 1) -> 1..j]
      BY <1>3, <2>1, <2>2
    <2>4. QED
      BY <1>1, <2>3 DEF Embeds
  <1>6. QED
    BY <1>4, <1>5

(* The fuzzy filter lets through what has the pattern as a subsequence: the greedy scan    *)
(* has, up to every place, found as much of the pattern as can be found there.            *)
LEMMA SubseqMatches ==
    ASSUME NEW s \in Strings, NEW pattern \in Strings
    PROVE  SubseqMatch(s, pattern) <=>
              \E at \in [DOMAIN pattern -> DOMAIN s] :
                 \A i, j \in DOMAIN pattern :
                    s[at[i]] = pattern[i] /\ (i < j => at[i] < at[j])
  <1>1. /\ Len(s) \in Nat /\ Len(pattern) \in Nat
        /\ DOMAIN s = 1..Len(s) /\ DOMAIN pattern = 1..Len(pattern)
    BY LenProperties DEF Strings
  <1>2. PICK n \in Nat : n = Len(s)
    BY <1>1
  <1>3. PICK m \in Nat : m = Len(pattern)
    BY <1>1
  <1> DEFINE Onto(i, j) == IF i < m /\ s[j] = pattern[i + 1] THEN i + 1 ELSE i
             Body(f, j) == IF j = 0 THEN 0 ELSE Onto(f[j - 1], j)
             after      == CHOOSE f : f = [j \in 0..n |-> Body(f, j)]
             Far        == {l \in Nat : ~ \E f : f = [j \in 0..l |-> Body(f, j)]}
  <1>4. \E f : f = [j \in 0..n |-> Body(f, j)]
    <2>1. SUFFICES ASSUME n \in Far PROVE FALSE
      OBVIOUS
    <2>2. PICK l \in Far : \A k \in Far : l <= k
      <3>1. Far \subseteq Nat
        OBVIOUS
      <3> HIDE DEF Far
      <3>2. QED
        BY <2>1, <3>1, LeastNumber
    <2>3. l \in Nat /\ \A f : f # [j \in 0..l |-> Body(f, j)]
      OBVIOUS
    <2>4. l # 0
      <3>1. SUFFICES ASSUME l = 0 PROVE FALSE
        OBVIOUS
      <3> DEFINE zero == [j \in 0..l |-> 0]
      <3>2. \A j \in 0..l : Body(zero, j) = 0
        BY <3>1
      <3> HIDE DEF Body
      <3>3. zero = [j \in 0..l |-> Body(zero, j)]
        BY <3>2
      <3>4. QED
        BY <2>3, <3>3
    <2>5. l - 1 \in Nat /\ l - 1 \notin Far
      <3> HIDE DEF Far
      <3>1. QED
        BY <2>2, <2>3, <2>4
    <2>6. PICK f : f = [j \in 0..(l - 1) |-> Body(f, j)]
      BY <2>5
    <2> DEFINE longer == [j \in 0..l |-> IF j = l THEN Onto(f[l - 1], l) ELSE f[j]]
    <2> HIDE DEF Onto
    <2>7. \A j \in 0..(l - 1) : f[j] = Body(f, j)
      <3> HIDE DEF Body
      <3>1. QED
        BY <2>6
    <2>8. ASSUME NEW j \in 0..l
          PROVE  longer[j] = Body(longer, j)
      <3>1. CASE j = 0
        <4>1. longer[j] = f[j] /\ f[j] = 0
          BY <2>3, <2>4, <2>7, <3>1
        <4>2. QED
          BY <3>1, <4>1
      <3>2. CASE j # 0 /\ j # l
        <4>1. j \in 0..(l - 1) /\ j - 1 \in 0..l /\ j - 1 # l
          BY <2>3, <3>2
        <4>2. longer[j] = f[j] /\ longer[j - 1] = f[j - 1]
          BY <3>2, <4>1
        <4>3. f[j] = Onto(f[j - 1], j)
          BY <2>7, <3>2, <4>1
        <4> HIDE DEF longer
        <4>4. QED
          BY <3>2, <4>2, <4>3
      <3>3. CASE j = l
        <4>1. l - 1 \in 0..l /\ l - 1 # l /\ l \in 0..l
          BY <2>3, <2>4
        <4>2. longer[l] = Onto(f[l - 1], l) /\ longer[l - 1] = f[l - 1]
          BY <4>1
        <4> HIDE DEF longer
        <4>3. QED
          BY <2>4, <3>3, <4>2
      <3>4. QED
        BY <3>1, <3>2, <3>3
    <2>9. longer = [j \in 0..l |-> Body(longer, j)]
      <3> HIDE DEF Body
      <3>1. QED
        BY <2>8
    <2>10. QED
      BY <2>3, <2>9
  <1>5. after = [j \in 0..n |-> Body(after, j)]
    <2> HIDE DEF Body
    <2>1. QED
      BY <1>4
  <1>6. SubseqMatch(s, pattern) <=> after[n] = m
    BY <1>2, <1>3 DEF SubseqMatch
  <1>7. \A j \in 0..n : after[j] = Body(after, j)
    <2> HIDE DEF Body, after
    <2>1. QED
      BY <1>5
  <1> HIDE DEF after
  <1>8. after[0] = 0 /\ \A j \in 0..(n - 1) : after[j + 1] = Onto(after[j], j + 1)
    <2> HIDE DEF Onto
    <2>1. \A j \in 0..(n - 1) : j + 1 \in 0..n /\ j + 1 # 0 /\ j + 1 - 1 = j
      OBVIOUS
    <2>2. QED
      BY <1>7, <2>1
  <1> HIDE DEF Body, Far
  <1> DEFINE Best(j) == /\ after[j] \in 0..m
                        /\ Embeds(s, pattern, after[j], j)
                        /\ \A k \in 0..m : after[j] < k => ~Embeds(s, pattern, k, j)
             Worse   == {j \in 0..n : ~Best(j)}
  <1>9. Best(0)
    <2>1. \A k \in 0..m : 0 < k => ~Embeds(s, pattern, k, 0)
      <3>1. SUFFICES ASSUME NEW k \in 0..m, 0 < k, NEW at \in [1..k -> 1..0] PROVE FALSE
        BY DEF Embeds
      <3>2. at[1] \in 1..0
        BY <3>1
      <3>3. QED
        BY <3>2
    <2>2. Embeds(s, pattern, 0, 0)
      BY EmbedsGrows
    <2>3. QED
      BY <1>8, <2>1, <2>2
  <1>10. ASSUME NEW j \in 0..(n - 1), Best(j)
         PROVE  Best(j + 1)
    <2>1. PICK k \in 0..m : k = after[j]
      BY <1>10
    <2>2. /\ Embeds(s, pattern, k, j) /\ j \in Nat /\ after[j + 1] = Onto(k, j + 1)
          /\ \A l \in 0..m : k < l => ~Embeds(s, pattern, l, j)
      BY <1>8, <1>10, <2>1
    <2>3. \A l \in 0..m : k + 1 < l => ~Embeds(s, pattern, l, j + 1)
      <3>1. SUFFICES ASSUME NEW l \in 0..m, k + 1 < l, Embeds(s, pattern, l, j + 1)
                     PROVE  FALSE
        OBVIOUS
      <3>2. PICK i \in Nat : l = i + 1
        BY <3>1, l - 1 \in Nat, l = l - 1 + 1
      <3>3. Embeds(s, pattern, i, j)
        BY <2>2, <3>1, <3>2, EmbedsShrinks
      <3>4. i \in 0..m /\ k < i
        BY <3>1, <3>2
      <3>5. QED
        BY <2>2, <3>3, <3>4
    <2>4. CASE k < m /\ s[j + 1] = pattern[k + 1]
      <3>1. after[j + 1] = k + 1 /\ k + 1 \in 0..m
        BY <2>2, <2>4
      <3>2. Embeds(s, pattern, k + 1, j + 1)
        BY <2>2, <2>4, EmbedsGrows
      <3> HIDE DEF Onto
      <3>3. QED
        BY <2>3, <3>1, <3>2
    <2>5. CASE ~(k < m /\ s[j + 1] = pattern[k + 1])
      <3>1. after[j + 1] = k
        BY <2>2, <2>5
      <3>2. Embeds(s, pattern, k, j + 1)
        BY <2>2, EmbedsGrows
      <3>3. k + 1 \in 0..m => ~Embeds(s, pattern, k + 1, j + 1)
        <4>1. SUFFICES ASSUME k + 1 \in 0..m, Embeds(s, pattern, k + 1, j + 1) PROVE FALSE
          OBVIOUS
        <4>2. s[j + 1] # pattern[k + 1]
          BY <2>5, <4>1
        <4>3. Embeds(s, pattern, k + 1, j)
          BY <2>2, <4>1, <4>2, EmbedsShrinks
        <4>4. QED
          BY <2>2, <4>1, <4>3
      <3> HIDE DEF Onto
      <3>4. \A l \in 0..m : k < l => l = k + 1 \/ k + 1 < l
        OBVIOUS
      <3>5. QED
        BY <2>3, <3>1, <3>2, <3>3, <3>4
    <2>6. QED
      BY <2>4, <2>5
  <1> HIDE DEF Best, Onto
  <1>11. Worse = {}
    <2>1. SUFFICES ASSUME Worse # {} PROVE FALSE
      OBVIOUS
    <2>2. PICK j \in Worse : \A i \in Worse : j <= i
      <3>1. Worse \subseteq Nat
        OBVIOUS
      <3> HIDE DEF Worse
      <3>2. QED
        BY <2>1, <3>1, LeastNumber
    <2>3. j # 0 /\ j - 1 \in 0..(n - 1) /\ j - 1 + 1 = j
      BY <1>9
    <2>4. Best(j - 1)
      BY <2>2, <2>3
    <2>5. Best(j)
      BY <1>10, <2>3, <2>4
    <2>6. QED
      BY <2>5
  <1>12. Best(n)
    BY <1>11
  <1>13. after[n] = m <=> Embeds(s, pattern, m, n)
    BY <1>12 DEF Best
  <1>14. QED
    BY <1>1, <1>2, <1>3, <1>6, <1>13 DEF Embeds
(* What comes before a string does not begin with it, and what comes after it and does not *)
(* either is followed by nothing that does.                                               *)
LEMMA PrefixesTogether ==
    ASSUME NEW p \in Strings, NEW x \in Strings
    PROVE  /\ Less(x, p) => ~IsPrefix(p, x)
           /\ \A y \in Strings : ~Less(x, p) /\ ~IsPrefix(p, x) /\ ~Less(y, x) => ~IsPrefix(p, y)
  <1>1. /\ Len(p) \in Nat /\ Len(x) \in Nat
        /\ \A i \in 1..Len(p) : p[i] \in Nat
        /\ \A i \in 1..Len(x) : x[i] \in Nat
    BY LenProperties DEF Strings
  <1>2. ASSUME Less(x, p), IsPrefix(p, x)
        PROVE  FALSE
    <2>1. p = x \/ Less(p, x)
      BY <1>2 DEF Less, IsStrictPrefix
    <2>2. QED
      BY <1>2, <2>1, LessIrreflexive, LessAsymmetric
  <1>3. ASSUME NEW y \in Strings, ~Less(x, p), ~IsPrefix(p, x), ~Less(y, x), IsPrefix(p, y)
        PROVE  FALSE
    <2>1. Len(y) \in Nat /\ Len(p) <= Len(y) /\ \A i \in 1..Len(p) : p[i] = y[i]
      BY <1>3, PrefixAgrees, LenProperties DEF Strings
    <2>2. p # x
      BY <1>1, <1>3, PrefixAgrees
    <2>3. PICK i \in Nat : PartAt(p, x, i)
      BY <1>3, <2>2, LessTotal, LessParts
    <2>4. i <= Len(p)
      <3>1. SUFFICES ASSUME ~(i <= Len(p)) PROVE FALSE
        OBVIOUS
      <3>2. i = Len(p) + 1
        BY <1>1, <2>3, <3>1 DEF PartAt
      <3>3. Len(p) <= Len(x) /\ \A j \in 1..Len(p) : p[j] = x[j]
        BY <1>1, <2>3, <3>2 DEF PartAt
      <3>4. QED
        BY <1>3, <3>3, PrefixAgrees
    <2>5. PartAt(y, x, i)
      BY <1>1, <2>1, <2>3, <2>4 DEF PartAt
    <2>6. QED
      BY <1>3, <2>5, LessParts
  <1>4. QED
    BY <1>2, <1>3

(* The bounds that the startswith filter searches for. *)
Bounds(list, p, n, lo, hi) ==
    /\ lo \in 0..n /\ hi \in 0..n
    /\ \A i \in 1..n : i \in (lo + 1)..hi <=> IsPrefix(p, list[i])

LEMMA StartswithBounds ==
    ASSUME NEW list \in Seq(Strings), Ascending(list), NEW p \in Strings,
           NEW n \in Nat, n = Len(list),
           NEW lo, lo = SearchStrings(list, p),
           NEW passed, \A j \in 0..(n - lo - 1) : j \in passed <=> ~IsPrefix(p, list[lo + j + 1]),
           NEW hi, hi = lo + Search(n - lo, passed)
    PROVE  Bounds(list, p, n, lo, hi)
  <1>1. Len(list) \in Nat /\ \A i \in 1..Len(list) : list[i] \in Strings
    BY LenProperties, ElementOfSeq
  <1>2. n = Len(list)
    OBVIOUS
  <1>3. lo \in 0..n /\ \A i \in 1..n : Less(list[i], p) <=> i <= lo
    BY <1>2, SearchStringsFinds
  <1>4. PICK m \in Nat : m = n - lo
    BY <1>3
  <1>5. \A j \in 0..(m - 1) : j \in passed <=> ~IsPrefix(p, list[lo + j + 1])
    BY <1>2, <1>4
  <1>6. Monotone(m, passed)
    <2>1. SUFFICES ASSUME NEW i \in 0..(m - 1), NEW j \in 0..(m - 1), i < j,
                          ~IsPrefix(p, list[lo + i + 1])
                   PROVE  ~IsPrefix(p, list[lo + j + 1])
      BY <1>5 DEF Monotone
    <2>2. /\ lo + i + 1 \in 1..n /\ lo + j + 1 \in 1..n /\ lo + i + 1 < lo + j + 1
          /\ ~(lo + i + 1 <= lo)
      <3>1. lo \in Nat /\ lo + m = n
        BY <1>3, <1>4
      <3>2. i \in Nat /\ j \in Nat /\ i < m /\ j < m
        OBVIOUS
      <3>3. ASSUME NEW a \in Nat, NEW k \in Nat, NEW l \in Nat, k < m, l < m, a + m = n, k < l
            PROVE  /\ a + k + 1 \in 1..n /\ a + l + 1 \in 1..n /\ a + k + 1 < a + l + 1
                   /\ ~(a + k + 1 <= a)
        BY <3>3
      <3>4. QED
        BY <2>1, <3>1, <3>2, <3>3
    <2>3. ~Less(list[lo + i + 1], p) /\ ~Less(list[lo + j + 1], list[lo + i + 1])
      BY <1>2, <1>3, <2>2 DEF Ascending
    <2>4. QED
      BY <1>1, <1>2, <2>1, <2>2, <2>3, PrefixesTogether
  <1>7. PICK q \in 0..m : \A i \in 0..(m - 1) : i \in passed <=> q <= i
    BY <1>6, FirstPassed
  <1>8. hi = lo + q
    <2>1. Search(m, passed) = q
      BY <1>7, SearchFinds
    <2>2. QED
      BY <1>2, <1>4, <2>1
  <1>9. ASSUME NEW i \in 1..n
        PROVE  i \in (lo + 1)..hi <=> IsPrefix(p, list[i])
    <2>1. CASE i <= lo
      BY <1>1, <1>2, <1>3, <2>1, PrefixesTogether
    <2>2. CASE ~(i <= lo)
      <3>1. PICK j \in 0..(m - 1) : i = lo + j + 1
        <4>1. i - lo - 1 \in 0..(m - 1) /\ i = lo + (i - lo - 1) + 1
          BY <1>3, <1>4, <2>2
        <4>2. QED
          BY <4>1
      <3>2. IsPrefix(p, list[i]) <=> ~(q <= j)
        BY <1>5, <1>7, <3>1
      <3>3. i \in (lo + 1)..hi <=> ~(q <= j)
        BY <1>3, <1>8, <3>1
      <3>4. QED
        BY <3>2, <3>3
    <2>3. QED
      BY <2>1, <2>2
  <1>10. QED
    BY <1>2, <1>3, <1>4, <1>8, <1>9 DEF Bounds

(* What stands at some places of a list comes in the list's order.                         *)
LEMMA AtPlacesMembers ==
    ASSUME NEW list \in Seq(Strings), Ascending(list),
           NEW places, places \subseteq 1..Len(list)
    PROVE  /\ AtPlaces(list, places) \in Seq(Strings)
           /\ Ascending(AtPlaces(list, places))
           /\ Strict(list) => Strict(AtPlaces(list, places))
           /\ ToSet(AtPlaces(list, places)) = {list[i] : i \in places}
  <1>1. /\ Len(list) \in Nat /\ DOMAIN list = 1..Len(list)
        /\ \A i \in 1..Len(list) : list[i] \in Strings
    BY LenProperties, ElementOfSeq
  <1>2. PICK n \in Nat : n = Len(list)
    BY <1>1
  <1>3. places \subseteq 1..n
    BY <1>2
  <1>4. IsFiniteSet(places) /\ \A i \in places : i \in Nat
    <2>1. IsFiniteSet(places)
      BY <1>3, PlacesFinite, FS_Subset
    <2>2. QED
      BY <1>3, <2>1
  <1> DEFINE order == {p \in places \X places : p[1] < p[2]}
             rows  == Ranked(places, order)
  <1>5. AtPlaces(list, places) = [i \in DOMAIN rows |-> list[rows[i]]]
    BY DEF AtPlaces
  <1>6. \A i, j \in places : <<i, j>> \in order <=> i < j
    OBVIOUS
  <1>7. PICK m \in Nat : m = Cardinality(places)
    BY <1>4, FS_CardinalityType
  <1>8. /\ \A x \in places : ~(x < x)
        /\ \A x, y, z \in places : x < y /\ y < z => x < z
        /\ \A x, y \in places : x # y => x < y \/ y < x
    BY <1>4
  <1> HIDE DEF order
  <1>9. /\ Ranked(places, order) \in [1..m -> places]
        /\ \A i, j \in 1..m :
              i < j => <<Ranked(places, order)[i], Ranked(places, order)[j]>> \in order
        /\ \A x \in places : \E i \in 1..m : Ranked(places, order)[i] = x
    BY <1>4, <1>6, <1>7, <1>8, RankedOrders
  <1>10. rows = Ranked(places, order)
    OBVIOUS
  <1> HIDE DEF rows
  <1>11. /\ rows \in [1..m -> places]
         /\ \A i, j \in 1..m : i < j => rows[i] < rows[j]
         /\ \A x \in places : \E i \in 1..m : rows[i] = x
    <2>1. \A i \in 1..m : rows[i] \in places
      BY <1>9, <1>10
    <2>2. QED
      BY <1>6, <1>9, <1>10, <2>1
  <1>12. PICK rest : rest = [i \in 1..m |-> list[rows[i]]]
    OBVIOUS
  <1>13. AtPlaces(list, places) = rest
    BY <1>5, <1>11, <1>12
  <1>14. \A i \in 1..m : rows[i] \in 1..n /\ rest[i] = list[rows[i]] /\ rest[i] \in Strings
    BY <1>1, <1>2, <1>3, <1>11, <1>12
  <1>15. rest \in Seq(Strings) /\ Len(rest) = m /\ DOMAIN rest = 1..m
    <2>1. rest \in [1..m -> Strings]
      BY <1>12, <1>14
    <2>2. QED
      BY <2>1
  <1>16. (Strict(list) => Strict(rest)) /\ Ascending(rest)
    BY <1>2, <1>11, <1>14, <1>15 DEF Strict, Ascending
  <1>17. ToSet(rest) = {rest[i] : i \in 1..m}
    BY <1>15 DEF ToSet
  <1>18. ToSet(rest) = {list[i] : i \in places}
    <2>1. ASSUME NEW i \in 1..m
          PROVE  \E j \in places : rest[i] = list[j]
      BY <1>11, <1>14
    <2>2. ASSUME NEW j \in places
          PROVE  \E i \in 1..m : rest[i] = list[j]
      BY <1>11, <1>14
    <2>3. ToSet(rest) \subseteq {list[j] : j \in places}
      BY <1>17, <2>1
    <2>4. ASSUME NEW j \in places
          PROVE  list[j] \in ToSet(rest)
      BY <1>17, <2>2
    <2>5. {list[j] : j \in places} \subseteq ToSet(rest)
      BY <2>4
    <2>6. QED
      BY <2>3, <2>5
  <1>19. QED
    BY <1>13, <1>15, <1>16, <1>18

(* filter.apply keeps, in the list's order, nothing that is not in it, and all that its      *)
(* filters ask for together: the two binary searches bound the strings with the prefix. It *)
(* keeps nothing else, unless equals and fuzzy are asked for at once.                      *)
THEOREM FilterMembers ==
    ASSUME NEW list \in Seq(Strings), Ascending(list), NEW f \in Filter
    PROVE  /\ ApplyFilter(f, list) \in Seq(Strings)
           /\ Ascending(ApplyFilter(f, list))
           /\ Strict(list) => Strict(ApplyFilter(f, list))
           /\ ToSet(ApplyFilter(f, list)) \subseteq ToSet(list)
           /\ \A x \in ToSet(list) : Wanted(f, x) => x \in ToSet(ApplyFilter(f, list))
           /\ ~FuzzyIgnored(f) => \A x \in ToSet(ApplyFilter(f, list)) : Wanted(f, x)
  <1>1. /\ Len(list) \in Nat /\ DOMAIN list = 1..Len(list)
        /\ \A i \in 1..Len(list) : list[i] \in Strings
    BY LenProperties, ElementOfSeq
  <1>2. PICK n \in Nat : n = Len(list)
    BY <1>1
  <1>3. f.equals \in Strings /\ f.startswith \in Strings /\ f.fuzzy \in Strings
    BY DEF Filter
  <1> DEFINE lo == IF f.startswith = <<>> THEN 0 ELSE SearchStrings(list, f.startswith)
             hi == IF f.startswith = <<>> THEN n
                   ELSE lo + Search(n - lo, {j \in 0..(n - lo - 1) :
                                               ~IsPrefix(f.startswith, list[lo + j + 1])})
             at == SearchStrings(list, f.equals)
  <1>4. ApplyFilter(f, list) =
           IF f.equals # <<>>
           THEN IF at >= lo /\ at < hi /\ list[at + 1] = f.equals THEN <<f.equals>> ELSE <<>>
           ELSE AtPlaces(list, {i \in (lo + 1)..hi : SubseqMatch(list[i], f.fuzzy)})
    BY <1>2 DEF ApplyFilter
  <1>5. /\ lo \in 0..n /\ hi \in 0..n
        /\ \A i \in 1..n : i \in (lo + 1)..hi <=> IsPrefix(f.startswith, list[i])
    <2>1. CASE f.startswith = <<>>
      <3>1. \A x \in Strings : IsPrefix(f.startswith, x)
        <4>1. Len(f.startswith) = 0
          BY <2>1
        <4>2. \A x \in Strings : Len(x) \in Nat
          BY LenProperties DEF Strings
        <4>3. QED
          BY <1>3, <4>1, <4>2, PrefixAgrees
      <3>2. QED
        BY <1>1, <1>2, <2>1, <3>1
    <2>2. CASE f.startswith # <<>>
      <3>1. lo = SearchStrings(list, f.startswith)
        BY <2>2
      <3> DEFINE passed == {j \in 0..(n - lo - 1) : ~IsPrefix(f.startswith, list[lo + j + 1])}
      <3>2. hi = lo + Search(n - lo, passed)
        BY <2>2
      <3> HIDE DEF lo, hi
      <3>3. \A j \in 0..(n - lo - 1) : j \in passed <=> ~IsPrefix(f.startswith, list[lo + j + 1])
        OBVIOUS
      <3> HIDE DEF passed
      <3>4. Bounds(list, f.startswith, n, lo, hi)
        BY <1>2, <1>3, <3>1, <3>2, <3>3, StartswithBounds
      <3>5. QED
        BY <3>4 DEF Bounds
    <2>3. QED
      BY <2>1, <2>2
  <1> HIDE DEF lo, hi
  <1>6. ToSet(list) = {list[i] : i \in 1..n}
    BY <1>1, <1>2 DEF ToSet
  <1>7. CASE f.equals # <<>>
    <2>1. at \in 0..n /\ \A i \in 1..n : Less(list[i], f.equals) <=> i <= at
      BY <1>2, <1>3, SearchStringsFinds
    <2> HIDE DEF at
    <2>2. ASSUME NEW i \in 1..n, list[i] = f.equals
          PROVE  at + 1 \in 1..n /\ list[at + 1] = f.equals
      <3>1. ~(i <= at)
        BY <1>3, <2>1, <2>2, LessIrreflexive
      <3>2. at + 1 \in 1..n /\ ~(at + 1 <= at) /\ (i = at + 1 \/ at + 1 < i)
        BY <2>1, <3>1
      <3>3. ~Less(list[at + 1], f.equals)
        BY <2>1, <3>2
      <3>4. i = at + 1 \/ ~Less(f.equals, list[at + 1])
        BY <1>2, <2>2, <3>2 DEF Ascending
      <3>5. QED
        BY <1>1, <1>2, <1>3, <2>2, <3>2, <3>3, <3>4, LessTotal
    <2>3. /\ \A x \in Strings : Wanted(f, x) => x = f.equals /\ IsPrefix(f.startswith, x)
          /\ f.fuzzy = <<>> /\ IsPrefix(f.startswith, f.equals) => Wanted(f, f.equals)
      <3>1. \A x \in Strings : Wanted(f, x) => x = f.equals /\ IsPrefix(f.startswith, x)
        BY <1>7 DEF Wanted
      <3>2. ASSUME f.fuzzy = <<>>, IsPrefix(f.startswith, f.equals)
            PROVE  Wanted(f, f.equals)
        <4>1. PICK none : none = [i \in {} |-> 0]
          OBVIOUS
        <4>2. DOMAIN f.fuzzy = {}
          BY <3>2
        <4>3. none \in [DOMAIN f.fuzzy -> DOMAIN f.equals]
          BY <4>1, <4>2
        <4>4. \A i, j \in DOMAIN f.fuzzy :
                 f.equals[none[i]] = f.fuzzy[i] /\ (i < j => none[i] < none[j])
          BY <4>2
        <4>5. QED
          BY <3>2, <4>3, <4>4 DEF Wanted
      <3>3. QED
        BY <3>1, <3>2
    <2>4. CASE at >= lo /\ at < hi /\ list[at + 1] = f.equals
      <3>1. at + 1 \in 1..n /\ at + 1 \in (lo + 1)..hi
        BY <1>5, <2>1, <2>4
      <3>2. IsPrefix(f.startswith, f.equals) /\ f.equals \in ToSet(list)
        BY <1>5, <1>6, <2>4, <3>1
      <3>3. ApplyFilter(f, list) = <<f.equals>>
        BY <1>4, <1>7, <2>4
      <3>4. /\ \A x \in ToSet(list) : Wanted(f, x) => x = f.equals
            /\ ~FuzzyIgnored(f) => Wanted(f, f.equals)
        BY <1>1, <1>2, <1>6, <1>7, <2>3, <3>2 DEF FuzzyIgnored
      <3>5. PICK one : one = <<f.equals>>
        OBVIOUS
      <3>6. one \in Seq(Strings) /\ Len(one) = 1 /\ one[1] = f.equals /\ DOMAIN one = 1..1
        BY <1>3, <3>5
      <3>7. ToSet(one) = {f.equals}
        BY <3>6 DEF ToSet
      <3>8. \A i, j \in 1..Len(one) : ~(i < j)
        BY <3>6
      <3>9. Strict(one) /\ Ascending(one)
        BY <3>8 DEF Strict, Ascending
      <3>10. QED
        BY <3>2, <3>3, <3>4, <3>5, <3>6, <3>7, <3>9
    <2>5. CASE ~(at >= lo /\ at < hi /\ list[at + 1] = f.equals)
      <3>1. ASSUME NEW x \in ToSet(list), Wanted(f, x)
            PROVE  FALSE
        <4>1. PICK i \in 1..n : x = list[i]
          BY <1>6
        <4>2. list[i] = f.equals /\ IsPrefix(f.startswith, f.equals)
          BY <1>1, <1>2, <2>3, <3>1, <4>1
        <4>3. at + 1 \in 1..n /\ list[at + 1] = f.equals
          BY <2>2, <4>2
        <4>4. at + 1 \in (lo + 1)..hi
          BY <1>5, <4>2, <4>3
        <4>5. QED
          BY <1>5, <2>1, <2>5, <4>3, <4>4
      <3>2. ApplyFilter(f, list) = <<>>
        BY <1>4, <1>7, <2>5
      <3>3. PICK none : none = <<>>
        OBVIOUS
      <3>4. none \in Seq(Strings) /\ Len(none) = 0 /\ DOMAIN none = 1..0
        BY <3>3
      <3>5. ToSet(none) = {} /\ \A i, j \in 1..Len(none) : FALSE
        BY <3>4 DEF ToSet
      <3>6. Strict(none) /\ Ascending(none)
        BY <3>5 DEF Strict, Ascending
      <3>7. QED
        BY <3>1, <3>2, <3>3, <3>4, <3>5, <3>6
    <2>6. QED
      BY <2>4, <2>5
  <1>8. CASE f.equals = <<>>
    <2> DEFINE matching == {i \in (lo + 1)..hi : SubseqMatch(list[i], f.fuzzy)}
    <2>1. matching \subseteq 1..n
      BY <1>5
    <2>2. ApplyFilter(f, list) = AtPlaces(list, matching)
      BY <1>4, <1>8
    <2>3. ASSUME NEW i \in 1..n
          PROVE  i \in matching <=> Wanted(f, list[i])
      <3>1. i \in matching <=> i \in (lo + 1)..hi /\ SubseqMatch(list[i], f.fuzzy)
        OBVIOUS
      <3>2. list[i] \in Strings
        BY <1>1, <1>2
      <3>3. SubseqMatch(list[i], f.fuzzy) <=>
               \E to \in [DOMAIN f.fuzzy -> DOMAIN list[i]] :
                  \A a, b \in DOMAIN f.fuzzy :
                     list[i][to[a]] = f.fuzzy[a] /\ (a < b => to[a] < to[b])
        BY <1>3, <3>2, SubseqMatches
      <3>4. Wanted(f, list[i]) <=>
               /\ IsPrefix(f.startswith, list[i])
               /\ \E to \in [DOMAIN f.fuzzy -> DOMAIN list[i]] :
                     \A a, b \in DOMAIN f.fuzzy :
                        list[i][to[a]] = f.fuzzy[a] /\ (a < b => to[a] < to[b])
        BY <1>8 DEF Wanted
      <3>5. QED
        BY <1>5, <3>1, <3>3, <3>4
    <2> HIDE DEF matching
    <2>4. /\ AtPlaces(list, matching) \in Seq(Strings)
          /\ Ascending(AtPlaces(list, matching))
          /\ Strict(list) => Strict(AtPlaces(list, matching))
          /\ ToSet(AtPlaces(list, matching)) = {list[i] : i \in matching}
      BY <1>2, <2>1, AtPlacesMembers
    <2>5. {list[i] : i \in matching} = {x \in ToSet(list) : Wanted(f, x)}
      BY <1>6, <2>1, <2>3
    <2>6. QED
      BY <2>2, <2>4, <2>5
  <1>9. QED
    BY <1>7, <1>8

(* The tuple endpoint keeps, in the list's order, the tuples with the substring and nothing *)
(* else.                                                                                   *)
THEOREM TupleFilterMembers ==
    ASSUME NEW list \in Seq(Strings), Ascending(list), NEW fuzzy
    PROVE  /\ ApplyTupleFilter(fuzzy, list) \in Seq(Strings)
           /\ Ascending(ApplyTupleFilter(fuzzy, list))
           /\ Strict(list) => Strict(ApplyTupleFilter(fuzzy, list))
           /\ ToSet(ApplyTupleFilter(fuzzy, list)) = {x \in ToSet(list) : HasSubstring(x, fuzzy)}
  <1>1. DOMAIN list = 1..Len(list)
    BY LenProperties
  <1> DEFINE places == {i \in DOMAIN list : HasSubstring(list[i], fuzzy)}
  <1>2. places \subseteq 1..Len(list)
    BY <1>1
  <1>3. ToSet(list) = {list[i] : i \in DOMAIN list}
    BY DEF ToSet
  <1>4. {list[i] : i \in places} = {x \in ToSet(list) : HasSubstring(x, fuzzy)}
    BY <1>3
  <1>5. ApplyTupleFilter(fuzzy, list) = AtPlaces(list, places)
    BY DEF ApplyTupleFilter
  <1> HIDE DEF places
  <1>6. /\ AtPlaces(list, places) \in Seq(Strings)
        /\ Ascending(AtPlaces(list, places))
        /\ Strict(list) => Strict(AtPlaces(list, places))
        /\ ToSet(AtPlaces(list, places)) = {list[i] : i \in places}
    BY <1>2, AtPlacesMembers
  <1>7. QED
    BY <1>4, <1>5, <1>6

LEMMA ParseLimitPositive ==
    ASSUME NEW limit \in Nat
    PROVE  ParseLimit(limit) \in Nat \ {0}
  BY LimitAssumption DEF ParseLimit
=============================================================================
