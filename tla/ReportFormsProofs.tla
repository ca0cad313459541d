-------------------------- MODULE ReportFormsProofs --------------------------
(***************************************************************************)
(* What the sections and pages of a report hold, for any rows: each row is *)
(* on one line, and the footers add up to the rows.  The sums and the      *)
(* concatenations the forms are made of are recursive; what they compute   *)
(* is proved from the least number that would violate it.                  *)
(***************************************************************************)
EXTENDS ReportForms, WellFoundedInduction, FiniteSetTheorems, SequenceTheorems, TLAPS

(* A non-empty set of numbers has a least element.                          *)
LEMMA LeastNat ==
    ASSUME NEW T, T \subseteq Nat, T # {}
    PROVE  \E m \in T : \A k \in T : m <= k
<1> DEFINE R == {ss \in Nat \X Nat : ss[1] < ss[2]}
<1>1. IsWellFoundedOn(R, Nat)
  BY NatLessThanWellFounded DEF OpToRel
<1>2. \A x, y \in Nat : y < x => <<y, x>> \in R
  OBVIOUS
<1> HIDE DEF R
<1>3. PICK m \in T : \A y \in T : ~ (<<y, m>> \in R)
  BY <1>1, WFMin
<1>4. ASSUME NEW k \in T PROVE m <= k
  <2>1. m \in Nat /\ k \in Nat /\ ~ (k < m)
    BY <1>2, <1>3
  <2> QED BY <2>1
<1> QED BY <1>4

(* Induction, for sets: what holds of 0 and with n of n + 1 holds of all.   *)
LEMMA NatSet ==
    ASSUME NEW T, T \subseteq Nat, 0 \in T, \A n \in T : n + 1 \in T
    PROVE  T = Nat
<1> SUFFICES ASSUME Nat \ T # {} PROVE FALSE
  OBVIOUS
<1>1. PICK m \in Nat \ T : \A k \in Nat \ T : m <= k
  BY LeastNat
<1>2. m # 0 /\ m - 1 \in Nat /\ m - 1 \in T
  BY <1>1
<1> QED BY <1>1, <1>2

-----------------------------------------------------------------------------
(* Lists: sequences of whatever elements.                                   *)
List(s) == \E n \in Nat : s = [i \in 1 .. n |-> s[i]]

LEMMA ListLen ==
    ASSUME NEW s, List(s)
    PROVE  Len(s) \in Nat /\ DOMAIN s = 1 .. Len(s) /\ s = [i \in 1 .. Len(s) |-> s[i]]
<1>1. PICK n \in Nat : s = [i \in 1 .. n |-> s[i]]
  BY DEF List
<1>2. DOMAIN s = 1 .. n
  BY <1>1
<1>3. s \in Seq({s[i] : i \in 1 .. n})
  BY <1>1
<1>4. Len(s) = n
  BY <1>2, <1>3
<1> QED BY <1>1, <1>2, <1>4

LEMMA ToList ==
    ASSUME NEW s, NEW n \in Nat, s = [i \in 1 .. n |-> s[i]]
    PROVE  List(s) /\ Len(s) = n /\ DOMAIN s = 1 .. n
BY ListLen DEF List

LEMMA SeqIsList ==
    ASSUME NEW S, NEW s \in Seq(S)
    PROVE  List(s)
BY DEF List

LEMMA ListsEqual ==
    ASSUME NEW s, NEW t, List(s), List(t), Len(s) = Len(t), \A i \in 1 .. Len(s) : s[i] = t[i]
    PROVE  s = t
BY ListLen

LEMMA EmptyList ==
    /\ List(<<>>) /\ Len(<<>>) = 0
    /\ \A s : List(s) /\ Len(s) = 0 => s = <<>>
<1>1. List(<<>>) /\ Len(<<>>) = 0
  BY DEF List
<1> QED BY <1>1, ListsEqual

LEMMA OneList ==
    ASSUME NEW e
    PROVE  List(<<e>>) /\ Len(<<e>>) = 1 /\ <<e>>[1] = e
BY DEF List

LEMMA ConcatList ==
    ASSUME NEW s, NEW t, List(s), List(t)
    PROVE  /\ List(s \o t) /\ Len(s \o t) = Len(s) + Len(t)
           /\ \A i \in 1 .. Len(s) : (s \o t)[i] = s[i]
           /\ \A i \in 1 .. Len(t) : (s \o t)[Len(s) + i] = t[i]
           /\ \A i \in 1 .. Len(s \o t) :
                \/ i \in 1 .. Len(s) /\ (s \o t)[i] = s[i]
                \/ i - Len(s) \in 1 .. Len(t) /\ (s \o t)[i] = t[i - Len(s)]
<1> DEFINE S == {s[i] : i \in 1 .. Len(s)} \cup {t[i] : i \in 1 .. Len(t)}
<1>1. s \in Seq(S) /\ t \in Seq(S)
  BY ListLen
<1> HIDE DEF S
<1>2. /\ s \o t \in Seq(S)
      /\ Len(s \o t) = Len(s) + Len(t)
      /\ \A i \in 1 .. Len(s) + Len(t) : (s \o t)[i] =
                     IF i <= Len(s) THEN s[i] ELSE t[i - Len(s)]
  BY <1>1, ConcatProperties
<1>3. Len(s) \in Nat /\ Len(t) \in Nat
  BY ListLen
<1>4. List(s \o t)
  BY <1>2, SeqIsList
<1> QED BY <1>2, <1>3, <1>4

LEMMA ConcatEmpty ==
    ASSUME NEW s, List(s)
    PROVE  <<>> \o s = s /\ s \o <<>> = s
<1> DEFINE S == {s[i] : i \in 1 .. Len(s)}
<1>1. s \in Seq(S)
  BY ListLen
<1> HIDE DEF S
<1> QED BY <1>1, ConcatEmptySeq

LEMMA AppendList ==
    ASSUME NEW s, NEW e, List(s)
    PROVE  /\ List(Append(s, e)) /\ Len(Append(s, e)) = Len(s) + 1
           /\ \A i \in 1 .. Len(s) : Append(s, e)[i] = s[i]
           /\ Append(s, e)[Len(s) + 1] = e
<1> DEFINE S == {s[i] : i \in 1 .. Len(s)} \cup {e}
<1>1. s \in Seq(S) /\ e \in S
  BY ListLen
<1> HIDE DEF S
<1>2. /\ Append(s, e) \in Seq(S)
      /\ Len(Append(s, e)) = Len(s) + 1
      /\ \A i \in 1 .. Len(s) : Append(s, e)[i] = s[i]
      /\ Append(s, e)[Len(s) + 1] = e
  BY <1>1
<1> QED BY <1>2, SeqIsList

LEMMA TailList ==
    ASSUME NEW s, List(s), s # <<>>
    PROVE  /\ List(Tail(s)) /\ Len(Tail(s)) = Len(s) - 1 /\ Len(s) > 0
           /\ \A i \in 1 .. Len(s) - 1 : Tail(s)[i] = s[i + 1]
           /\ Head(s) = s[1]
<1> DEFINE S == {s[i] : i \in 1 .. Len(s)}
<1>1. s \in Seq(S)
  BY ListLen
<1> HIDE DEF S
<1>2. /\ Tail(s) \in Seq(S)
      /\ Len(Tail(s)) = Len(s) - 1
      /\ \A i \in 1 .. Len(Tail(s)) : Tail(s)[i] = s[i + 1]
  BY <1>1, HeadTailProperties
<1>3. Len(s) \in Nat /\ Len(s) # 0 /\ Head(s) = s[1]
  BY ListLen, EmptyList
<1>4. List(Tail(s))
  BY <1>2, SeqIsList
<1> QED BY <1>2, <1>3, <1>4

(* Taking the head of one list to the end of another leaves the two         *)
(* together what they were.                                                 *)
LEMMA MoveHead ==
    ASSUME NEW s, NEW t, List(s), List(t), t # <<>>
    PROVE  Append(s, Head(t)) \o Tail(t) = s \o t
<1> DEFINE a == Append(s, Head(t))
           b == Tail(t)
<1>1. /\ List(a) /\ Len(a) = Len(s) + 1 /\ a[Len(s) + 1] = t[1]
      /\ \A i \in 1 .. Len(s) : a[i] = s[i]
  BY AppendList, TailList
<1>2. /\ List(b) /\ Len(b) = Len(t) - 1 /\ Len(t) > 0
      /\ \A i \in 1 .. Len(t) - 1 : b[i] = t[i + 1]
  BY TailList
<1>3. Len(s) \in Nat /\ Len(t) \in Nat
  BY ListLen
<1> HIDE DEF a, b
<1>4. List(a \o b) /\ List(s \o t) /\ Len(a \o b) = Len(s \o t) /\ Len(s \o t) = Len(s) + Len(t)
  <2>1. List(a \o b) /\ Len(a \o b) = Len(a) + Len(b)
    BY <1>1, <1>2, ConcatList
  <2>2. List(s \o t) /\ Len(s \o t) = Len(s) + Len(t)
    BY ConcatList
  <2> QED BY <1>1, <1>2, <1>3, <2>1, <2>2
<1>5. ASSUME NEW i \in 1 .. Len(s) + Len(t) PROVE (a \o b)[i] = (s \o t)[i]
  <2>1. CASE i \in 1 .. Len(s)
    <3>1. i \in 1 .. Len(a)
      BY <1>1, <1>3, <2>1
    <3> QED BY <1>1, <1>2, <2>1, <3>1, ConcatList
  <2>2. CASE i = Len(s) + 1
    <3>1. i \in 1 .. Len(a) /\ 1 \in 1 .. Len(t)
      BY <1>1, <1>2, <1>3, <2>2
    <3> QED BY <1>1, <1>2, <2>2, <3>1, ConcatList
  <2>3. CASE i > Len(s) + 1
    <3> DEFINE k == i - Len(a)
    <3>1. /\ k \in 1 .. Len(b) /\ k \in 1 .. Len(t) - 1 /\ k + 1 \in 1 .. Len(t)
          /\ i = Len(a) + k /\ i = Len(s) + (k + 1)
      BY <1>1, <1>2, <1>3, <2>3
    <3> HIDE DEF k
    <3>2. (a \o b)[Len(a) + k] = b[k] /\ (s \o t)[Len(s) + (k + 1)] = t[k + 1]
      BY <1>1, <1>2, <3>1, ConcatList
    <3> QED BY <1>2, <3>1, <3>2
  <2>4. i \in 1 .. Len(s) \/ i = Len(s) + 1 \/ i > Len(s) + 1
    BY <1>3
  <2> QED BY <2>1, <2>2, <2>3, <2>4
<1>6. a \o b = s \o t
  BY <1>4, <1>5, ListsEqual
<1> QED BY <1>6 DEF a, b
-----------------------------------------------------------------------------
(* FlattenSeq: what it has put together after each of the lists.            *)
LEMMA FlattenTableExists ==
    ASSUME NEW L, NEW n \in Nat
    PROVE  \E g : g = [i \in 1 .. n |-> IF i = 1 THEN L[i] ELSE g[i-1] \o L[i]]
<1> DEFINE Good(k, g) == g = [i \in 1 .. k |-> IF i = 1 THEN L[i] ELSE g[i-1] \o L[i]]
           T == {k \in Nat : \E g : Good(k, g)}
<1>1. 0 \in T
  <2>1. Good(0, [i \in 1 .. 0 |-> L[i]])
    OBVIOUS
  <2> QED BY <2>1
<1>2. \A k \in T : k + 1 \in T
  <2> SUFFICES ASSUME NEW k \in T PROVE k + 1 \in T
    OBVIOUS
  <2>0. k \in Nat
    OBVIOUS
  <2> PICK g : Good(k, g)
    OBVIOUS
  <2> DEFINE e == IF k = 0 THEN L[1] ELSE g[k] \o L[k+1]
             h == [i \in 1 .. (k+1) |-> IF i = k + 1 THEN e ELSE g[i]]
             h2 == [i \in 1 .. (k+1) |-> IF i = 1 THEN L[i] ELSE h[i-1] \o L[i]]
  <2>1. ASSUME NEW i \in 1 .. (k+1) PROVE h[i] = h2[i]
    <3>1. CASE i = k + 1 /\ k = 0
      BY <3>1
    <3>2. CASE i = k + 1 /\ k # 0
      <4>1. h[i] = g[k] \o L[k+1]
        BY <3>2
      <4>2. h[i - 1] = g[k] /\ i # 1 /\ i - 1 = k
        BY <3>2
      <4>3. h2[i] = h[i-1] \o L[i]
        BY <4>2
      <4> QED BY <4>1, <4>2, <4>3, <3>2
    <3>3. CASE i # k + 1 /\ i = 1
      BY <3>3
    <3>4. CASE i # k + 1 /\ i # 1
      <4>1. i \in 1 .. k /\ i - 1 \in 1 .. k /\ i - 1 # k + 1
        BY <3>4
      <4>2. h[i] = g[i] /\ h[i-1] = g[i-1]
        <5>1. i \in 1 .. (k+1) /\ i-1 \in 1 .. (k+1) /\ i # k+1 /\ i-1 # k+1
          BY <4>1, <3>4, <2>0
        <5> HIDE DEF e
        <5> QED BY <5>1
      <4>3. g[i] = g[i-1] \o L[i]
        BY <4>1, <3>4
      <4>4. h2[i] = h[i-1] \o L[i]
        BY <3>4
      <4> QED BY <4>2, <4>3, <4>4
    <3> QED BY <3>1, <3>2, <3>3, <3>4
  <2>2. h = h2
    <3> HIDE DEF e
    <3>1. h = [i \in 1 .. (k+1) |-> h[i]] /\ h2 = [i \in 1 .. (k+1) |-> h2[i]]
      OBVIOUS
    <3> HIDE DEF h, h2
    <3> QED BY <2>1, <3>1
  <2>3. Good(k + 1, h)
    BY <2>2
  <2>4. \E hh : Good(k + 1, hh)
    <3> HIDE DEF h
    <3> QED BY <2>3
  <2> HIDE DEF Good
  <2> QED BY <2>4, <2>0
<1>3. T = Nat
  <2>1. T \subseteq Nat
    OBVIOUS
  <2> HIDE DEF T
  <2> QED BY <1>1, <1>2, <2>1, NatSet
<1> QED BY <1>3

LEMMA FlattenTable ==
    ASSUME NEW L, List(L)
    PROVE  \E g : /\ \A i \in 1 .. Len(L) : g[i] = IF i = 1 THEN L[1] ELSE g[i-1] \o L[i]
                  /\ FlattenSeq(L) = IF Len(L) = 0 THEN <<>> ELSE g[Len(L)]
<1> DEFINE n == Len(L)
<1>0. n \in Nat
  BY ListLen
<1>1. \E g : g = [i \in 1 .. n |-> IF i = 1 THEN L[i] ELSE g[i-1] \o L[i]]
  BY <1>0, FlattenTableExists
<1> DEFINE f == CHOOSE g : g = [i \in 1 .. n |-> IF i = 1 THEN L[i] ELSE g[i-1] \o L[i]]
<1>2. f = [i \in 1 .. n |-> IF i = 1 THEN L[i] ELSE f[i-1] \o L[i]]
  BY <1>1
<1>3. FlattenSeq(L) = IF n = 0 THEN L ELSE f[n]
  BY DEF FlattenSeq
<1>4. n = 0 => L = <<>>
  BY EmptyList
<1> HIDE DEF f, n
<1>5. \A i \in 1 .. n : f[i] = IF i = 1 THEN L[1] ELSE f[i-1] \o L[i]
  BY <1>2
<1> QED BY <1>3, <1>4, <1>5 DEF n
LEMMA UpTo ==
    ASSUME NEW n \in Nat, NEW T, 0 \in T, \A k \in 0 .. n - 1 : k \in T => k + 1 \in T
    PROVE  \A k \in 0 .. n : k \in T
<1> DEFINE U == {k \in Nat : k <= n => k \in T}
<1>1. U \subseteq Nat /\ 0 \in U
  OBVIOUS
<1>2. ASSUME NEW k \in U PROVE k + 1 \in U
  <2>1. CASE k + 1 <= n
    <3>1. k \in 0 .. n - 1 /\ k <= n
      BY <2>1
    <3> QED BY <3>1
  <2> QED BY <2>1
<1>3. U = Nat
  <2> HIDE DEF U
  <2> QED BY <1>1, <1>2, NatSet
<1>4. ASSUME NEW k \in 0 .. n PROVE k \in T
  <2>1. k \in U /\ k <= n
    BY <1>3
  <2> QED BY <2>1
<1> QED BY <1>4

LEMMA FlattenEmpty == FlattenSeq(<<>>) = <<>>
BY EmptyList DEF FlattenSeq

LEMMA FlattenAppend ==
    ASSUME NEW L, NEW e, List(L)
    PROVE  FlattenSeq(Append(L, e)) = IF L = <<>> THEN e ELSE FlattenSeq(L) \o e
<1> DEFINE M == Append(L, e)
           n == Len(L)
<1>1. /\ List(M) /\ Len(M) = n + 1 /\ n \in Nat
      /\ \A i \in 1 .. n : M[i] = L[i]
      /\ M[n + 1] = e
  BY AppendList, ListLen
<1> HIDE DEF M
<1>2. PICK g : /\ \A i \in 1 .. n : g[i] = IF i = 1 THEN L[1] ELSE g[i-1] \o L[i]
               /\ FlattenSeq(L) = IF n = 0 THEN <<>> ELSE g[n]
  BY FlattenTable
<1>10. PICK h : /\ \A i \in 1 .. Len(M) : h[i] = IF i = 1 THEN M[1] ELSE h[i-1] \o M[i]
                /\ FlattenSeq(M) = IF Len(M) = 0 THEN <<>> ELSE h[Len(M)]
  BY <1>1, FlattenTable
<1>3. /\ \A i \in 1 .. (n + 1) : h[i] = IF i = 1 THEN M[1] ELSE h[i-1] \o M[i]
      /\ FlattenSeq(M) = IF n + 1 = 0 THEN <<>> ELSE h[n + 1]
  BY <1>1, <1>10
<1>0. n = 0 <=> L = <<>>
  BY EmptyList
<1> HIDE DEF n
<1>4. \A k \in 0 .. n : k # 0 => h[k] = g[k]
  <2> DEFINE T == {k \in 0 .. n : k # 0 => h[k] = g[k]}
  <2>1. 0 \in T
    BY <1>1
  <2>2. ASSUME NEW k \in 0 .. n - 1, k \in T PROVE k + 1 \in T
    <3>1. k + 1 \in 1 .. n /\ k + 1 \in 1 .. (n + 1) /\ k + 1 \in 0 .. n /\ (k + 1) - 1 = k
      BY <1>1
    <3>2. /\ h[k + 1] = IF k + 1 = 1 THEN M[1] ELSE h[k] \o M[k + 1]
          /\ g[k + 1] = IF k + 1 = 1 THEN L[1] ELSE g[k] \o L[k + 1]
      BY <1>2, <1>3, <3>1
    <3>3. M[k + 1] = L[k + 1]
      BY <1>1, <3>1
    <3>4. h[k + 1] = g[k + 1]
      BY <2>2, <3>2, <3>3
    <3> QED BY <3>1, <3>4
  <2> HIDE DEF T
  <2>3. \A k \in 0 .. n : k \in T
    BY <1>1, <2>1, <2>2, UpTo
  <2> QED BY <2>3 DEF T
<1>5. n + 1 \in 1 .. (n + 1) /\ (n + 1) - 1 = n /\ n + 1 # 0
  BY <1>1
<1>6. h[n + 1] = IF n + 1 = 1 THEN M[1] ELSE h[n] \o M[n + 1]
  BY <1>3, <1>5
<1>7. FlattenSeq(M) = h[n + 1]
  BY <1>3, <1>5
<1>8. CASE n = 0
  BY <1>0, <1>1, <1>6, <1>7, <1>8 DEF M
<1>9. CASE n # 0
  <2>1. h[n] = g[n] /\ n + 1 # 1
    BY <1>1, <1>4, <1>9
  <2> QED BY <1>0, <1>1, <1>2, <1>6, <1>7, <1>9, <2>1 DEF M
<1> QED BY <1>8, <1>9

(* Of lists, FlattenSeq is all of them one after the other.                 *)
LEMMA FlattenSteps ==
    ASSUME NEW L, List(L), \A i \in 1 .. Len(L) : List(L[i])
    PROVE  \E g : /\ g[0] = <<>>
                  /\ \A k \in 0 .. Len(L) - 1 : g[k + 1] = g[k] \o L[k + 1]
                  /\ \A k \in 0 .. Len(L) : List(g[k])
                  /\ FlattenSeq(L) = g[Len(L)]
<1> DEFINE n == Len(L)
<1>0. n \in Nat
  BY ListLen
<1>1. PICK f : /\ \A i \in 1 .. n : f[i] = IF i = 1 THEN L[1] ELSE f[i-1] \o L[i]
               /\ FlattenSeq(L) = IF n = 0 THEN <<>> ELSE f[n]
  BY FlattenTable
<1> DEFINE g == [k \in 0 .. n |-> IF k = 0 THEN <<>> ELSE f[k]]
<1> HIDE DEF n
<1>2. g[0] = <<>> /\ FlattenSeq(L) = g[n]
  BY <1>0, <1>1
<1>3. ASSUME NEW k \in 0 .. n - 1 PROVE g[k + 1] = g[k] \o L[k + 1]
  <2>1. k + 1 \in 1 .. n /\ k + 1 \in 0 .. n /\ k + 1 # 0 /\ (k + 1) - 1 = k /\ k \in 0 .. n
    BY <1>0
  <2>2. f[k + 1] = IF k + 1 = 1 THEN L[1] ELSE f[k] \o L[k + 1]
    BY <1>1, <2>1
  <2>3. g[k + 1] = f[k + 1]
    BY <2>1
  <2>4. CASE k = 0
    <3>1. 1 \in 1 .. n /\ List(L[1])
      BY <2>1, <2>4 DEF n
    <3>2. g[k] = <<>> /\ L[k + 1] = L[1]
      BY <1>2, <2>4
    <3> HIDE DEF g
    <3>3. <<>> \o L[1] = L[1]
      BY <3>1, ConcatEmpty
    <3> QED BY <2>2, <2>3, <2>4, <3>2, <3>3
  <2>5. CASE k # 0
    <3>1. g[k] = f[k] /\ k + 1 # 1
      BY <2>1, <2>5
    <3> HIDE DEF g
    <3> QED BY <2>2, <2>3, <3>1
  <2> QED BY <2>4, <2>5
<1> HIDE DEF g
<1>4. \A k \in 0 .. n : List(g[k])
  <2> DEFINE T == {k \in 0 .. n : List(g[k])}
  <2>1. 0 \in T
    BY <1>0, <1>2, EmptyList
  <2>2. ASSUME NEW k \in 0 .. n - 1, k \in T PROVE k + 1 \in T
    <3>1. k + 1 \in 1 .. n /\ k + 1 \in 0 .. n
      BY <1>0
    <3>2. List(L[k + 1]) /\ List(g[k])
      BY <2>2, <3>1 DEF n
    <3>3. List(g[k] \o L[k + 1])
      BY <3>2, ConcatList
    <3> QED BY <1>3, <3>1, <3>3
  <2> HIDE DEF T
  <2>3. \A k \in 0 .. n : k \in T
    BY <1>0, <2>1, <2>2, UpTo
  <2> QED BY <2>3 DEF T
<1> QED BY <1>2, <1>3, <1>4 DEF n
(* If each of the lists has one element, the elements.                      *)
LEMMA FlattenSingles ==
    ASSUME NEW L, List(L), \A i \in 1 .. Len(L) : List(L[i]) /\ Len(L[i]) = 1
    PROVE  /\ List(FlattenSeq(L)) /\ Len(FlattenSeq(L)) = Len(L)
           /\ \A i \in 1 .. Len(L) : FlattenSeq(L)[i] = L[i][1]
<1> DEFINE n == Len(L)
<1>0. n \in Nat
  BY ListLen
<1>1. PICK g : /\ g[0] = <<>>
               /\ \A k \in 0 .. n - 1 : g[k + 1] = g[k] \o L[k + 1]
               /\ \A k \in 0 .. n : List(g[k])
               /\ FlattenSeq(L) = g[n]
  BY FlattenSteps
<1> DEFINE T == {k \in 0 .. n : Len(g[k]) = k /\ \A i \in 1 .. k : g[k][i] = L[i][1]}
<1>2. 0 \in T
  BY <1>0, <1>1, EmptyList
<1>3. ASSUME NEW k \in 0 .. n - 1, k \in T PROVE k + 1 \in T
  <2>1. k + 1 \in 0 .. n /\ k + 1 \in 1 .. n /\ k \in 0 .. n
    BY <1>0
  <2>2. List(g[k]) /\ List(L[k + 1]) /\ Len(L[k + 1]) = 1 /\ g[k + 1] = g[k] \o L[k + 1]
    BY <1>1, <2>1
  <2>3. Len(g[k]) = k /\ \A i \in 1 .. k : g[k][i] = L[i][1]
    BY <1>3
  <2>4. /\ Len(g[k + 1]) = k + 1
        /\ \A i \in 1 .. k : g[k + 1][i] = g[k][i]
        /\ g[k + 1][k + 1] = L[k + 1][1]
    <3> HIDE DEF T, n
    <3>1. /\ Len(g[k] \o L[k + 1]) = Len(g[k]) + Len(L[k + 1])
          /\ \A i \in 1 .. Len(g[k]) : (g[k] \o L[k + 1])[i] = g[k][i]
          /\ \A i \in 1 .. Len(L[k + 1]) : (g[k] \o L[k + 1])[Len(g[k]) + i] = L[k + 1][i]
      <4> DEFINE a == g[k]
                 b == L[k + 1]
      <4>1. List(a) /\ List(b)
        BY <2>2
      <4> HIDE DEF a, b
      <4>2. /\ Len(a \o b) = Len(a) + Len(b)
            /\ \A i \in 1 .. Len(a) : (a \o b)[i] = a[i]
            /\ \A i \in 1 .. Len(b) : (a \o b)[Len(a) + i] = b[i]
        BY <4>1, ConcatList
      <4> QED BY <4>2 DEF a, b
    <3>2. 1 \in 1 .. Len(L[k + 1])
      BY <2>2
    <3> QED BY <2>2, <2>3, <3>1, <3>2
  <2>5. \A i \in 1 .. (k + 1) : i \in 1 .. k \/ i = k + 1
    BY <2>1
  <2> QED BY <2>1, <2>3, <2>4, <2>5
<1>4. \A k \in 0 .. n : k \in T
  <2> HIDE DEF T, n
  <2> QED BY <1>0, <1>2, <1>3, UpTo
<1>5. n \in T /\ List(g[n])
  BY <1>0, <1>1, <1>4
<1> QED BY <1>1, <1>5

-----------------------------------------------------------------------------
(* The rows of a set, each on one of the lines and on no other.             *)
Once(S, L) ==
    /\ List(L)
    /\ \A i \in 1 .. Len(L) : L[i].of \subseteq S
    /\ \A r \in S : \E i \in 1 .. Len(L) :
          r \in L[i].of /\ \A k \in 1 .. Len(L) : r \in L[k].of => k = i

LEMMA OnceCount ==
    ASSUME NEW S, NEW L, Once(S, L), NEW r \in S
    PROVE  Cardinality({i \in DOMAIN L : r \in L[i].of}) = 1
<1>1. PICK i \in 1 .. Len(L) : r \in L[i].of /\ \A k \in 1 .. Len(L) : r \in L[k].of => k = i
  BY DEF Once
<1>2. DOMAIN L = 1 .. Len(L)
  BY ListLen DEF Once
<1>3. {k \in DOMAIN L : r \in L[k].of} = {i}
  BY <1>1, <1>2
<1> QED BY <1>3, FS_Singleton

LEMMA OnceNone ==
    Once({}, <<>>)
BY EmptyList DEF Once

LEMMA OnceConcat ==
    ASSUME NEW S, NEW T, NEW K, NEW L, Once(S, K), Once(T, L), S \cap T = {}
    PROVE  Once(S \cup T, K \o L)
<1> DEFINE M == K \o L
           m == Len(K)
           n == Len(L)
<1>1. m \in Nat /\ n \in Nat /\ List(K) /\ List(L)
  BY ListLen DEF Once
<1>2. /\ List(M) /\ Len(M) = m + n
      /\ \A i \in 1 .. m : M[i] = K[i]
      /\ \A i \in 1 .. n : M[m + i] = L[i]
      /\ \A i \in 1 .. Len(M) : \/ i \in 1 .. m /\ M[i] = K[i]
                                \/ i - m \in 1 .. n /\ M[i] = L[i - m]
  BY <1>1, ConcatList
<1>3. /\ \A i \in 1 .. m : K[i].of \subseteq S
      /\ \A i \in 1 .. n : L[i].of \subseteq T
      /\ \A r \in S : \E i \in 1 .. m :
          r \in K[i].of /\ \A k \in 1 .. m : r \in K[k].of => k = i
      /\ \A r \in T : \E i \in 1 .. n :
          r \in L[i].of /\ \A k \in 1 .. n : r \in L[k].of => k = i
  BY DEF Once
<1> HIDE DEF M, m, n
<1>4. ASSUME NEW i \in 1 .. Len(M) PROVE M[i].of \subseteq S \cup T
  BY <1>2, <1>3
<1>5. ASSUME NEW r \in S
      PROVE  \E i \in 1 .. Len(M) : r \in M[i].of /\ \A k \in 1 .. Len(M) : r \in M[k].of => k = i
  <2>1. PICK i \in 1 .. m : r \in K[i].of /\ \A k \in 1 .. m : r \in K[k].of => k = i
    BY <1>3
  <2>2. i \in 1 .. Len(M) /\ r \in M[i].of
    BY <1>1, <1>2, <2>1
  <2>3. ASSUME NEW k \in 1 .. Len(M), r \in M[k].of PROVE k = i
    <3>1. CASE k \in 1 .. m /\ M[k] = K[k]
      BY <2>1, <2>3, <3>1
    <3>2. CASE k - m \in 1 .. n /\ M[k] = L[k - m]
      BY <1>3, <2>3, <3>2
    <3> QED BY <1>2, <3>1, <3>2
  <2> QED BY <2>2, <2>3
<1>6. ASSUME NEW r \in T
      PROVE  \E i \in 1 .. Len(M) : r \in M[i].of /\ \A k \in 1 .. Len(M) : r \in M[k].of => k = i
  <2>1. PICK i \in 1 .. n : r \in L[i].of /\ \A k \in 1 .. n : r \in L[k].of => k = i
    BY <1>3
  <2>2. m + i \in 1 .. Len(M) /\ r \in M[m + i].of
    BY <1>1, <1>2, <2>1
  <2>3. ASSUME NEW k \in 1 .. Len(M), r \in M[k].of PROVE k = m + i
    <3>1. CASE k \in 1 .. m /\ M[k] = K[k]
      BY <1>3, <2>3, <3>1
    <3>2. CASE k - m \in 1 .. n /\ M[k] = L[k - m]
      <4>1. k - m = i
        BY <2>1, <2>3, <3>2
      <4> QED BY <1>1, <4>1
    <3> QED BY <1>2, <3>1, <3>2
  <2> QED BY <2>2, <2>3
<1>7. Once(S \cup T, M)
  BY <1>2, <1>4, <1>5, <1>6 DEF Once
<1> QED BY <1>7 DEF M

(* A row that is in one of the parts is in no other.                        *)
Parts(P, n) == \A i, k \in 1 .. n : i # k => P[i] \cap P[k] = {}
Joined(P, n) == UNION {P[i] : i \in 1 .. n}

LEMMA OnceLines ==
    ASSUME NEW P, NEW L, List(L), Parts(P, Len(L)), \A i \in 1 .. Len(L) : L[i].of = P[i]
    PROVE  Once(Joined(P, Len(L)), L)
<1>1. \A i \in 1 .. Len(L) : L[i].of \subseteq Joined(P, Len(L))
  BY DEF Joined
<1>2. ASSUME NEW r \in Joined(P, Len(L))
      PROVE  \E i \in 1 .. Len(L) : r \in L[i].of /\ \A k \in 1 .. Len(L) : r \in L[k].of => k = i
  <2>1. PICK i \in 1 .. Len(L) : r \in P[i]
    BY DEF Joined
  <2>2. \A k \in 1 .. Len(L) : r \in L[k].of => k = i
    BY <2>1 DEF Parts
  <2> QED BY <2>1, <2>2
<1> QED BY <1>1, <1>2 DEF Once

LEMMA OnceFlatten ==
    ASSUME NEW P, NEW L, List(L), Parts(P, Len(L)), \A i \in 1 .. Len(L) : Once(P[i], L[i])
    PROVE  Once(Joined(P, Len(L)), FlattenSeq(L))
<1> DEFINE n == Len(L)
<1>0. n \in Nat /\ \A i \in 1 .. n : List(L[i])
  BY ListLen DEF Once
<1>1. PICK g : /\ g[0] = <<>>
               /\ \A k \in 0 .. n - 1 : g[k + 1] = g[k] \o L[k + 1]
               /\ \A k \in 0 .. n : List(g[k])
               /\ FlattenSeq(L) = g[n]
  BY <1>0, FlattenSteps
<1> DEFINE T == {k \in 0 .. n : Once(Joined(P, k), g[k])}
<1>2. 0 \in T
  <2>1. Joined(P, 0) = {}
    BY DEF Joined
  <2>2. Once(Joined(P, 0), g[0])
    BY <1>1, <2>1, OnceNone
  <2> QED BY <1>0, <2>2
<1>3. ASSUME NEW k \in 0 .. n - 1, k \in T PROVE k + 1 \in T
  <2>1. k + 1 \in 0 .. n /\ k + 1 \in 1 .. n
    BY <1>0
  <2>2. Once(Joined(P, k), g[k]) /\ Once(P[k + 1], L[k + 1]) /\ g[k + 1] = g[k] \o L[k + 1]
    BY <1>1, <1>3, <2>1
  <2>3. Joined(P, k + 1) = Joined(P, k) \cup P[k + 1]
    <3>1. 1 .. (k + 1) = (1 .. k) \cup {k + 1}
      BY <2>1
    <3> QED BY <3>1 DEF Joined
  <2>4. Joined(P, k) \cap P[k + 1] = {}
    <3>1. \A i \in 1 .. k : i \in 1 .. n /\ i # k + 1
      BY <1>0
    <3> QED BY <2>1, <3>1 DEF Joined, Parts
  <2>5. Once(Joined(P, k + 1), g[k + 1])
    BY <2>2, <2>3, <2>4, OnceConcat
  <2> QED BY <2>1, <2>5
<1>4. \A k \in 0 .. n : k \in T
  <2> HIDE DEF T, n
  <2> QED BY <1>0, <1>2, <1>3, UpTo
<1>5. Once(Joined(P, n), g[n])
  BY <1>0, <1>4
<1> QED BY <1>1, <1>5
-----------------------------------------------------------------------------
(* SetToSeq names the elements of a finite set, each once.                  *)
Names(ks, K) ==
    /\ List(ks)
    /\ \A i \in 1 .. Len(ks) : ks[i] \in K
    /\ \A i, k \in 1 .. Len(ks) : ks[i] = ks[k] => i = k
    /\ \A x \in K : \E i \in 1 .. Len(ks) : ks[i] = x

LEMMA SetToSeqNames ==
    ASSUME NEW S, IsFiniteSet(S)
    PROVE  Names(SetToSeq(S), S) /\ Len(SetToSeq(S)) = Cardinality(S) /\ Cardinality(S) \in Nat
<1> DEFINE n == Cardinality(S)
           s == SetToSeq(S)
<1>1. n \in Nat /\ Bijection(1 .. n, S) # {}
  BY FS_CardinalityType DEF ExistsBijection
<1>2. s \in [1 .. n -> S] /\ IsInjective(s)
  <2>1. \E f \in [1 .. n -> S] : IsInjective(f)
    BY <1>1 DEF Bijection, Injection
  <2> QED BY <2>1 DEF SetToSeq
<1> HIDE DEF s
<1>3. s \in Injection(1 .. n, S)
  BY <1>2 DEF Injection
<1>4. Cardinality(1 .. n) = n
  BY <1>1, FS_Interval
<1>5. s \in Surjection(1 .. n, S)
  BY <1>3, <1>4, FS_Injection
<1>6. List(s) /\ Len(s) = n /\ DOMAIN s = 1 .. n
  <2>1. s = [i \in 1 .. n |-> s[i]]
    BY <1>2
  <2> QED BY <1>1, <2>1, ToList
<1>7. Names(s, S)
  BY <1>2, <1>5, <1>6 DEF Names, Surjection, IsInjective
<1> QED BY <1>1, <1>6, <1>7 DEF s

LEMMA FiniteValues ==
    ASSUME NEW S, IsFiniteSet(S), NEW f
    PROVE  IsFiniteSet({f[r] : r \in S})
<1> DEFINE T == {f[r] : r \in S}
           g == [r \in S |-> f[r]]
<1>1. g \in Surjection(S, T)
  BY DEF Surjection
<1> HIDE DEF g, T
<1>2. IsFiniteSet(T)
  BY <1>1, FS_Surjection
<1> QED BY <1>2 DEF T

(* The rows by the value of a key: every row is in one of the parts.        *)
KeyIn(f, S, K) == \A r \in S : f[r] \in K
SplitBy(P, S, f, ks) == \A i \in 1 .. Len(ks) : P[i] = {r \in S : f[r] = ks[i]}

LEMMA ByKey ==
    ASSUME NEW S, NEW f, NEW K, NEW ks, Names(ks, K), KeyIn(f, S, K),
           NEW P, SplitBy(P, S, f, ks)
    PROVE  Parts(P, Len(ks)) /\ Joined(P, Len(ks)) = S
<1>1. Parts(P, Len(ks))
  BY DEF Parts, Names, SplitBy
<1>2. ASSUME NEW r \in S PROVE \E i \in 1 .. Len(ks) : r \in P[i]
  BY DEF Names, KeyIn, SplitBy
<1> QED BY <1>1, <1>2 DEF Joined, SplitBy

LEMMA KeysName ==
    ASSUME NEW S, IsFiniteSet(S), NEW f
    PROVE  LET ks == SetToSeq({f[r] : r \in S})
           IN  /\ Names(ks, {f[r] : r \in S}) /\ Len(ks) \in Nat
               /\ S # {} => Len(ks) # 0
<1> DEFINE K == {f[r] : r \in S}
<1>1. IsFiniteSet(K)
  BY FiniteValues
<1>2. S # {} => K # {}
  OBVIOUS
<1> HIDE DEF K
<1>3. /\ Names(SetToSeq(K), K) /\ Len(SetToSeq(K)) = Cardinality(K) /\ Cardinality(K) \in Nat
      /\ Cardinality(K) = 0 => K = {}
  BY <1>1, SetToSeqNames, FS_EmptySet
<1> QED BY <1>2, <1>3 DEF K

LEMMA RowLinesOnce ==
    ASSUME NEW S, IsFiniteSet(S)
    PROVE  /\ Once(S, RowLines(S)) /\ Len(RowLines(S)) = Cardinality(S)
           /\ Cardinality(S) \in Nat
<1> DEFINE rows == SetToSeq(S)
           L == [i \in DOMAIN rows |-> Line({rows[i]}, <<1, rows[i].amt>>)]
<1>1. Names(rows, S) /\ Len(rows) = Cardinality(S) /\ Cardinality(S) \in Nat
  BY SetToSeqNames
<1>2. DOMAIN rows = 1 .. Cardinality(S)
  BY <1>1, ListLen DEF Names
<1> HIDE DEF rows
<1>3. List(L) /\ Len(L) = Cardinality(S)
  <2>1. L = [i \in 1 .. Cardinality(S) |-> L[i]]
    BY <1>2
  <2> HIDE DEF L
  <2> QED BY <1>1, <2>1, ToList
<1>4. \A i \in 1 .. Cardinality(S) : L[i].of = {rows[i]}
  BY <1>2 DEF Line
<1> HIDE DEF L
<1>5. Once(S, L)
  BY <1>1, <1>3, <1>4 DEF Once, Names
<1> QED BY <1>1, <1>3, <1>5 DEF L, rows, RowLines
-----------------------------------------------------------------------------
(* PrintReportList: the pages hold the lines, one after the other, when the *)
(* row count is the number of lines.                                        *)
LEMMA TimesGrows ==
    ASSUME NEW a \in Nat, NEW b \in Nat, NEW w \in Nat, a <= b
    PROVE  a * w <= b * w /\ a * w \in Nat /\ (a + 1) * w = a * w + w
<1>1. PICK d \in Nat : b = a + d
  <2>1. b - a \in Nat /\ b = a + (b - a)
    OBVIOUS
  <2> QED BY <2>1
<1>2. b * w = a * w + d * w /\ d * w \in Nat /\ a * w \in Nat
  BY <1>1
<1>3. (a + 1) * w = a * w + w
  OBVIOUS
<1> QED BY <1>2, <1>3

LEMMA PageEnds ==
    ASSUME NEW n \in Nat \ {0}
    PROVE  LET t == n \div PageLines + (IF n % PageLines # 0 THEN 1 ELSE 0)
           IN  /\ t \in Nat \ {0}
               /\ \A k \in 0 .. t - 1 : k * PageLines < n
               /\ n <= t * PageLines
<1> DEFINE w == PageLines
           q == n \div w
           m == n % w
           t == q + (IF m # 0 THEN 1 ELSE 0)
<1>1. w \in Nat \ {0}
  BY PageLinesAssumption
<1>2. q \in Nat /\ m \in 0 .. (w - 1) /\ n = w * q + m
  BY <1>1
<1> HIDE DEF q, m, w
<1>3. w * q = q * w /\ q * w \in Nat /\ (q + 1) * w = q * w + w
  BY <1>1, <1>2
<1>4. CASE m = 0
  <2>1. t = q /\ n = q * w /\ q # 0
    <3>1. q = 0 => q * w = 0
      BY <1>1
    <3> QED BY <1>2, <1>3, <1>4, <3>1
  <2>2. ASSUME NEW k \in 0 .. t - 1 PROVE k * w < n
    <3>1. k \in Nat /\ k + 1 <= q /\ k + 1 \in Nat /\ k <= k + 1
      BY <1>2, <2>1
    <3>2. (k + 1) * w <= q * w /\ (k + 1) * w = k * w + w /\ k * w \in Nat
      BY <1>1, <1>2, <3>1, TimesGrows
    <3> QED BY <1>1, <2>1, <3>2
  <2> QED BY <1>1, <1>2, <1>3, <2>1, <2>2 DEF q, m, w
<1>5. CASE m # 0
  <2>1. t = q + 1
    BY <1>5
  <2>2. ASSUME NEW k \in 0 .. t - 1 PROVE k * w < n
    <3>1. k \in Nat /\ k <= q
      BY <1>2, <2>1
    <3>2. k * w <= q * w /\ k * w \in Nat
      BY <1>1, <1>2, <3>1, TimesGrows
    <3> QED BY <1>2, <1>3, <1>5, <3>2
  <2>3. n <= t * w
    BY <1>1, <1>2, <1>3, <2>1
  <2> QED BY <1>1, <1>2, <2>1, <2>2, <2>3 DEF q, m, w
<1> QED BY <1>4, <1>5

LEMMA PagesAreLines ==
    ASSUME NEW s, s.count \in Nat \ {0}, List(s.lines), Len(s.lines) = s.count
    PROVE  FlattenSeq([k \in DOMAIN PrintReportList(s) |-> PrintReportList(s)[k].lines]) = s.lines
<1> DEFINE n == s.count
           w == PageLines
           t == TotalPages(s)
           L == [k \in 1 .. t |-> [j \in OnPage(s, k) |-> s.lines[(k - 1) * w + j]]]
           end(k) == IF k * w < n THEN k * w ELSE n
<1>1. w \in Nat \ {0} /\ n \in Nat \ {0}
  BY PageLinesAssumption
<1>2. /\ t \in Nat \ {0}
      /\ \A k \in 0 .. t - 1 : k * w < n
      /\ n <= t * w
  BY PageEnds DEF TotalPages
<1>3. [k \in DOMAIN PrintReportList(s) |-> PrintReportList(s)[k].lines] = L
  BY DEF PrintReportList, Page
<1> HIDE DEF n, w, t
<1>4. List(L) /\ Len(L) = t
  <2>1. L = [k \in 1 .. t |-> L[k]]
    OBVIOUS
  <2> HIDE DEF L
  <2> QED BY <1>2, <2>1, ToList
<1>5. ASSUME NEW k \in 0 .. t - 1
      PROVE  /\ List(L[k + 1]) /\ Len(L[k + 1]) = end(k + 1) - k * w
             /\ \A j \in 1 .. end(k + 1) - k * w : L[k + 1][j] = s.lines[k * w + j]
             /\ k * w \in Nat /\ end(k) = k * w /\ k * w < n
             /\ end(k + 1) - k * w \in Nat
  <2> DEFINE a == k * w
             e == end(k + 1)
  <2>1. a \in Nat /\ (k + 1) * w = a + w /\ a < n /\ k + 1 \in 1 .. t /\ (k + 1) - 1 = k
    <3>1. k \in Nat
      BY <1>2
    <3>2. a \in Nat /\ (k + 1) * w = a + w
      BY <1>1, <3>1, TimesGrows
    <3> QED BY <1>2, <3>1, <3>2
  <2>2. L[k + 1] = [j \in OnPage(s, k + 1) |-> s.lines[a + j]]
    BY <2>1
  <2> HIDE DEF a
  <2>3. e - a \in Nat /\ e - a = IF a + w < n THEN w ELSE n - a
    BY <1>1, <2>1
  <2>4. OnPage(s, k + 1) = 1 .. (e - a)
    <3>1. OnPage(s, k + 1) = {j \in 1 .. w : a + j <= n}
      BY <2>1 DEF OnPage, w, n, a
    <3> HIDE DEF e
    <3>2. CASE a + w < n
      <4>1. \A j \in 1 .. w : a + j <= n
        BY <1>1, <2>1, <3>2
      <4> QED BY <2>3, <3>1, <3>2, <4>1
    <3>3. CASE ~ (a + w < n)
      <4>1. /\ \A j \in 1 .. n - a : j \in 1 .. w /\ a + j <= n
            /\ \A j \in 1 .. w : a + j <= n => j \in 1 .. n - a
        BY <1>1, <2>1, <3>3
      <4>2. OnPage(s, k + 1) = 1 .. n - a
        <5> DEFINE X == 1 .. n - a
        <5> HIDE DEF X
        <5>1. \A j : j \in X <=> j \in OnPage(s, k + 1)
          BY <3>1, <4>1 DEF X
        <5>2. X = OnPage(s, k + 1)
          BY <5>1
        <5> QED BY <5>2 DEF X
      <4> QED BY <2>3, <3>3, <4>2
    <3> QED BY <3>2, <3>3
  <2>5. L[k + 1] = [j \in 1 .. (e - a) |-> s.lines[a + j]]
    BY <2>2, <2>4
  <2>6. end(k) = a
    BY <2>1 DEF a
  <2> HIDE DEF L, e
  <2>7. L[k + 1] = [j \in 1 .. (e - a) |-> L[k + 1][j]]
    BY <2>5
  <2>8. List(L[k + 1]) /\ Len(L[k + 1]) = e - a
    BY <2>3, <2>7, ToList
  <2> QED BY <2>1, <2>3, <2>5, <2>6, <2>8 DEF a, e
<1> HIDE DEF L
<1>6. \A i \in 1 .. t : List(L[i])
  <2> SUFFICES ASSUME NEW i \in 1 .. t PROVE List(L[i])
    OBVIOUS
  <2>1. i - 1 \in 0 .. t - 1 /\ (i - 1) + 1 = i
    BY <1>2
  <2>2. List(L[(i - 1) + 1])
    BY <1>5, <2>1
  <2> QED BY <2>1, <2>2
<1>7. PICK g : /\ g[0] = <<>>
               /\ \A k \in 0 .. t - 1 : g[k + 1] = g[k] \o L[k + 1]
               /\ \A k \in 0 .. t : List(g[k])
               /\ FlattenSeq(L) = g[t]
  BY <1>4, <1>6, FlattenSteps
<1> DEFINE T == {k \in 0 .. t : Len(g[k]) = end(k) /\ \A i \in 1 .. end(k) : g[k][i] = s.lines[i]}
<1>8. 0 \in T
  <2>1. 0 * w = 0 /\ 0 \in 0 .. t
    BY <1>1, <1>2
  <2>2. end(0) = 0
    BY <1>1, <2>1
  <2>3. Len(g[0]) = 0
    BY <1>7, EmptyList
  <2> HIDE DEF end
  <2> QED BY <2>1, <2>2, <2>3
<1>9. ASSUME NEW k \in 0 .. t - 1, k \in T PROVE k + 1 \in T
  <2> DEFINE a == g[k]
             b == L[k + 1]
             m == k * w
             e == end(k + 1)
  <2>1. /\ List(b) /\ Len(b) = e - m /\ \A j \in 1 .. e - m : b[j] = s.lines[m + j]
        /\ m \in Nat /\ end(k) = m /\ m < n /\ e - m \in Nat
    BY <1>5
  <2>2. List(a) /\ g[k + 1] = a \o b /\ k + 1 \in 0 .. t
    <3>1. k \in 0 .. t /\ k + 1 \in 0 .. t
      BY <1>2
    <3> QED BY <1>7, <3>1
  <2>3. Len(a) = m /\ \A i \in 1 .. m : a[i] = s.lines[i]
    BY <1>9, <2>1
  <2>5. e \in Int
    <3>1. (k + 1) * w = m + w
      BY <1>1, <1>2, TimesGrows
    <3>2. (k + 1) * w \in Int
      BY <1>1, <2>1, <3>1
    <3> QED BY <1>1, <3>2
  <2> HIDE DEF a, b, m, end, e
  <2>4. /\ Len(a \o b) = Len(a) + Len(b)
        /\ \A i \in 1 .. Len(a) : (a \o b)[i] = a[i]
        /\ \A i \in 1 .. Len(b) : (a \o b)[Len(a) + i] = b[i]
    BY <2>1, <2>2, ConcatList
  <2>6. Len(a \o b) = e
    BY <2>1, <2>3, <2>4, <2>5
  <2>7. ASSUME NEW i \in 1 .. e PROVE (a \o b)[i] = s.lines[i]
    <3>1. CASE i <= m
      BY <2>1, <2>3, <2>4, <3>1
    <3>2. CASE i > m
      <4>1. i - m \in 1 .. e - m /\ m + (i - m) = i
        BY <2>1, <2>5, <3>2
      <4>2. (a \o b)[m + (i - m)] = b[i - m] /\ b[i - m] = s.lines[m + (i - m)]
        BY <2>1, <2>3, <2>4, <4>1
      <4> QED BY <4>1, <4>2
    <3>3. i <= m \/ i > m
      BY <2>1, <2>5
    <3> QED BY <3>1, <3>2, <3>3
  <2> QED BY <2>2, <2>6, <2>7 DEF e
<1>10. \A k \in 0 .. t : k \in T
  <2> HIDE DEF T
  <2> QED BY <1>2, <1>8, <1>9, UpTo
<1>11. Len(g[t]) = n /\ \A i \in 1 .. n : g[t][i] = s.lines[i]
  <2>1. end(t) = n
    <3>1. t * w \in Nat
      BY <1>1, <1>2, TimesGrows
    <3> QED BY <1>1, <1>2, <3>1
  <2>2. t \in T
    BY <1>2, <1>10
  <2> HIDE DEF end
  <2> QED BY <2>1, <2>2
<1>12. g[t] = s.lines
  <2>1. List(g[t]) /\ Len(g[t]) = Len(s.lines)
    BY <1>2, <1>7, <1>11 DEF n
  <2> QED BY <1>11, <2>1, ListsEqual DEF n
<1> QED BY <1>3, <1>7, <1>12
-----------------------------------------------------------------------------
(* Sums over a finite set, one element after another: there is such a       *)
(* table, and it does not matter which element is taken first.              *)
Sums(g, v, c, I) == g = [s \in SUBSET I |-> IF s = {} THEN 0 ELSE g[s \ {c[s]}] + v[c[s]]]

LEMMA SumTable ==
    ASSUME NEW I, IsFiniteSet(I), NEW v, NEW c, \A s \in SUBSET I : s # {} => c[s] \in s
    PROVE  \E g : Sums(g, v, c, I)
<1> DEFINE F(g, s) == IF s = {} THEN 0 ELSE g[s \ {c[s]}] + v[c[s]]
           T == {n \in Nat : \E g : \A s \in SUBSET I : Cardinality(s) <= n => g[s] = F(g, s)}
<1>1. \A s \in SUBSET I : IsFiniteSet(s) /\ Cardinality(s) \in Nat
  BY FS_Subset, FS_CardinalityType
<1>2. \A s \in SUBSET I : s # {} => /\ s \ {c[s]} \in SUBSET I
                                    /\ Cardinality(s \ {c[s]}) = Cardinality(s) - 1
  BY <1>1, FS_RemoveElement
<1>3. 0 \in T
  <2> DEFINE g == [s \in SUBSET I |-> 0]
  <2>1. ASSUME NEW s \in SUBSET I, Cardinality(s) <= 0 PROVE g[s] = F(g, s)
    <3>1. s = {}
      BY <1>1, <2>1, FS_EmptySet
    <3> QED BY <3>1
  <2> HIDE DEF g, F
  <2> QED BY <2>1
<1>4. ASSUME NEW n \in T PROVE n + 1 \in T
  <2>0. n \in Nat
    OBVIOUS
  <2> PICK g : \A s \in SUBSET I : Cardinality(s) <= n => g[s] = F(g, s)
    OBVIOUS
  <2> DEFINE h == [s \in SUBSET I |-> IF Cardinality(s) <= n THEN g[s] ELSE F(g, s)]
  <2>1. ASSUME NEW s \in SUBSET I PROVE h[s] = F(g, s)
    <3> HIDE DEF F
    <3> QED OBVIOUS
  <2>2. ASSUME NEW s \in SUBSET I, Cardinality(s) <= n + 1 PROVE F(g, s) = F(h, s)
    <3>1. CASE s = {}
      BY <3>1
    <3>2. CASE s # {}
      <4>1. s \ {c[s]} \in SUBSET I /\ Cardinality(s \ {c[s]}) <= n
        BY <1>1, <1>2, <2>0, <2>2, <3>2
      <4>2. h[s \ {c[s]}] = g[s \ {c[s]}]
        <5> HIDE DEF F
        <5> QED BY <4>1
      <4> HIDE DEF h
      <4> QED BY <3>2, <4>2
    <3> QED BY <3>1, <3>2
  <2> HIDE DEF h, F
  <2>3. \A s \in SUBSET I : Cardinality(s) <= n + 1 => h[s] = F(h, s)
    BY <2>1, <2>2
  <2> QED BY <2>0, <2>3
<1>5. T = Nat
  <2>1. T \subseteq Nat
    OBVIOUS
  <2> HIDE DEF T
  <2> QED BY <1>3, <1>4, <2>1, NatSet
<1>6. Cardinality(I) \in T
  <2> HIDE DEF T
  <2> QED BY <1>5, FS_CardinalityType
<1>7. PICK g : \A s \in SUBSET I : Cardinality(s) <= Cardinality(I) => g[s] = F(g, s)
  BY <1>6
<1>8. \A s \in SUBSET I : Cardinality(s) <= Cardinality(I)
  BY FS_Subset
<1> DEFINE h == [s \in SUBSET I |-> F(g, s)]
<1>9. \A s \in SUBSET I : h[s] = g[s]
  BY <1>7, <1>8
<1>10. ASSUME NEW s \in SUBSET I PROVE F(g, s) = F(h, s)
  <2>1. CASE s = {}
    BY <2>1
  <2>2. CASE s # {}
    <3>1. s \ {c[s]} \in SUBSET I
      OBVIOUS
    <3>2. h[s \ {c[s]}] = g[s \ {c[s]}]
      <4> HIDE DEF h
      <4> QED BY <1>9, <3>1
    <3> HIDE DEF h
    <3> QED BY <2>2, <3>2
  <2> QED BY <2>1, <2>2
<1>11. h = [s \in SUBSET I |-> F(h, s)]
  <2> DEFINE k == [s \in SUBSET I |-> F(h, s)]
  <2>1. h = [s \in SUBSET I |-> h[s]] /\ k = [s \in SUBSET I |-> k[s]]
    <3> HIDE DEF F
    <3> QED OBVIOUS
  <2>2. \A s \in SUBSET I : h[s] = F(g, s) /\ k[s] = F(h, s)
    <3> HIDE DEF F
    <3> QED OBVIOUS
  <2> HIDE DEF h, k, F
  <2>3. \A s \in SUBSET I : h[s] = k[s]
    BY <1>10, <2>2
  <2>4. h = k
    BY <2>1, <2>3
  <2> QED BY <2>4 DEF k
<1> HIDE DEF h
<1> QED BY <1>11 DEF Sums

Adds(g, v, I) == \A s \in SUBSET I : /\ g[s] \in Int
                                     /\ s = {} => g[s] = 0
                                     /\ \A x \in s : g[s] = g[s \ {x}] + v[x]

LEMMA TableAdds ==
    ASSUME NEW I, IsFiniteSet(I), NEW v, \A x \in I : v[x] \in Int,
           NEW c, \A s \in SUBSET I : s # {} => c[s] \in s,
           NEW g, Sums(g, v, c, I)
    PROVE  Adds(g, v, I)
<1> DEFINE Good(s) == /\ g[s] \in Int
                      /\ s = {} => g[s] = 0
                      /\ \A x \in s : g[s] = g[s \ {x}] + v[x]
           T == {n \in Nat : \A s \in SUBSET I : Cardinality(s) <= n => Good(s)}
<1>0. \A s \in SUBSET I : g[s] = IF s = {} THEN 0 ELSE g[s \ {c[s]}] + v[c[s]]
  BY DEF Sums
<1>1. \A s \in SUBSET I : IsFiniteSet(s) /\ Cardinality(s) \in Nat
  BY FS_Subset, FS_CardinalityType
<1>2. ASSUME NEW s \in SUBSET I, NEW x \in s
      PROVE  s \ {x} \in SUBSET I /\ Cardinality(s \ {x}) = Cardinality(s) - 1
  BY <1>1, FS_RemoveElement
<1>3. 0 \in T
  <2>1. ASSUME NEW s \in SUBSET I, Cardinality(s) <= 0 PROVE Good(s)
    <3>1. s = {}
      BY <1>1, <2>1, FS_EmptySet
    <3>2. g[{}] = 0
      BY <1>0
    <3> QED BY <3>1, <3>2
  <2> HIDE DEF Good
  <2> QED BY <2>1
<1>4. ASSUME NEW n \in T PROVE n + 1 \in T
  <2>0. n \in Nat /\ \A s \in SUBSET I : Cardinality(s) <= n => Good(s)
    OBVIOUS
  <2>1. ASSUME NEW s \in SUBSET I, Cardinality(s) <= n + 1, s # {} PROVE Good(s)
    <3> DEFINE y == c[s]
    <3>1. y \in s /\ g[s] = g[s \ {y}] + v[y]
      BY <1>0, <2>1
    <3> HIDE DEF y
    <3>2. \A x \in s : /\ s \ {x} \in SUBSET I /\ Cardinality(s \ {x}) <= n /\ v[x] \in Int
                       /\ g[s \ {x}] \in Int
      <4> SUFFICES ASSUME NEW x \in s
                   PROVE  /\ s \ {x} \in SUBSET I /\ Cardinality(s \ {x}) <= n /\ v[x] \in Int
                          /\ g[s \ {x}] \in Int
        OBVIOUS
      <4>1. s \ {x} \in SUBSET I /\ Cardinality(s \ {x}) <= n
        <5>1. Cardinality(s \ {x}) = Cardinality(s) - 1
          BY <1>2
        <5> QED BY <1>1, <2>0, <2>1, <5>1
      <4>2. Good(s \ {x})
        BY <2>0, <4>1
      <4> QED BY <4>1, <4>2
    <3>3. g[s] \in Int
      <4>1. g[s \ {y}] \in Int /\ v[y] \in Int
        BY <3>1, <3>2
      <4> QED BY <3>1, <4>1
    <3>4. ASSUME NEW x \in s, x # y PROVE g[s] = g[s \ {x}] + v[x]
      <4> DEFINE t == (s \ {y}) \ {x}
      <4>1. Good(s \ {y}) /\ Good(s \ {x})
        BY <2>0, <3>1, <3>2
      <4>2. x \in s \ {y} /\ y \in s \ {x} /\ (s \ {x}) \ {y} = t
        BY <3>1, <3>4
      <4>3. g[s \ {y}] = g[t] + v[x] /\ g[s \ {x}] = g[t] + v[y]
        BY <4>1, <4>2
      <4>4. t \in SUBSET I /\ g[t] \in Int
        <5>1. s \ {y} \in SUBSET I /\ Cardinality(s \ {y}) <= n /\ x \in s \ {y}
          BY <3>1, <3>2, <4>2
        <5>2. t \in SUBSET I /\ Cardinality(t) = Cardinality(s \ {y}) - 1
          BY <1>2, <5>1
        <5>3. Cardinality(t) <= n
          BY <1>1, <2>0, <5>1, <5>2
        <5>4. Good(t)
          BY <2>0, <5>2, <5>3
        <5> QED BY <5>2, <5>4
      <4> HIDE DEF t
      <4> QED BY <3>1, <3>2, <4>3, <4>4
    <3> QED BY <2>1, <3>1, <3>3, <3>4
  <2>2. ASSUME NEW s \in SUBSET I, s = {} PROVE Good(s)
    BY <1>0, <2>2
  <2> HIDE DEF Good
  <2>3. \A s \in SUBSET I : Cardinality(s) <= n + 1 => Good(s)
    BY <2>1, <2>2
  <2> QED BY <2>0, <2>3
<1>5. T = Nat
  <2>1. T \subseteq Nat
    OBVIOUS
  <2> HIDE DEF T
  <2> QED BY <1>3, <1>4, <2>1, NatSet
<1>6. ASSUME NEW s \in SUBSET I PROVE Good(s)
  <2>1. Cardinality(s) \in Nat /\ Cardinality(s) <= Cardinality(s)
    BY <1>1
  <2>2. Cardinality(s) \in T
    <3> HIDE DEF T
    <3> QED BY <1>5, <2>1
  <2> HIDE DEF Good
  <2> QED BY <2>1, <2>2
<1> QED BY <1>6 DEF Adds
(* FoldSeq and MapThenSumSet take the element CHOOSE takes.                 *)
Totals(v, I) ==
    LET iter[s \in SUBSET I] ==
          IF s = {} THEN 0
          ELSE iter[s \ {CHOOSE x \in s : TRUE}] + v[CHOOSE x \in s : TRUE]
    IN  iter
TotalsOf(v, I) ==
    LET iter[s \in SUBSET I] ==
          IF s = {} THEN 0
          ELSE v[CHOOSE x \in s : TRUE] + iter[s \ {CHOOSE x \in s : TRUE}]
    IN  iter

LEMMA TotalsAdd ==
    ASSUME NEW I, IsFiniteSet(I), NEW v, \A x \in I : v[x] \in Int
    PROVE  Adds(Totals(v, I), v, I)
<1> DEFINE c == [s \in SUBSET I |-> CHOOSE x \in s : TRUE]
           F(g) == [s \in SUBSET I |-> IF s = {} THEN 0
                     ELSE g[s \ {CHOOSE x \in s : TRUE}] + v[CHOOSE x \in s : TRUE]]
           iter == CHOOSE g : g = F(g)
<1>1. /\ \A s \in SUBSET I : s # {} => c[s] \in s
      /\ \A s \in SUBSET I : c[s] = CHOOSE x \in s : TRUE
  OBVIOUS
<1> HIDE DEF c
<1>2. \A g : g = F(g) <=> Sums(g, v, c, I)
  BY <1>1 DEF Sums
<1>3. \E g : Sums(g, v, c, I)
  BY <1>1, SumTable
<1>4. iter = F(iter)
  <2> HIDE DEF F
  <2> QED BY <1>2, <1>3
<1>5. Sums(iter, v, c, I)
  <2> HIDE DEF iter, F
  <2> QED BY <1>2, <1>4
<1>6. Adds(iter, v, I)
  <2> HIDE DEF iter
  <2> QED BY <1>1, <1>5, TableAdds
<1> QED BY <1>6 DEF Totals

LEMMA TotalsOfAdd ==
    ASSUME NEW I, IsFiniteSet(I), NEW v, \A x \in I : v[x] \in Int
    PROVE  Adds(TotalsOf(v, I), v, I)
<1> DEFINE c == [s \in SUBSET I |-> CHOOSE x \in s : TRUE]
           F(g) == [s \in SUBSET I |-> IF s = {} THEN 0
                     ELSE v[CHOOSE x \in s : TRUE] + g[s \ {CHOOSE x \in s : TRUE}]]
           iter == CHOOSE g : g = F(g)
           Whole(g) == \A s \in SUBSET I : g[s] \in Int
<1>1. /\ \A s \in SUBSET I : s # {} => c[s] \in s
      /\ \A s \in SUBSET I : c[s] = CHOOSE x \in s : TRUE
  OBVIOUS
<1> HIDE DEF c
<1>2. ASSUME NEW g, Whole(g) PROVE g = F(g) <=> Sums(g, v, c, I)
  <2> DEFINE H == [s \in SUBSET I |-> IF s = {} THEN 0 ELSE g[s \ {c[s]}] + v[c[s]]]
             K == F(g)
  <2>1. ASSUME NEW s \in SUBSET I PROVE H[s] = K[s]
    <3>1. CASE s = {}
      BY <3>1
    <3>2. CASE s # {}
      <4>1. c[s] \in s /\ c[s] = (CHOOSE x \in s : TRUE) /\ v[c[s]] \in Int
        BY <1>1, <3>2
      <4>2. g[s \ {c[s]}] \in Int
        BY <1>2
      <4>3. H[s] = g[s \ {c[s]}] + v[c[s]]
        BY <3>2
      <4>4. K[s] = v[CHOOSE x \in s : TRUE] + g[s \ {CHOOSE x \in s : TRUE}]
        BY <3>2
      <4>5. K[s] = v[c[s]] + g[s \ {c[s]}]
        BY <4>1, <4>4
      <4> HIDE DEF H, K
      <4> QED BY <4>1, <4>2, <4>3, <4>5
    <3> QED BY <3>1, <3>2
  <2>2. H = [s \in SUBSET I |-> H[s]] /\ K = [s \in SUBSET I |-> K[s]]
    OBVIOUS
  <2> HIDE DEF H, K
  <2>3. H = K
    BY <2>1, <2>2
  <2> QED BY <2>3 DEF H, K, Sums
<1>3. PICK t : Sums(t, v, c, I)
  BY <1>1, SumTable
<1>4. t = F(t)
  <2>1. Adds(t, v, I)
    BY <1>1, <1>3, TableAdds
  <2>2. Whole(t)
    BY <2>1 DEF Adds
  <2> HIDE DEF F, Whole
  <2> QED BY <1>2, <1>3, <2>2
<1>5. iter = F(iter)
  <2> HIDE DEF F
  <2> QED BY <1>4
<1>6. Whole(iter)
  <2> HIDE DEF iter
  <2> DEFINE T == {n \in Nat : \A s \in SUBSET I : Cardinality(s) <= n => iter[s] \in Int}
  <2>0. \A s \in SUBSET I : IsFiniteSet(s) /\ Cardinality(s) \in Nat
    BY FS_Subset, FS_CardinalityType
  <2>1. \A s \in SUBSET I : iter[s] = IF s = {} THEN 0
                     ELSE v[CHOOSE x \in s : TRUE] + iter[s \ {CHOOSE x \in s : TRUE}]
    BY <1>5
  <2>2. \A s \in SUBSET I : s # {} => iter[s] = v[c[s]] + iter[s \ {c[s]}]
    BY <1>1, <2>1
  <2>3. iter[{}] = 0
    BY <2>1
  <2>4. 0 \in T
    <3>1. ASSUME NEW s \in SUBSET I, Cardinality(s) <= 0 PROVE iter[s] \in Int
      <4>1. s = {}
        BY <2>0, <3>1, FS_EmptySet
      <4> QED BY <2>3, <4>1
    <3> QED BY <3>1
  <2>5. ASSUME NEW n \in T PROVE n + 1 \in T
    <3>0. n \in Nat /\ \A s \in SUBSET I : Cardinality(s) <= n => iter[s] \in Int
      OBVIOUS
    <3>1. ASSUME NEW s \in SUBSET I, Cardinality(s) <= n + 1 PROVE iter[s] \in Int
      <4>1. CASE s = {}
        BY <2>3, <4>1
      <4>2. CASE s # {}
        <5>1. c[s] \in s /\ s \ {c[s]} \in SUBSET I /\ v[c[s]] \in Int
          BY <1>1, <4>2
        <5>2. Cardinality(s \ {c[s]}) = Cardinality(s) - 1
          BY <2>0, <5>1, FS_RemoveElement
        <5>3. Cardinality(s \ {c[s]}) <= n
          BY <2>0, <3>0, <3>1, <5>2
        <5>4. iter[s \ {c[s]}] \in Int
          BY <3>0, <5>1, <5>3
        <5>5. iter[s] = v[c[s]] + iter[s \ {c[s]}]
          BY <2>2, <4>2
        <5> QED BY <5>1, <5>4, <5>5
      <4> QED BY <4>1, <4>2
    <3> QED BY <3>0, <3>1
  <2>6. T = Nat
    <3>1. T \subseteq Nat
      OBVIOUS
    <3> HIDE DEF T
    <3> QED BY <2>4, <2>5, <3>1, NatSet
  <2>7. ASSUME NEW s \in SUBSET I PROVE iter[s] \in Int
    <3>1. Cardinality(s) \in Nat /\ Cardinality(s) <= Cardinality(s)
      BY <2>0
    <3>2. Cardinality(s) \in T
      <4> HIDE DEF T
      <4> QED BY <2>6, <3>1
    <3> QED BY <3>1, <3>2
  <2> QED BY <2>7
<1>7. Sums(iter, v, c, I)
  <2> HIDE DEF iter, F, Whole
  <2> QED BY <1>2, <1>5, <1>6
<1>8. Adds(iter, v, I)
  <2> HIDE DEF iter
  <2> QED BY <1>1, <1>7, TableAdds
<1> QED BY <1>8 DEF TotalsOf

(* The columns of the lines, of the footers, and the amounts; their sums.   *)
CellsIn(L, c) == [i \in 1 .. Len(L) |-> L[i].cells[c]]
FootsIn(L, c) == [i \in 1 .. Len(L) |-> L[i].foot[c]]
Amounts(S) == [r \in S |-> r.amt]
CellSum(L, c) == FoldSeq(LAMBDA l, t : t + l.cells[c], 0, L)
FootSum(L, c) == FoldSeq(LAMBDA s, t : t + s.foot[c], 0, L)
AmountSum(S) == MapThenSumSet(LAMBDA r : r.amt, S)

LEMMA CellsAdd ==
    ASSUME NEW L, List(L), NEW c, \A i \in 1 .. Len(L) : L[i].cells[c] \in Int
    PROVE  \E g : Adds(g, CellsIn(L, c), 1 .. Len(L)) /\ CellSum(L, c) = g[1 .. Len(L)]
<1> DEFINE I == 1 .. Len(L)
           v == [i \in I |-> L[i].cells[c]]
           F(g) == [s \in SUBSET I |-> IF s = {} THEN 0
                     ELSE g[s \ {CHOOSE x \in s : TRUE}] + L[CHOOSE x \in s : TRUE].cells[c]]
           G(g) == [s \in SUBSET I |-> IF s = {} THEN 0
                     ELSE g[s \ {CHOOSE x \in s : TRUE}] + v[CHOOSE x \in s : TRUE]]
<1>1. IsFiniteSet(I) /\ DOMAIN L = I
  BY ListLen, FS_Interval
<1>2. CellSum(L, c) = (CHOOSE g : g = F(g))[I]
  BY <1>1 DEF CellSum, FoldSeq, FoldFunction, FoldFunctionOnSet, MapThenFoldSet
<1>3. \A g : F(g) = G(g)
  OBVIOUS
<1>4. (CHOOSE g : g = F(g)) = (CHOOSE g : g = G(g))
  <2> HIDE DEF F, G
  <2> QED BY <1>3
<1>5. Totals(v, I) = (CHOOSE g : g = G(g))
  <2> HIDE DEF v, I
  <2> QED BY DEF Totals
<1>6. Adds(Totals(v, I), v, I)
  <2>1. \A x \in I : v[x] \in Int
    OBVIOUS
  <2> HIDE DEF v, I
  <2> QED BY <1>1, <2>1, TotalsAdd
<1>8. v = CellsIn(L, c)
  BY DEF CellsIn
<1> HIDE DEF F, G, v, I
<1>7. CellSum(L, c) = Totals(v, I)[I]
  BY <1>2, <1>4, <1>5
<1> QED BY <1>6, <1>7, <1>8 DEF I

LEMMA FootsAdd ==
    ASSUME NEW L, List(L), NEW c, \A i \in 1 .. Len(L) : L[i].foot[c] \in Int
    PROVE  \E g : Adds(g, FootsIn(L, c), 1 .. Len(L)) /\ FootSum(L, c) = g[1 .. Len(L)]
<1> DEFINE I == 1 .. Len(L)
           v == [i \in I |-> L[i].foot[c]]
           F(g) == [s \in SUBSET I |-> IF s = {} THEN 0
                     ELSE g[s \ {CHOOSE x \in s : TRUE}] + L[CHOOSE x \in s : TRUE].foot[c]]
           G(g) == [s \in SUBSET I |-> IF s = {} THEN 0
                     ELSE g[s \ {CHOOSE x \in s : TRUE}] + v[CHOOSE x \in s : TRUE]]
<1>1. IsFiniteSet(I) /\ DOMAIN L = I
  BY ListLen, FS_Interval
<1>2. FootSum(L, c) = (CHOOSE g : g = F(g))[I]
  BY <1>1 DEF FootSum, FoldSeq, FoldFunction, FoldFunctionOnSet, MapThenFoldSet
<1>3. \A g : F(g) = G(g)
  OBVIOUS
<1>4. (CHOOSE g : g = F(g)) = (CHOOSE g : g = G(g))
  <2> HIDE DEF F, G
  <2> QED BY <1>3
<1>5. Totals(v, I) = (CHOOSE g : g = G(g))
  <2> HIDE DEF v, I
  <2> QED BY DEF Totals
<1>6. Adds(Totals(v, I), v, I)
  <2>1. \A x \in I : v[x] \in Int
    OBVIOUS
  <2> HIDE DEF v, I
  <2> QED BY <1>1, <2>1, TotalsAdd
<1>8. v = FootsIn(L, c)
  BY DEF FootsIn
<1> HIDE DEF F, G, v, I
<1>7. FootSum(L, c) = Totals(v, I)[I]
  BY <1>2, <1>4, <1>5
<1> QED BY <1>6, <1>7, <1>8 DEF I

LEMMA AmountsAdd ==
    ASSUME NEW S, IsFiniteSet(S), \A r \in S : r.amt \in Int
    PROVE  \E g : Adds(g, Amounts(S), S) /\ AmountSum(S) = g[S]
<1> DEFINE v == [r \in S |-> r.amt]
           F(g) == [s \in SUBSET S |-> IF s = {} THEN 0
                     ELSE (CHOOSE x \in s : TRUE).amt + g[s \ {CHOOSE x \in s : TRUE}]]
           G(g) == [s \in SUBSET S |-> IF s = {} THEN 0
                     ELSE v[CHOOSE x \in s : TRUE] + g[s \ {CHOOSE x \in s : TRUE}]]
<1>1. AmountSum(S) = (CHOOSE g : g = F(g))[S]
  BY DEF AmountSum, MapThenSumSet, MapThenFoldSet
<1>2. \A g : F(g) = G(g)
  OBVIOUS
<1>3. (CHOOSE g : g = F(g)) = (CHOOSE g : g = G(g))
  <2> HIDE DEF F, G
  <2> QED BY <1>2
<1>4. TotalsOf(v, S) = (CHOOSE g : g = G(g))
  <2> HIDE DEF v
  <2> QED BY DEF TotalsOf
<1>5. Adds(TotalsOf(v, S), v, S)
  <2>1. \A x \in S : v[x] \in Int
    OBVIOUS
  <2> HIDE DEF v
  <2> QED BY <2>1, TotalsOfAdd
<1>7. v = Amounts(S)
  BY DEF Amounts
<1> HIDE DEF F, G, v
<1>6. AmountSum(S) = TotalsOf(v, S)[S]
  BY <1>1, <1>3, <1>4
<1> QED BY <1>5, <1>6, <1>7
(* Two sums of the same numbers are the same, and the sum over two sets     *)
(* that share nothing is the sum of their sums.                             *)
Alike(v, w, J) == \A x \in J : v[x] = w[x]
Numbers(v, I) == \A x \in I : v[x] \in Int

LEMMA AddsSame ==
    ASSUME NEW I, NEW J, IsFiniteSet(J), J \subseteq I, NEW v, NEW w, Alike(v, w, J),
           NEW g, NEW h, Adds(g, v, I), Adds(h, w, J)
    PROVE  Alike(g, h, SUBSET J)
<1>0. \A x \in J : v[x] = w[x]
  BY DEF Alike
<1> DEFINE T == {n \in Nat : \A s \in SUBSET J : Cardinality(s) <= n => g[s] = h[s]}
<1>1. \A s \in SUBSET J : IsFiniteSet(s) /\ Cardinality(s) \in Nat
  BY FS_Subset, FS_CardinalityType
<1>2. 0 \in T
  <2>1. ASSUME NEW s \in SUBSET J, Cardinality(s) <= 0 PROVE g[s] = h[s]
    <3>1. s = {}
      BY <1>1, <2>1, FS_EmptySet
    <3>2. g[s] = 0 /\ h[s] = 0
      BY <3>1 DEF Adds
    <3> QED BY <3>2
  <2> QED BY <2>1
<1>3. ASSUME NEW n \in T PROVE n + 1 \in T
  <2>0. n \in Nat /\ \A s \in SUBSET J : Cardinality(s) <= n => g[s] = h[s]
    OBVIOUS
  <2>1. ASSUME NEW s \in SUBSET J, Cardinality(s) <= n + 1 PROVE g[s] = h[s]
    <3>1. CASE s = {}
      BY <3>1 DEF Adds
    <3>2. CASE s # {}
      <4>1. PICK x \in s : TRUE
        BY <3>2
      <4>2. Cardinality(s \ {x}) = Cardinality(s) - 1
        BY <1>1, FS_RemoveElement
      <4>3. s \ {x} \in SUBSET J /\ Cardinality(s \ {x}) <= n
        BY <1>1, <2>0, <2>1, <4>2
      <4>4. g[s \ {x}] = h[s \ {x}] /\ v[x] = w[x]
        BY <1>0, <2>0, <4>3
      <4>5. g[s] = g[s \ {x}] + v[x] /\ h[s] = h[s \ {x}] + w[x]
        BY DEF Adds
      <4> QED BY <4>4, <4>5
    <3> QED BY <3>1, <3>2
  <2> QED BY <2>0, <2>1
<1>4. T = Nat
  <2>1. T \subseteq Nat
    OBVIOUS
  <2> HIDE DEF T
  <2> QED BY <1>2, <1>3, <2>1, NatSet
<1>5. ASSUME NEW s \in SUBSET J PROVE g[s] = h[s]
  <2>1. Cardinality(s) \in Nat /\ Cardinality(s) <= Cardinality(s)
    BY <1>1
  <2>2. Cardinality(s) \in T
    <3> HIDE DEF T
    <3> QED BY <1>4, <2>1
  <2> QED BY <2>1, <2>2
<1> QED BY <1>5 DEF Alike

LEMMA AddsApart ==
    ASSUME NEW I, IsFiniteSet(I), NEW v, Numbers(v, I), NEW g, Adds(g, v, I),
           NEW A \in SUBSET I, NEW B \in SUBSET I, A \cap B = {}
    PROVE  g[A \cup B] = g[A] + g[B]
<1> DEFINE Good(s) == A \cap s = {} => g[A \cup s] = g[A] + g[s]
           T == {n \in Nat : \A s \in SUBSET I : Cardinality(s) <= n => Good(s)}
<1>1. \A s \in SUBSET I : IsFiniteSet(s) /\ Cardinality(s) \in Nat
  BY FS_Subset, FS_CardinalityType
<1>2. \A s \in SUBSET I : s = {} => Good(s)
  <2>1. g[A] \in Int /\ g[{}] = 0
    BY DEF Adds
  <2>2. A \cup {} = A
    OBVIOUS
  <2> QED BY <2>1, <2>2
<1>3. 0 \in T
  <2> HIDE DEF Good
  <2>1. ASSUME NEW s \in SUBSET I, Cardinality(s) <= 0 PROVE Good(s)
    <3>1. s = {}
      BY <1>1, <2>1, FS_EmptySet
    <3> QED BY <1>2, <3>1
  <2> QED BY <2>1
<1>4. ASSUME NEW n \in T PROVE n + 1 \in T
  <2>0. n \in Nat /\ \A s \in SUBSET I : Cardinality(s) <= n => Good(s)
    OBVIOUS
  <2>1. ASSUME NEW s \in SUBSET I, Cardinality(s) <= n + 1, A \cap s = {}, s # {}
        PROVE  g[A \cup s] = g[A] + g[s]
    <3>1. PICK x \in s : TRUE
      BY <2>1
    <3>2. Cardinality(s \ {x}) = Cardinality(s) - 1
      BY <1>1, FS_RemoveElement
    <3>3. s \ {x} \in SUBSET I /\ Cardinality(s \ {x}) <= n /\ A \cap (s \ {x}) = {}
      BY <1>1, <2>0, <2>1, <3>2
    <3>4. g[A \cup (s \ {x})] = g[A] + g[s \ {x}]
      BY <2>0, <3>3
    <3>5. A \cup s \in SUBSET I /\ x \in A \cup s /\ (A \cup s) \ {x} = A \cup (s \ {x})
      BY <2>1
    <3>6. g[A \cup s] = g[(A \cup s) \ {x}] + v[x]
      BY <3>5 DEF Adds
    <3>7. g[s] = g[s \ {x}] + v[x] /\ v[x] \in Int /\ g[A] \in Int /\ g[s \ {x}] \in Int
      BY <3>3 DEF Adds, Numbers
    <3> DEFINE a == g[A]
               b == g[s \ {x}]
    <3>8. g[A \cup s] = (a + b) + v[x] /\ g[s] = b + v[x]
      BY <3>4, <3>5, <3>6, <3>7
    <3>9. a \in Int /\ b \in Int /\ v[x] \in Int
      BY <3>7
    <3> HIDE DEF T, a, b
    <3>10. g[A \cup s] = a + g[s]
      BY <3>8, <3>9
    <3> QED BY <3>10 DEF a
  <2>2. \A s \in SUBSET I : Cardinality(s) <= n + 1 => Good(s)
    BY <1>2, <2>1
  <2> HIDE DEF Good
  <2> QED BY <2>0, <2>2
<1>5. T = Nat
  <2>1. T \subseteq Nat
    OBVIOUS
  <2> HIDE DEF T
  <2> QED BY <1>3, <1>4, <2>1, NatSet
<1>6. Good(B)
  <2>1. Cardinality(B) \in Nat /\ Cardinality(B) <= Cardinality(B)
    BY <1>1
  <2>2. Cardinality(B) \in T
    <3> HIDE DEF T
    <3> QED BY <1>5, <2>1
  <2> HIDE DEF Good
  <2> QED BY <2>1, <2>2
<1> QED BY <1>6

-----------------------------------------------------------------------------
(* What is counted or added up row by row: the number of the rows, their    *)
(* amounts, and either of those of some kind.                               *)
Measure(mu, U) ==
    /\ \A S \in SUBSET U : mu[S] \in Int
    /\ mu[{}] = 0
    /\ \A S, T \in SUBSET U : S \cap T = {} => mu[S \cup T] = mu[S] + mu[T]
Count(U) == [S \in SUBSET U |-> Cardinality(S)]
Amount(U) == [S \in SUBSET U |-> AmountSum(S)]
Among(mu, U, F) == [S \in SUBSET U |-> mu[S \cap F]]

LEMMA CountMeasure ==
    ASSUME NEW U, IsFiniteSet(U)
    PROVE  Measure(Count(U), U)
<1>1. \A S \in SUBSET U : Cardinality(S) \in Nat /\ IsFiniteSet(S)
  BY FS_Subset, FS_CardinalityType
<1>2. Count(U)[{}] = 0
  BY FS_EmptySet DEF Count
<1>3. ASSUME NEW S \in SUBSET U, NEW T \in SUBSET U, S \cap T = {}
      PROVE  Count(U)[S \cup T] = Count(U)[S] + Count(U)[T]
  <2>1. Cardinality(S \cup T) = Cardinality(S) + Cardinality(T) - Cardinality(S \cap T)
    BY <1>1, FS_Union
  <2>2. Cardinality(S \cap T) = 0
    BY <1>3, FS_EmptySet
  <2>3. S \cup T \in SUBSET U
    OBVIOUS
  <2> QED BY <1>1, <2>1, <2>2, <2>3 DEF Count
<1>4. \A S \in SUBSET U : Count(U)[S] \in Int
  BY <1>1 DEF Count
<1> QED BY <1>2, <1>3, <1>4 DEF Measure

LEMMA AmountMeasure ==
    ASSUME NEW U, IsFiniteSet(U), \A r \in U : r.amt \in Int
    PROVE  Measure(Amount(U), U)
<1>0. \A S \in SUBSET U : \A r \in S : Amounts(S)[r] = r.amt /\ r.amt \in Int
  BY DEF Amounts
<1>1. PICK g : Adds(g, Amounts(U), U)
  BY AmountsAdd
<1>2. ASSUME NEW S \in SUBSET U PROVE Amount(U)[S] = g[S]
  <2>1. IsFiniteSet(S)
    BY FS_Subset
  <2>2. PICK h : Adds(h, Amounts(S), S) /\ AmountSum(S) = h[S]
    BY <2>1, AmountsAdd
  <2>3. S \subseteq U /\ Alike(Amounts(U), Amounts(S), S)
    BY <1>0 DEF Alike
  <2>4. Alike(g, h, SUBSET S)
    BY <1>1, <2>1, <2>2, <2>3, AddsSame
  <2> QED BY <2>2, <2>4 DEF Amount, Alike
<1>3. ASSUME NEW S \in SUBSET U, NEW T \in SUBSET U, S \cap T = {}
      PROVE  g[S \cup T] = g[S] + g[T]
  <2>1. Numbers(Amounts(U), U)
    BY <1>0 DEF Numbers
  <2> QED BY <1>1, <1>3, <2>1, AddsApart
<1>4. \A S, T \in SUBSET U : S \cup T \in SUBSET U
  OBVIOUS
<1>5. g[{}] = 0 /\ \A S \in SUBSET U : g[S] \in Int
  BY <1>1 DEF Adds
<1> QED BY <1>2, <1>3, <1>4, <1>5 DEF Measure

LEMMA AmongMeasure ==
    ASSUME NEW U, NEW mu, Measure(mu, U), NEW F
    PROVE  Measure(Among(mu, U, F), U)
<1> DEFINE nu == Among(mu, U, F)
<1>1. \A S \in SUBSET U : nu[S] = mu[S \cap F] /\ S \cap F \in SUBSET U
  BY DEF Among
<1>2. \A S \in SUBSET U : nu[S] \in Int
  BY <1>1 DEF Measure
<1>3. nu[{}] = 0
  <2>1. {} \cap F = {} /\ {} \in SUBSET U
    OBVIOUS
  <2>2. nu[{}] = mu[{} \cap F]
    BY <1>1
  <2> QED BY <2>1, <2>2 DEF Measure
<1>4. ASSUME NEW S \in SUBSET U, NEW T \in SUBSET U, S \cap T = {}
      PROVE  nu[S \cup T] = nu[S] + nu[T]
  <2>1. /\ (S \cup T) \cap F = (S \cap F) \cup (T \cap F) /\ (S \cap F) \cap (T \cap F) = {}
        /\ S \cup T \in SUBSET U
    BY <1>4
  <2>2. S \cap F \in SUBSET U /\ T \cap F \in SUBSET U
    OBVIOUS
  <2>3. mu[(S \cap F) \cup (T \cap F)] = mu[S \cap F] + mu[T \cap F]
    BY <2>1, <2>2 DEF Measure
  <2>4. nu[S \cup T] = mu[(S \cup T) \cap F] /\ nu[S] = mu[S \cap F] /\ nu[T] = mu[T \cap F]
    BY <1>1, <2>1
  <2> QED BY <2>1, <2>3, <2>4
<1> QED BY <1>2, <1>3, <1>4 DEF Measure

(* The sum of what is measured of the parts is what is measured of the      *)
(* whole.                                                                   *)
LEMMA SumOfParts ==
    ASSUME NEW U, NEW mu, Measure(mu, U), NEW n \in Nat, NEW P, Parts(P, n),
           \A i \in 1 .. n : P[i] \in SUBSET U,
           NEW x, \A i \in 1 .. n : x[i] = mu[P[i]], NEW g, Adds(g, x, 1 .. n)
    PROVE  g[1 .. n] = mu[Joined(P, n)] /\ Joined(P, n) \in SUBSET U
<1> DEFINE T == {k \in 0 .. n : g[1 .. k] = mu[Joined(P, k)] /\ Joined(P, k) \in SUBSET U}
<1>1. 0 \in T
  <2>1. Joined(P, 0) = {} /\ 1 .. 0 = {} /\ 0 \in 0 .. n
    BY DEF Joined
  <2>2. g[{}] = 0 /\ mu[{}] = 0
    BY DEF Adds, Measure
  <2> QED BY <2>1, <2>2
<1>2. ASSUME NEW k \in 0 .. n - 1, k \in T PROVE k + 1 \in T
  <2>0. g[1 .. k] = mu[Joined(P, k)] /\ Joined(P, k) \in SUBSET U
    BY <1>2
  <2>1. /\ k + 1 \in 0 .. n /\ k + 1 \in 1 .. n /\ k + 1 \in 1 .. (k + 1)
        /\ (1 .. (k + 1)) \ {k + 1} = 1 .. k /\ 1 .. (k + 1) \in SUBSET (1 .. n)
        /\ 1 .. (k + 1) = (1 .. k) \cup {k + 1}
    OBVIOUS
  <2>2. g[1 .. (k + 1)] = g[1 .. k] + x[k + 1]
    <3>1. g[1 .. (k + 1)] = g[(1 .. (k + 1)) \ {k + 1}] + x[k + 1]
      BY <2>1 DEF Adds
    <3> QED BY <2>1, <3>1
  <2>3. Joined(P, k + 1) = Joined(P, k) \cup P[k + 1]
    BY <2>1 DEF Joined
  <2>4. Joined(P, k) \cap P[k + 1] = {}
    <3>1. \A i \in 1 .. k : i \in 1 .. n /\ i # k + 1
      OBVIOUS
    <3> QED BY <2>1, <3>1 DEF Joined, Parts
  <2>5. P[k + 1] \in SUBSET U /\ x[k + 1] = mu[P[k + 1]]
    BY <2>1
  <2>6. mu[Joined(P, k) \cup P[k + 1]] = mu[Joined(P, k)] + mu[P[k + 1]]
    BY <2>0, <2>4, <2>5 DEF Measure
  <2>7. Joined(P, k + 1) \in SUBSET U
    BY <2>0, <2>3, <2>5
  <2> QED BY <2>0, <2>1, <2>2, <2>3, <2>5, <2>6, <2>7
<1>3. \A k \in 0 .. n : k \in T
  <2> HIDE DEF T
  <2> QED BY <1>1, <1>2, UpTo
<1>4. n \in T
  BY <1>3
<1> QED BY <1>4

LEMMA CellsOfParts ==
    ASSUME NEW U, NEW mu, Measure(mu, U), NEW L, List(L), NEW P, Parts(P, Len(L)), NEW c,
           \A i \in 1 .. Len(L) : P[i] \in SUBSET U /\ L[i].cells[c] = mu[P[i]]
    PROVE  CellSum(L, c) = mu[Joined(P, Len(L))]
<1>1. \A i \in 1 .. Len(L) : L[i].cells[c] \in Int
  BY DEF Measure
<1>2. PICK g : Adds(g, CellsIn(L, c), 1 .. Len(L)) /\ CellSum(L, c) = g[1 .. Len(L)]
  BY <1>1, CellsAdd
<1>3. \A i \in 1 .. Len(L) : CellsIn(L, c)[i] = mu[P[i]]
  BY DEF CellsIn
<1>4. Len(L) \in Nat
  BY ListLen
<1>5. g[1 .. Len(L)] = mu[Joined(P, Len(L))]
  <2> DEFINE n == Len(L)
             x == CellsIn(L, c)
  <2>1. n \in Nat /\ Parts(P, n) /\ (\A i \in 1 .. n : P[i] \in SUBSET U)
    BY <1>4
  <2>2. Adds(g, x, 1 .. n) /\ (\A i \in 1 .. n : x[i] = mu[P[i]])
    BY <1>2, <1>3
  <2>3. g[1 .. n] = mu[Joined(P, n)]
    <3> HIDE DEF n, x
    <3>1. \A v, h : (\A i \in 1 .. n : v[i] = mu[P[i]]) /\ Adds(h, v, 1 .. n)
                      => h[1 .. n] = mu[Joined(P, n)]
      BY <2>1, SumOfParts, SMTT(90)
    <3> QED BY <2>2, <3>1
  <2> QED BY <2>3
<1> QED BY <1>2, <1>5

LEMMA FootsOfParts ==
    ASSUME NEW U, NEW mu, Measure(mu, U), NEW L, List(L), NEW P, Parts(P, Len(L)), NEW c,
           \A i \in 1 .. Len(L) : P[i] \in SUBSET U /\ L[i].foot[c] = mu[P[i]]
    PROVE  FootSum(L, c) = mu[Joined(P, Len(L))]
<1>1. \A i \in 1 .. Len(L) : L[i].foot[c] \in Int
  BY DEF Measure
<1>2. PICK g : Adds(g, FootsIn(L, c), 1 .. Len(L)) /\ FootSum(L, c) = g[1 .. Len(L)]
  BY <1>1, FootsAdd
<1>3. \A i \in 1 .. Len(L) : FootsIn(L, c)[i] = mu[P[i]]
  BY DEF FootsIn
<1>4. Len(L) \in Nat
  BY ListLen
<1>5. g[1 .. Len(L)] = mu[Joined(P, Len(L))]
  <2> DEFINE n == Len(L)
             x == FootsIn(L, c)
  <2>1. n \in Nat /\ Parts(P, n) /\ (\A i \in 1 .. n : P[i] \in SUBSET U)
    BY <1>4
  <2>2. Adds(g, x, 1 .. n) /\ (\A i \in 1 .. n : x[i] = mu[P[i]])
    BY <1>2, <1>3
  <2>3. g[1 .. n] = mu[Joined(P, n)]
    <3> HIDE DEF n, x
    <3>1. \A v, h : (\A i \in 1 .. n : v[i] = mu[P[i]]) /\ Adds(h, v, 1 .. n)
                      => h[1 .. n] = mu[Joined(P, n)]
      BY <2>1, SumOfParts, SMTT(90)
    <3> QED BY <2>2, <3>1
  <2> QED BY <2>3
<1> QED BY <1>2, <1>5
-----------------------------------------------------------------------------
(* A section with a line for each of the rows of Q; the sections of a form, *)
(* each with its part of the rows.                                          *)
Exactly(s, Q) == s.count = Len(s.lines) /\ Once(Q, s.lines)
Covers(S, form) ==
    /\ List(form)
    /\ \E P : /\ Parts(P, Len(form)) /\ Joined(P, Len(form)) = S
              /\ \A i \in 1 .. Len(form) : Exactly(form[i], P[i])
Sheets(form) == List(form) /\ \A i \in 1 .. Len(form) : form[i].count \in Nat

LEMMA CoversParts ==
    ASSUME NEW form, List(form), NEW P, NEW S, Parts(P, Len(form)), Joined(P, Len(form)) = S,
           \A i \in 1 .. Len(form) : Exactly(form[i], P[i])
    PROVE  Covers(S, form)
BY DEF Covers

LEMMA CoversOne ==
    ASSUME NEW S, NEW s, Exactly(s, S)
    PROVE  Covers(S, <<s>>)
<1> DEFINE P == [i \in {1} |-> S]
<1>1. List(<<s>>) /\ Len(<<s>>) = 1 /\ <<s>>[1] = s
  BY OneList
<1>2. P[1] = S /\ 1 .. 1 = {1}
  OBVIOUS
<1> HIDE DEF P
<1>3. Parts(P, 1) /\ Joined(P, 1) = S
  BY <1>2 DEF Parts, Joined
<1> QED BY <1>1, <1>2, <1>3, CoversParts

LEMMA CoversSheets ==
    ASSUME NEW S, NEW form, Covers(S, form)
    PROVE  Sheets(form) /\ (S # {} => form # <<>>)
<1>1. PICK P : /\ Joined(P, Len(form)) = S
               /\ \A i \in 1 .. Len(form) : Exactly(form[i], P[i])
  BY DEF Covers
<1>2. \A i \in 1 .. Len(form) : form[i].count \in Nat
  BY <1>1, ListLen DEF Exactly, Once
<1>3. form = <<>> => S = {}
  BY <1>1, EmptyList DEF Joined
<1> QED BY <1>2, <1>3 DEF Sheets, Covers

LEMMA CoversConcat ==
    ASSUME NEW S, NEW T, NEW a, NEW b, Covers(S, a), Covers(T, b), S \cap T = {}
    PROVE  Covers(S \cup T, a \o b)
<1> DEFINE m == Len(a)
           n == Len(b)
           c == a \o b
<1>1. PICK P : /\ Parts(P, m) /\ Joined(P, m) = S
               /\ \A i \in 1 .. m : Exactly(a[i], P[i])
  BY DEF Covers
<1>2. PICK Q : /\ Parts(Q, n) /\ Joined(Q, n) = T
               /\ \A i \in 1 .. n : Exactly(b[i], Q[i])
  BY DEF Covers
<1>3. m \in Nat /\ n \in Nat
  BY ListLen DEF Covers
<1>4. /\ List(c) /\ Len(c) = m + n
      /\ \A i \in 1 .. m + n : \/ i \in 1 .. m /\ c[i] = a[i]
                               \/ i - m \in 1 .. n /\ c[i] = b[i - m]
  BY ConcatList DEF Covers
<1> DEFINE R == [i \in 1 .. m + n |-> IF i <= m THEN P[i] ELSE Q[i - m]]
<1> HIDE DEF c, m, n
<1>5. /\ \A i \in 1 .. m : R[i] = P[i] /\ i \in 1 .. m + n
      /\ \A i \in 1 .. n : R[m + i] = Q[i] /\ m + i \in 1 .. m + n
      /\ \A i \in 1 .. m + n : \/ i \in 1 .. m /\ R[i] = P[i]
                               \/ i - m \in 1 .. n /\ R[i] = Q[i - m]
  <2>1. \A i \in 1 .. n : m + i \in 1 .. m + n /\ ~ (m + i <= m) /\ (m + i) - m = i
    BY <1>3
  <2>2. \A i \in 1 .. m : i \in 1 .. m + n /\ i <= m
    BY <1>3
  <2>3. \A i \in 1 .. m + n : (i \in 1 .. m /\ i <= m) \/ (i - m \in 1 .. n /\ ~ (i <= m))
    BY <1>3
  <2> QED BY <2>1, <2>2, <2>3
<1> HIDE DEF R
<1>6. \A i \in 1 .. m : P[i] \subseteq S
  BY <1>1 DEF Joined
<1>7. \A i \in 1 .. n : Q[i] \subseteq T
  BY <1>2 DEF Joined
<1>8. Parts(R, m + n)
  <2> SUFFICES ASSUME NEW i \in 1 .. m + n, NEW k \in 1 .. m + n, i # k PROVE R[i] \cap R[k] = {}
    BY DEF Parts
  <2>1. CASE i \in 1 .. m /\ R[i] = P[i] /\ k \in 1 .. m /\ R[k] = P[k]
    BY <1>1, <2>1 DEF Parts
  <2>2. CASE i \in 1 .. m /\ R[i] = P[i] /\ k - m \in 1 .. n /\ R[k] = Q[k - m]
    <3>1. P[i] \subseteq S /\ Q[k - m] \subseteq T
      BY <1>6, <1>7, <2>2
    <3> QED BY <2>2, <3>1
  <2>3. CASE i - m \in 1 .. n /\ R[i] = Q[i - m] /\ k \in 1 .. m /\ R[k] = P[k]
    <3>1. P[k] \subseteq S /\ Q[i - m] \subseteq T
      BY <1>6, <1>7, <2>3
    <3> QED BY <2>3, <3>1
  <2>4. CASE i - m \in 1 .. n /\ R[i] = Q[i - m] /\ k - m \in 1 .. n /\ R[k] = Q[k - m]
    <3>1. i - m # k - m
      BY <1>3
    <3>2. Q[i - m] \cap Q[k - m] = {}
      BY <1>2, <2>4, <3>1 DEF Parts
    <3> QED BY <2>4, <3>2
  <2> QED BY <1>5, <2>1, <2>2, <2>3, <2>4
<1>9. Joined(R, m + n) = S \cup T
  <2>1. ASSUME NEW x, x \in S \cup T PROVE x \in Joined(R, m + n)
    <3>1. CASE x \in S
      <4>1. PICK i \in 1 .. m : x \in P[i]
        BY <1>1, <3>1 DEF Joined
      <4> QED BY <1>5, <4>1 DEF Joined
    <3>2. CASE x \in T
      <4>1. PICK i \in 1 .. n : x \in Q[i]
        BY <1>2, <3>2 DEF Joined
      <4> QED BY <1>5, <4>1 DEF Joined
    <3> QED BY <2>1, <3>1, <3>2
  <2>2. \A i \in 1 .. m + n : R[i] \subseteq S \cup T
    BY <1>5, <1>6, <1>7
  <2>3. Joined(R, m + n) \subseteq S \cup T
    BY <2>2 DEF Joined
  <2> QED BY <2>1, <2>3
<1>10. ASSUME NEW i \in 1 .. m + n PROVE Exactly(c[i], R[i])
  <2>0. ~ (i \in 1 .. m /\ i - m \in 1 .. n)
    BY <1>3
  <2>1. CASE i \in 1 .. m
    <3>1. c[i] = a[i] /\ R[i] = P[i]
      BY <1>4, <1>5, <2>0, <2>1
    <3> QED BY <1>1, <2>1, <3>1
  <2>2. CASE i - m \in 1 .. n
    <3>1. c[i] = b[i - m] /\ R[i] = Q[i - m]
      BY <1>4, <1>5, <2>0, <2>2
    <3> QED BY <1>2, <2>2, <3>1
  <2> QED BY <1>5, <2>1, <2>2
<1>11. Covers(S \cup T, c)
  BY <1>4, <1>8, <1>9, <1>10, CoversParts
<1> QED BY <1>11 DEF c

(* The lines on the pages of a form are those of its sections.              *)
LEMMA CoversPages ==
    ASSUME NEW S, NEW out, Covers(S, out), \A i \in 1 .. Len(out) : out[i].count > 0
    PROVE  Once(S, FlattenSeq([i \in DOMAIN out |->
                       FlattenSeq([k \in DOMAIN PrintReportList(out[i]) |->
                                     PrintReportList(out[i])[k].lines])]))
<1> DEFINE n == Len(out)
           L == [i \in DOMAIN out |-> FlattenSeq([k \in DOMAIN PrintReportList(out[i]) |->
                                                    PrintReportList(out[i])[k].lines])]
<1>1. PICK P : /\ Parts(P, n) /\ Joined(P, n) = S
               /\ \A i \in 1 .. n : Exactly(out[i], P[i])
  BY DEF Covers
<1>2. n \in Nat /\ DOMAIN out = 1 .. n
  BY ListLen DEF Covers
<1>3. ASSUME NEW i \in 1 .. n PROVE L[i] = out[i].lines
  <2>1. /\ out[i].count \in Nat \ {0} /\ List(out[i].lines) /\ Len(out[i].lines) = out[i].count
    BY <1>1, ListLen DEF Exactly, Once
  <2>2. L[i] = FlattenSeq([k \in DOMAIN PrintReportList(out[i]) |-> PrintReportList(out[i])[k].lines])
    BY <1>2
  <2> QED BY <2>1, <2>2, PagesAreLines
<1>4. L = [i \in 1 .. n |-> L[i]]
  BY <1>2
<1> HIDE DEF L, n
<1>5. List(L) /\ Len(L) = n
  BY <1>2, <1>4, ToList
<1>6. \A i \in 1 .. n : Once(P[i], L[i])
  BY <1>1, <1>3 DEF Exactly
<1>7. Once(Joined(P, n), FlattenSeq(L))
  BY <1>1, <1>5, <1>6, OnceFlatten
<1> QED BY <1>1, <1>7 DEF L
-----------------------------------------------------------------------------
(* The columns of the cells as measures of the rows.                        *)
CellsOf(U) == <<Count(U), Amount(U)>>
ByFlagOf(U) ==
    LET D == {r \in U : r.dc = "debit"}
        C == {r \in U : r.dc = "credit"}
    IN  <<Among(Count(U), U, D), Among(Amount(U), U, D),
          Among(Count(U), U, C), Among(Amount(U), U, C)>>
ClearedOf(U) ==
    LET F == {r \in U : Cleared(r)}
    IN  <<Among(Count(U), U, F), Among(Amount(U), U, F)>>
Priced(U) == IsFiniteSet(U) /\ \A r \in U : r.amt \in Int
Flagged(U) == \A r \in U : r.dc \in {"debit", "credit"}

LEMMA PricedPart ==
    ASSUME NEW U, Priced(U), NEW S \in SUBSET U
    PROVE  Priced(S)
BY FS_Subset DEF Priced

LEMMA CellsMeasure ==
    ASSUME NEW U, Priced(U), NEW c \in 1 .. 2
    PROVE  Measure(CellsOf(U)[c], U) /\ \A S \in SUBSET U : Cells(S)[c] = CellsOf(U)[c][S]
<1>1. Measure(Count(U), U) /\ Measure(Amount(U), U)
  BY CountMeasure, AmountMeasure DEF Priced
<1>2. CellsOf(U)[1] = Count(U) /\ CellsOf(U)[2] = Amount(U)
  BY DEF CellsOf
<1>3. ASSUME NEW S \in SUBSET U
      PROVE  Cells(S)[1] = Count(U)[S] /\ Cells(S)[2] = Amount(U)[S]
  <2>1. Count(U)[S] = Cardinality(S) /\ Amount(U)[S] = AmountSum(S)
    BY DEF Count, Amount
  <2>2. Cells(S) = <<Cardinality(S), AmountSum(S)>>
    BY DEF Cells, AmountSum
  <2> QED BY <2>1, <2>2
<1>4. c = 1 \/ c = 2
  OBVIOUS
<1> QED BY <1>1, <1>2, <1>3, <1>4

LEMMA CellsPair ==
    ASSUME NEW U, Priced(U), NEW x, NEW y, x = CellsOf(U)[1][U], y = CellsOf(U)[2][U]
    PROVE  <<x, y>> = Cells(U)
<1>1. U \in SUBSET U
  OBVIOUS
<1>2. Cells(U)[1] = x /\ Cells(U)[2] = y
  BY <1>1, CellsMeasure
<1>3. Cells(U) = <<Cells(U)[1], Cells(U)[2]>>
  BY DEF Cells
<1> QED BY <1>2, <1>3

LEMMA AmongCells ==
    ASSUME NEW U, Priced(U), NEW F, NEW S \in SUBSET U
    PROVE  /\ Cells(S \cap F)[1] = Among(Count(U), U, F)[S]
           /\ Cells(S \cap F)[2] = Among(Amount(U), U, F)[S]
<1>1. S \cap F \in SUBSET U
  OBVIOUS
<1>2. Cells(S \cap F)[1] = CellsOf(U)[1][S \cap F] /\ Cells(S \cap F)[2] = CellsOf(U)[2][S \cap F]
  BY <1>1, CellsMeasure
<1> QED BY <1>2 DEF Among, CellsOf

LEMMA PairList ==
    ASSUME NEW x, NEW y
    PROVE  List(<<x, y>>) /\ Len(<<x, y>>) = 2
<1>1. <<x, y>> = [i \in 1 .. 2 |-> <<x, y>>[i]]
  OBVIOUS
<1> QED BY <1>1, ToList

LEMMA PairsJoined ==
    ASSUME NEW a, NEW b, List(a), List(b), Len(a) = 2, Len(b) = 2
    PROVE  /\ (a \o b)[1] = a[1] /\ (a \o b)[2] = a[2]
           /\ (a \o b)[3] = b[1] /\ (a \o b)[4] = b[2]
<1>1. 1 \in 1 .. 2 /\ 2 \in 1 .. 2 /\ 2 + 1 = 3 /\ 2 + 2 = 4
  OBVIOUS
<1>2. /\ List(a \o b) /\ Len(a \o b) = Len(a) + Len(b)
      /\ \A i \in 1 .. Len(a) : (a \o b)[i] = a[i]
      /\ \A i \in 1 .. Len(b) : (a \o b)[Len(a) + i] = b[i]
      /\ \A i \in 1 .. Len(a \o b) :
           \/ i \in 1 .. Len(a) /\ (a \o b)[i] = a[i]
           \/ i - Len(a) \in 1 .. Len(b) /\ (a \o b)[i] = b[i - Len(a)]
  BY ConcatList, Zenon
<1> QED BY <1>1, <1>2

LEMMA FlagMeasure ==
    ASSUME NEW U, Priced(U), NEW c \in 1 .. 4
    PROVE  Measure(ByFlagOf(U)[c], U) /\ \A S \in SUBSET U : ByFlag(S)[c] = ByFlagOf(U)[c][S]
<1> DEFINE D == {r \in U : r.dc = "debit"}
           C == {r \in U : r.dc = "credit"}
<1>1. Measure(Count(U), U) /\ Measure(Amount(U), U)
  BY CountMeasure, AmountMeasure DEF Priced
<1>2. /\ ByFlagOf(U)[1] = Among(Count(U), U, D) /\ ByFlagOf(U)[2] = Among(Amount(U), U, D)
      /\ ByFlagOf(U)[3] = Among(Count(U), U, C) /\ ByFlagOf(U)[4] = Among(Amount(U), U, C)
  BY DEF ByFlagOf
<1>3. ASSUME NEW S \in SUBSET U
      PROVE  /\ ByFlag(S)[1] = Among(Count(U), U, D)[S] /\ ByFlag(S)[2] = Among(Amount(U), U, D)[S]
             /\ ByFlag(S)[3] = Among(Count(U), U, C)[S] /\ ByFlag(S)[4] = Among(Amount(U), U, C)[S]
  <2> DEFINE a == Cells({r \in S : r.dc = "debit"})
             b == Cells({r \in S : r.dc = "credit"})
  <2>1. {r \in S : r.dc = "debit"} = S \cap D /\ {r \in S : r.dc = "credit"} = S \cap C
    OBVIOUS
  <2>2. List(a) /\ List(b) /\ Len(a) = 2 /\ Len(b) = 2
    BY PairList DEF Cells
  <2>3. ByFlag(S) = a \o b
    BY DEF ByFlag
  <2>4. /\ a[1] = Among(Count(U), U, D)[S] /\ a[2] = Among(Amount(U), U, D)[S]
        /\ b[1] = Among(Count(U), U, C)[S] /\ b[2] = Among(Amount(U), U, C)[S]
    <3>1. a = Cells(S \cap D) /\ b = Cells(S \cap C)
      BY <2>1
    <3> HIDE DEF D, C, a, b
    <3>2. Cells(S \cap D)[1] = Among(Count(U), U, D)[S] /\ Cells(S \cap D)[2] = Among(Amount(U), U, D)[S]
      BY AmongCells
    <3>3. Cells(S \cap C)[1] = Among(Count(U), U, C)[S] /\ Cells(S \cap C)[2] = Among(Amount(U), U, C)[S]
      BY AmongCells
    <3> QED BY <3>1, <3>2, <3>3
  <2> HIDE DEF a, b
  <2>5. /\ ByFlag(S)[1] = a[1] /\ ByFlag(S)[2] = a[2] /\ ByFlag(S)[3] = b[1] /\ ByFlag(S)[4] = b[2]
    BY <2>2, <2>3, PairsJoined
  <2> QED BY <2>4, <2>5
<1> HIDE DEF D, C
<1>4. c = 1 \/ c = 2 \/ c = 3 \/ c = 4
  OBVIOUS
<1>5. /\ Measure(Among(Count(U), U, D), U) /\ Measure(Among(Amount(U), U, D), U)
      /\ Measure(Among(Count(U), U, C), U) /\ Measure(Among(Amount(U), U, C), U)
  BY <1>1, AmongMeasure
<1> QED BY <1>2, <1>3, <1>4, <1>5

(* Debits and credits together are all the rows.                            *)
LEMMA FlagsTogether ==
    ASSUME NEW U, Priced(U), Flagged(U)
    PROVE  /\ ByFlagOf(U)[1][U] + ByFlagOf(U)[3][U] = CellsOf(U)[1][U]
           /\ ByFlagOf(U)[2][U] + ByFlagOf(U)[4][U] = CellsOf(U)[2][U]
<1> DEFINE D == {r \in U : r.dc = "debit"}
           C == {r \in U : r.dc = "credit"}
<1>1. Measure(Count(U), U) /\ Measure(Amount(U), U)
  BY CountMeasure, AmountMeasure DEF Priced
<1>2. D \cup C = U /\ D \cap C = {} /\ D \in SUBSET U /\ C \in SUBSET U /\ U \in SUBSET U
  BY DEF Flagged
<1>3. /\ ByFlagOf(U)[1] = Among(Count(U), U, D) /\ ByFlagOf(U)[2] = Among(Amount(U), U, D)
      /\ ByFlagOf(U)[3] = Among(Count(U), U, C) /\ ByFlagOf(U)[4] = Among(Amount(U), U, C)
      /\ CellsOf(U)[1] = Count(U) /\ CellsOf(U)[2] = Amount(U)
  BY DEF ByFlagOf, CellsOf
<1> HIDE DEF D, C
<1>4. ASSUME NEW mu, Measure(mu, U) PROVE Among(mu, U, D)[U] + Among(mu, U, C)[U] = mu[U]
  <2>1. U \cap D = D /\ U \cap C = C
    BY <1>2
  <2>2. Among(mu, U, D)[U] = mu[D] /\ Among(mu, U, C)[U] = mu[C]
    BY <1>2, <2>1 DEF Among
  <2>3. mu[D \cup C] = mu[D] + mu[C]
    BY <1>2, <1>4 DEF Measure
  <2> QED BY <1>2, <2>2, <2>3
<1> QED BY <1>1, <1>3, <1>4

(* What a query counts.                                                     *)
LEMMA ClearedMeasure ==
    ASSUME NEW U, Priced(U), NEW c \in 1 .. 2
    PROVE  /\ Measure(ClearedOf(U)[c], U)
           /\ \A S \in SUBSET U : Cells({r \in S : Cleared(r)})[c] = ClearedOf(U)[c][S]
<1> DEFINE F == {r \in U : Cleared(r)}
<1>1. Measure(Count(U), U) /\ Measure(Amount(U), U)
  BY CountMeasure, AmountMeasure DEF Priced
<1>2. ClearedOf(U)[1] = Among(Count(U), U, F) /\ ClearedOf(U)[2] = Among(Amount(U), U, F)
  BY DEF ClearedOf
<1>3. \A S \in SUBSET U : {r \in S : Cleared(r)} = S \cap F
  OBVIOUS
<1> HIDE DEF F
<1>4. Measure(ClearedOf(U)[1], U) /\ Measure(ClearedOf(U)[2], U)
  BY <1>1, <1>2, AmongMeasure
<1>5. ASSUME NEW S \in SUBSET U
      PROVE  /\ Cells({r \in S : Cleared(r)})[1] = ClearedOf(U)[1][S]
             /\ Cells({r \in S : Cleared(r)})[2] = ClearedOf(U)[2][S]
  BY <1>2, <1>3, AmongCells
<1>6. c = 1 \/ c = 2
  OBVIOUS
<1> QED BY <1>4, <1>5, <1>6

(* The total of a column of lines that measure their parts.                 *)
LEMMA AddedColumn ==
    ASSUME NEW U, NEW mu, Measure(mu, U), NEW L, List(L), NEW P, Parts(P, Len(L)),
           NEW n, NEW c \in 1 .. n,
           \A i \in 1 .. Len(L) : P[i] \in SUBSET U /\ L[i].cells[c] = mu[P[i]]
    PROVE  Added(L, n)[c] = mu[Joined(P, Len(L))]
<1>1. CellSum(L, c) = mu[Joined(P, Len(L))]
  BY CellsOfParts
<1>2. Added(L, n)[c] = CellSum(L, c)
  BY DEF Added, CellSum
<1> QED BY <1>1, <1>2
-----------------------------------------------------------------------------
(* The forms, one by one: they cover the rows, and their footers add up to  *)
(* them.                                                                    *)
LEMMA PlainCovers ==
    ASSUME NEW S, IsFiniteSet(S)
    PROVE  Covers(S, PlainList(S)) /\ Len(PlainList(S)) = 1
<1> DEFINE s == Section(RowLines(S), Cardinality(S), <<>>)
<1>1. Exactly(s, S)
  BY RowLinesOnce DEF Exactly, Section
<1>2. PlainList(S) = <<s>>
  BY DEF PlainList
<1> HIDE DEF s
<1> QED BY <1>1, <1>2, CoversOne, OneList

(* The parts by currency and own organisation, and by another field.        *)
LEMMA OwnerParts ==
    ASSUME NEW S, IsFiniteSet(S), NEW own
    PROVE  LET part == PerOwner(S, own)
           IN  /\ List(part) /\ Len(part) \in Nat /\ DOMAIN part = 1 .. Len(part)
               /\ Parts(part, Len(part)) /\ Joined(part, Len(part)) = S
               /\ \A i \in 1 .. Len(part) : part[i] \in SUBSET S
<1> DEFINE f == [r \in S |-> <<r.cur, r[own]>>]
           K == {f[r] : r \in S}
           keys == SetToSeq(K)
           part == PerOwner(S, own)
<1>1. {<<r.cur, r[own]>> : r \in S} = K
  OBVIOUS
<1>2. part = [i \in DOMAIN keys |-> {r \in S : f[r] = keys[i]}]
  BY <1>1 DEF PerOwner
<1>3. \A r \in S : f[r] \in K
  OBVIOUS
<1> HIDE DEF part, f
<1>4. Names(keys, K) /\ Len(keys) \in Nat
  BY KeysName
<1> HIDE DEF K, keys
<1>5. DOMAIN keys = 1 .. Len(keys)
  BY <1>4, ListLen DEF Names
<1>6. part = [i \in 1 .. Len(keys) |-> part[i]]
  BY <1>2, <1>5
<1>7. List(part) /\ Len(part) = Len(keys) /\ DOMAIN part = 1 .. Len(keys)
  BY <1>4, <1>6, ToList
<1>8. \A i \in 1 .. Len(keys) : part[i] = {r \in S : f[r] = keys[i]}
  BY <1>2, <1>5
<1>9. Parts(part, Len(keys)) /\ Joined(part, Len(keys)) = S
  <2>1. KeyIn(f, S, K) /\ SplitBy(part, S, f, keys)
    BY <1>3, <1>8 DEF KeyIn, SplitBy
  <2> QED BY <1>4, <2>1, ByKey
<1> QED BY <1>4, <1>7, <1>8, <1>9 DEF part

LEMMA FieldParts ==
    ASSUME NEW S, IsFiniteSet(S), NEW field
    PROVE  LET ks == Values(S, field)
               part == [j \in DOMAIN ks |-> Having(S, field, ks[j])]
           IN  /\ Names(ks, {r[field] : r \in S}) /\ Len(ks) \in Nat /\ DOMAIN ks = 1 .. Len(ks)
               /\ Parts(part, Len(ks)) /\ Joined(part, Len(ks)) = S
               /\ \A j \in 1 .. Len(ks) : part[j] = Having(S, field, ks[j]) /\ part[j] \in SUBSET S
<1> DEFINE f == [r \in S |-> r[field]]
           K == {f[r] : r \in S}
           ks == Values(S, field)
           part == [j \in DOMAIN ks |-> Having(S, field, ks[j])]
<1>1. {r[field] : r \in S} = K
  OBVIOUS
<1>2. ks = SetToSeq(K)
  BY <1>1 DEF Values
<1>3. \A r \in S : f[r] \in K /\ f[r] = r[field]
  OBVIOUS
<1> HIDE DEF f
<1>4. Names(SetToSeq(K), K) /\ Len(SetToSeq(K)) \in Nat
  BY KeysName
<1> HIDE DEF K, ks
<1>5. Names(ks, K) /\ Len(ks) \in Nat
  BY <1>2, <1>4
<1>6. DOMAIN ks = 1 .. Len(ks)
  BY <1>5, ListLen DEF Names
<1>7. \A j \in 1 .. Len(ks) : part[j] = Having(S, field, ks[j]) /\ part[j] \in SUBSET S
  BY <1>6 DEF Having
<1>8. \A j \in 1 .. Len(ks) : part[j] = {r \in S : f[r] = ks[j]}
  BY <1>3, <1>7 DEF Having
<1> HIDE DEF part
<1>9. Parts(part, Len(ks)) /\ Joined(part, Len(ks)) = S
  <2>1. KeyIn(f, S, K) /\ SplitBy(part, S, f, ks)
    BY <1>3, <1>8 DEF KeyIn, SplitBy
  <2> QED BY <1>5, <2>1, ByKey
<1> QED BY <1>1, <1>5, <1>6, <1>7, <1>9 DEF ks, part

(* A section of totals: a line for each of the other banks.                 *)
LEMMA TotalSectionIs ==
    ASSUME NEW U, Priced(U), NEW T \in SUBSET U, NEW opp
    PROVE  /\ Exactly(TotalSection(T, opp), T)
           /\ \A c \in 1 .. 4 : TotalSection(T, opp).foot[c] = ByFlagOf(U)[c][T]
<1> DEFINE ks == Values(T, opp)
           part == [j \in DOMAIN ks |-> Having(T, opp, ks[j])]
           L == [j \in DOMAIN ks |-> Line(Having(T, opp, ks[j]), ByFlag(Having(T, opp, ks[j])))]
<1>1. IsFiniteSet(T)
  BY FS_Subset DEF Priced
<1>2. /\ Len(ks) \in Nat /\ DOMAIN ks = 1 .. Len(ks)
      /\ Parts(part, Len(ks)) /\ Joined(part, Len(ks)) = T
      /\ \A j \in 1 .. Len(ks) : part[j] = Having(T, opp, ks[j]) /\ part[j] \in SUBSET T
  BY <1>1, FieldParts
<1>3. /\ L = [j \in 1 .. Len(ks) |-> L[j]]
      /\ \A j \in 1 .. Len(ks) : L[j].of = part[j] /\ L[j].cells = ByFlag(part[j])
  BY <1>2 DEF Line
<1>4. TotalSection(T, opp) = Section(L, Len(ks), Added(L, 4))
  BY DEF TotalSection
<1> HIDE DEF ks, part, L
<1>5. List(L) /\ Len(L) = Len(ks)
  BY <1>2, <1>3, ToList
<1>6. Once(T, L)
  BY <1>2, <1>3, <1>5, OnceLines
<1>7. Exactly(TotalSection(T, opp), T)
  BY <1>4, <1>5, <1>6 DEF Exactly, Section
<1>8. ASSUME NEW c \in 1 .. 4 PROVE Added(L, 4)[c] = ByFlagOf(U)[c][T]
  <2> DEFINE mu == ByFlagOf(U)[c]
  <2>1. Measure(mu, U) /\ \A S \in SUBSET U : ByFlag(S)[c] = mu[S]
    BY FlagMeasure
  <2>2. \A j \in 1 .. Len(L) : part[j] \in SUBSET U /\ L[j].cells[c] = mu[part[j]]
    BY <1>2, <1>3, <1>5, <2>1
  <2> HIDE DEF mu
  <2>3. Added(L, 4)[c] = mu[Joined(part, Len(L))]
    BY <1>2, <1>5, <2>1, <2>2, AddedColumn
  <2> QED BY <1>2, <1>5, <2>3 DEF mu
<1> QED BY <1>4, <1>7, <1>8 DEF Section

LEMMA NoteTotalIs ==
    ASSUME NEW S, Priced(S), Flagged(S), NEW own, NEW opp, NEW form,
           form = LET part == PerOwner(S, own) IN [i \in DOMAIN part |-> TotalSection(part[i], opp)]
    PROVE  /\ Covers(S, form)
           /\ <<FootSum(form, 1) + FootSum(form, 3), FootSum(form, 2) + FootSum(form, 4)>> = Cells(S)
<1> DEFINE P == PerOwner(S, own)
           n == Len(P)
<1>1. /\ List(P) /\ n \in Nat /\ DOMAIN P = 1 .. n /\ Parts(P, n) /\ Joined(P, n) = S
      /\ \A i \in 1 .. n : P[i] \in SUBSET S
  BY OwnerParts DEF Priced
<1>2. form = [i \in 1 .. n |-> form[i]] /\ \A i \in 1 .. n : form[i] = TotalSection(P[i], opp)
  BY <1>1
<1> HIDE DEF P, n
<1>3. List(form) /\ Len(form) = n
  BY <1>1, <1>2, ToList
<1>4. \A i \in 1 .. n : /\ Exactly(form[i], P[i])
                        /\ \A c \in 1 .. 4 : form[i].foot[c] = ByFlagOf(S)[c][P[i]]
  BY <1>1, <1>2, TotalSectionIs
<1>5. Covers(S, form)
  BY <1>1, <1>3, <1>4, CoversParts
<1>6. ASSUME NEW c \in 1 .. 4 PROVE FootSum(form, c) = ByFlagOf(S)[c][S]
  <2> DEFINE mu == ByFlagOf(S)[c]
  <2>1. Measure(mu, S)
    BY FlagMeasure
  <2>2. \A i \in 1 .. Len(form) : P[i] \in SUBSET S /\ form[i].foot[c] = mu[P[i]]
    BY <1>1, <1>3, <1>4
  <2> HIDE DEF mu
  <2>3. FootSum(form, c) = mu[Joined(P, Len(form))]
    BY <1>1, <1>3, <2>1, <2>2, FootsOfParts
  <2> QED BY <1>1, <1>3, <2>3 DEF mu
<1>7. /\ FootSum(form, 1) + FootSum(form, 3) = CellsOf(S)[1][S]
      /\ FootSum(form, 2) + FootSum(form, 4) = CellsOf(S)[2][S]
  BY <1>6, FlagsTogether
<1> QED BY <1>5, <1>7, CellsPair

LEMMA PrintOutNoteTotalIs ==
    ASSUME NEW S, Priced(S), Flagged(S)
    PROVE  LET form == PrintOutNoteTotal(S)
           IN  /\ Covers(S, form)
               /\ <<FootSum(form, 1) + FootSum(form, 3),
                    FootSum(form, 2) + FootSum(form, 4)>> = Cells(S)
BY NoteTotalIs DEF PrintOutNoteTotal

LEMMA PrintInNoteTotalIs ==
    ASSUME NEW S, Priced(S), Flagged(S)
    PROVE  LET form == PrintInNoteTotal(S)
           IN  /\ Covers(S, form)
               /\ <<FootSum(form, 1) + FootSum(form, 3),
                    FootSum(form, 2) + FootSum(form, 4)>> = Cells(S)
BY NoteTotalIs DEF PrintInNoteTotal
(* A list with subtotals: the rows of each bank, and a line that counts     *)
(* none of them a second time.                                              *)
LEMMA OnceSubtotal ==
    ASSUME NEW S, NEW L, Once(S, L), NEW l, l.of = {}
    PROVE  Once(S, Append(L, l)) /\ Len(Append(L, l)) = Len(L) + 1
<1> DEFINE M == Append(L, l)
           n == Len(L)
<1>1. List(L) /\ n \in Nat
  BY ListLen DEF Once
<1>2. List(M) /\ Len(M) = n + 1 /\ (\A i \in 1 .. n : M[i] = L[i]) /\ M[n + 1] = l
  BY <1>1, AppendList
<1>3. /\ \A i \in 1 .. n : L[i].of \subseteq S
      /\ \A r \in S : \E i \in 1 .. n :
           r \in L[i].of /\ \A k \in 1 .. n : r \in L[k].of => k = i
  BY DEF Once
<1> HIDE DEF M, n
<1>4. \A i \in 1 .. n + 1 : i \in 1 .. n \/ i = n + 1
  BY <1>1
<1>5. \A i \in 1 .. n : i \in 1 .. n + 1
  BY <1>1
<1>6. \A i \in 1 .. n + 1 : M[i].of \subseteq S
  BY <1>2, <1>3, <1>4
<1>7. ASSUME NEW r \in S
      PROVE  \E i \in 1 .. n + 1 : r \in M[i].of /\ \A k \in 1 .. n + 1 : r \in M[k].of => k = i
  <2>1. PICK i \in 1 .. n : r \in L[i].of /\ \A k \in 1 .. n : r \in L[k].of => k = i
    BY <1>3
  <2>2. ASSUME NEW k \in 1 .. n + 1, r \in M[k].of PROVE k = i
    <3>1. k \in 1 .. n
      BY <1>2, <1>4, <2>2
    <3> QED BY <1>2, <2>1, <2>2, <3>1
  <2> QED BY <1>2, <1>5, <2>1, <2>2
<1>8. Once(S, M)
  BY <1>2, <1>6, <1>7 DEF Once
<1> QED BY <1>2, <1>8 DEF M, n

LEMMA FlattenLen ==
    ASSUME NEW U, NEW mu, Measure(mu, U), NEW L, List(L), NEW P, Parts(P, Len(L)),
           \A i \in 1 .. Len(L) : P[i] \in SUBSET U /\ List(L[i]) /\ Len(L[i]) = mu[P[i]] + 1
    PROVE  Len(FlattenSeq(L)) = mu[Joined(P, Len(L))] + Len(L)
<1> DEFINE n == Len(L)
<1>1. n \in Nat
  BY ListLen
<1>2. PICK g : /\ g[0] = <<>>
               /\ \A k \in 0 .. n - 1 : g[k + 1] = g[k] \o L[k + 1]
               /\ \A k \in 0 .. n : List(g[k])
               /\ FlattenSeq(L) = g[n]
  BY FlattenSteps
<1> HIDE DEF n
<1> DEFINE T == {k \in 0 .. n : Len(g[k]) = mu[Joined(P, k)] + k /\ Joined(P, k) \in SUBSET U}
<1>3. 0 \in T
  <2>1. Joined(P, 0) = {} /\ 0 \in 0 .. n /\ mu[{}] = 0
    BY <1>1 DEF Joined, Measure
  <2>2. Len(g[0]) = 0
    BY <1>2, EmptyList
  <2>3. mu[Joined(P, 0)] = 0 /\ Joined(P, 0) \in SUBSET U
    BY <2>1
  <2> QED BY <2>1, <2>2, <2>3
<1>4. ASSUME NEW k \in 0 .. n - 1, k \in T PROVE k + 1 \in T
  <2>0. Len(g[k]) = mu[Joined(P, k)] + k /\ Joined(P, k) \in SUBSET U
    BY <1>4
  <2>1. k + 1 \in 0 .. n /\ k + 1 \in 1 .. n /\ k \in 0 .. n /\ k \in Nat
    BY <1>1
  <2>2. P[k + 1] \in SUBSET U /\ List(L[k + 1]) /\ Len(L[k + 1]) = mu[P[k + 1]] + 1
    BY <2>1 DEF n
  <2>3. Joined(P, k + 1) = Joined(P, k) \cup P[k + 1]
    <3>1. 1 .. (k + 1) = (1 .. k) \cup {k + 1}
      BY <2>1
    <3> QED BY <3>1 DEF Joined
  <2>4. Joined(P, k) \cap P[k + 1] = {}
    <3>1. \A i \in 1 .. k : i \in 1 .. n /\ i # k + 1
      BY <1>1, <2>1
    <3>2. \A i \in 1 .. k : P[i] \cap P[k + 1] = {}
      BY <2>1, <3>1 DEF Parts, n
    <3> QED BY <3>2 DEF Joined
  <2>5. mu[Joined(P, k) \cup P[k + 1]] = mu[Joined(P, k)] + mu[P[k + 1]]
    BY <2>0, <2>2, <2>4 DEF Measure
  <2>6. mu[Joined(P, k)] \in Int /\ mu[P[k + 1]] \in Int
    BY <2>0, <2>2 DEF Measure
  <2>7. Len(g[k + 1]) = Len(g[k]) + Len(L[k + 1])
    <3> DEFINE a == g[k]
               b == L[k + 1]
    <3>1. List(a) /\ List(b) /\ g[k + 1] = a \o b
      BY <1>2, <2>1, <2>2
    <3> HIDE DEF a, b
    <3>2. Len(a \o b) = Len(a) + Len(b)
      BY <3>1, ConcatList
    <3> QED BY <3>1, <3>2 DEF a, b
  <2>8. Len(g[k + 1]) = mu[Joined(P, k + 1)] + (k + 1)
    <3> DEFINE x == mu[Joined(P, k)]
               y == mu[P[k + 1]]
    <3>1. mu[Joined(P, k + 1)] = x + y /\ x \in Int /\ y \in Int
      BY <2>3, <2>5, <2>6
    <3>2. Len(g[k + 1]) = (x + k) + (y + 1)
      BY <2>0, <2>2, <2>7
    <3> HIDE DEF x, y
    <3>3. (x + k) + (y + 1) = (x + y) + (k + 1)
      BY <2>1, <3>1
    <3> QED BY <3>1, <3>2, <3>3
  <2>9. Joined(P, k + 1) \in SUBSET U
    BY <2>0, <2>2, <2>3
  <2> QED BY <2>1, <2>8, <2>9
<1>5. \A k \in 0 .. n : k \in T
  <2> HIDE DEF T
  <2> QED BY <1>1, <1>3, <1>4, UpTo
<1>6. n \in T
  BY <1>1, <1>5
<1> QED BY <1>2, <1>6 DEF n

LEMMA ListSectionIs ==
    ASSUME NEW U, Priced(U), NEW T \in SUBSET U, NEW opp
    PROVE  /\ Exactly(ListSection(T, opp), T)
           /\ \A c \in 1 .. 2 : ListSection(T, opp).foot[c] = CellsOf(U)[c][T]
<1> DEFINE ks == Values(T, opp)
           part == [j \in DOMAIN ks |-> Having(T, opp, ks[j])]
           subs == [j \in DOMAIN ks |-> Line({}, Cells(Having(T, opp, ks[j])))]
           L == [j \in DOMAIN ks |-> Append(RowLines(Having(T, opp, ks[j])), subs[j])]
           lines == FlattenSeq(L)
<1>1. IsFiniteSet(T) /\ Priced(T)
  BY PricedPart DEF Priced
<1>2. /\ Len(ks) \in Nat /\ DOMAIN ks = 1 .. Len(ks)
      /\ Parts(part, Len(ks)) /\ Joined(part, Len(ks)) = T
      /\ \A j \in 1 .. Len(ks) : part[j] = Having(T, opp, ks[j]) /\ part[j] \in SUBSET T
  BY <1>1, FieldParts
<1>3. /\ subs = [j \in 1 .. Len(ks) |-> subs[j]] /\ L = [j \in 1 .. Len(ks) |-> L[j]]
      /\ \A j \in 1 .. Len(ks) : /\ subs[j].of = {} /\ subs[j].cells = Cells(part[j])
                                 /\ L[j] = Append(RowLines(part[j]), subs[j])
  BY <1>2 DEF Line
<1>4. ListSection(T, opp) = Section(lines, Cardinality(T) + Len(ks), Added(subs, 2))
  BY DEF ListSection
<1> HIDE DEF ks, part, subs, L
<1>5. List(L) /\ Len(L) = Len(ks) /\ List(subs) /\ Len(subs) = Len(ks)
  BY <1>2, <1>3, ToList
<1>6. ASSUME NEW j \in 1 .. Len(ks)
      PROVE  Once(part[j], L[j]) /\ Len(L[j]) = Count(T)[part[j]] + 1
  <2>1. IsFiniteSet(part[j]) /\ part[j] \in SUBSET T
    BY <1>1, <1>2, FS_Subset
  <2>2. /\ Once(part[j], RowLines(part[j])) /\ Len(RowLines(part[j])) = Cardinality(part[j])
    BY <2>1, RowLinesOnce
  <2>3. /\ Once(part[j], Append(RowLines(part[j]), subs[j]))
        /\ Len(Append(RowLines(part[j]), subs[j])) = Len(RowLines(part[j])) + 1
    BY <1>3, <2>2, OnceSubtotal
  <2> QED BY <1>3, <2>1, <2>2, <2>3 DEF Count
<1>7. Once(T, lines)
  <2>1. Once(Joined(part, Len(L)), FlattenSeq(L))
    BY <1>2, <1>5, <1>6, OnceFlatten
  <2> QED BY <1>2, <1>5, <2>1
<1>8. Len(lines) = Cardinality(T) + Len(ks)
  <2>1. Measure(Count(T), T)
    BY <1>1, CountMeasure
  <2>2. \A j \in 1 .. Len(L) : part[j] \in SUBSET T /\ List(L[j]) /\ Len(L[j]) = Count(T)[part[j]] + 1
    BY <1>2, <1>5, <1>6 DEF Once
  <2>3. Len(FlattenSeq(L)) = Count(T)[Joined(part, Len(L))] + Len(L)
    BY <1>2, <1>5, <2>1, <2>2, FlattenLen
  <2>4. Count(T)[T] = Cardinality(T)
    BY DEF Count
  <2> QED BY <1>2, <1>5, <2>3, <2>4
<1> HIDE DEF lines
<1>9. Exactly(ListSection(T, opp), T)
  BY <1>4, <1>7, <1>8 DEF Exactly, Section
<1>10. ASSUME NEW c \in 1 .. 2 PROVE Added(subs, 2)[c] = CellsOf(U)[c][T]
  <2> DEFINE mu == CellsOf(U)[c]
  <2>1. Measure(mu, U) /\ \A S \in SUBSET U : Cells(S)[c] = mu[S]
    BY CellsMeasure
  <2>2. \A j \in 1 .. Len(subs) : part[j] \in SUBSET U /\ subs[j].cells[c] = mu[part[j]]
    BY <1>2, <1>3, <1>5, <2>1
  <2> HIDE DEF mu
  <2>3. List(subs) /\ Parts(part, Len(subs)) /\ Measure(mu, U)
    BY <1>2, <1>5, <2>1
  <2>4. Added(subs, 2)[c] = mu[Joined(part, Len(subs))]
    BY <2>2, <2>3, AddedColumn
  <2> QED BY <1>2, <1>5, <2>4 DEF mu
<1> QED BY <1>4, <1>9, <1>10 DEF Section

LEMMA NoteListIs ==
    ASSUME NEW S, Priced(S), NEW own, NEW opp, NEW form,
           form = LET part == PerOwner(S, own) IN [i \in DOMAIN part |-> ListSection(part[i], opp)]
    PROVE  Covers(S, form) /\ <<FootSum(form, 1), FootSum(form, 2)>> = Cells(S)
<1> DEFINE P == PerOwner(S, own)
           n == Len(P)
<1>1. /\ List(P) /\ n \in Nat /\ DOMAIN P = 1 .. n /\ Parts(P, n) /\ Joined(P, n) = S
      /\ \A i \in 1 .. n : P[i] \in SUBSET S
  BY OwnerParts DEF Priced
<1>2. form = [i \in 1 .. n |-> form[i]] /\ \A i \in 1 .. n : form[i] = ListSection(P[i], opp)
  BY <1>1
<1> HIDE DEF P, n
<1>3. List(form) /\ Len(form) = n
  BY <1>1, <1>2, ToList
<1>4. \A i \in 1 .. n : /\ Exactly(form[i], P[i])
                        /\ \A c \in 1 .. 2 : form[i].foot[c] = CellsOf(S)[c][P[i]]
  BY <1>1, <1>2, ListSectionIs
<1>5. Covers(S, form)
  BY <1>1, <1>3, <1>4, CoversParts
<1>6. ASSUME NEW c \in 1 .. 2 PROVE FootSum(form, c) = CellsOf(S)[c][S]
  <2> DEFINE mu == CellsOf(S)[c]
  <2>1. Measure(mu, S)
    BY CellsMeasure
  <2>2. \A i \in 1 .. Len(form) : P[i] \in SUBSET S /\ form[i].foot[c] = mu[P[i]]
    BY <1>1, <1>3, <1>4
  <2> HIDE DEF mu
  <2>3. FootSum(form, c) = mu[Joined(P, Len(form))]
    BY <1>1, <1>3, <2>1, <2>2, FootsOfParts
  <2> QED BY <1>1, <1>3, <2>3 DEF mu
<1> QED BY <1>5, <1>6, CellsPair

LEMMA PrintOutNoteListIs ==
    ASSUME NEW S, Priced(S)
    PROVE  LET form == PrintOutNoteList(S)
           IN  Covers(S, form) /\ <<FootSum(form, 1), FootSum(form, 2)>> = Cells(S)
BY NoteListIs DEF PrintOutNoteList

LEMMA PrintInNoteListIs ==
    ASSUME NEW S, Priced(S)
    PROVE  LET form == PrintInNoteList(S)
           IN  Covers(S, form) /\ <<FootSum(form, 1), FootSum(form, 2)>> = Cells(S)
BY NoteListIs DEF PrintInNoteList
(* The queries: all rows are listed, the settled ones counted.              *)
LEMMA QuerySectionIs ==
    ASSUME NEW U, Priced(U), NEW S \in SUBSET U
    PROVE  /\ Exactly(QuerySection(S), S)
           /\ \A c \in 1 .. 2 : QuerySection(S).foot[c] = ClearedOf(U)[c][S]
<1>1. IsFiniteSet(S)
  BY FS_Subset DEF Priced
<1>2. QuerySection(S) = Section(RowLines(S), Cardinality(S), Cells({r \in S : Cleared(r)}))
  BY DEF QuerySection
<1>3. Exactly(QuerySection(S), S)
  BY <1>1, <1>2, RowLinesOnce DEF Exactly, Section
<1>4. ASSUME NEW c \in 1 .. 2
      PROVE  Cells({r \in S : Cleared(r)})[c] = ClearedOf(U)[c][S]
  BY ClearedMeasure
<1> QED BY <1>2, <1>3, <1>4 DEF Section

LEMMA ClearedPair ==
    ASSUME NEW U, Priced(U), NEW x, NEW y, x = ClearedOf(U)[1][U], y = ClearedOf(U)[2][U]
    PROVE  <<x, y>> = Cells({r \in U : Cleared(r)})
<1> DEFINE D == {r \in U : Cleared(r)}
<1>1. U \in SUBSET U
  OBVIOUS
<1>2. Cells(D)[1] = x /\ Cells(D)[2] = y
  BY <1>1, ClearedMeasure
<1>3. Cells(D) = <<Cells(D)[1], Cells(D)[2]>>
  BY DEF Cells
<1> QED BY <1>2, <1>3

LEMMA QueryIs ==
    ASSUME NEW S, Priced(S), NEW form, List(form), NEW P, Parts(P, Len(form)),
           Joined(P, Len(form)) = S,
           \A i \in 1 .. Len(form) : P[i] \in SUBSET S /\ form[i] = QuerySection(P[i])
    PROVE  /\ Covers(S, form)
           /\ <<FootSum(form, 1), FootSum(form, 2)>> = Cells({r \in S : Cleared(r)})
<1>1. \A i \in 1 .. Len(form) : /\ Exactly(form[i], P[i])
                                /\ \A c \in 1 .. 2 : form[i].foot[c] = ClearedOf(S)[c][P[i]]
  BY QuerySectionIs
<1>2. Covers(S, form)
  BY <1>1, CoversParts
<1>3. ASSUME NEW c \in 1 .. 2 PROVE FootSum(form, c) = ClearedOf(S)[c][S]
  <2> DEFINE mu == ClearedOf(S)[c]
  <2>1. Measure(mu, S)
    BY ClearedMeasure
  <2>2. \A i \in 1 .. Len(form) : P[i] \in SUBSET S /\ form[i].foot[c] = mu[P[i]]
    BY <1>1
  <2> HIDE DEF mu
  <2>3. FootSum(form, c) = mu[Joined(P, Len(form))]
    BY <2>1, <2>2, FootsOfParts
  <2> QED BY <2>3 DEF mu
<1> QED BY <1>2, <1>3, ClearedPair

LEMMA QryOutNoteIs ==
    ASSUME NEW S, Priced(S)
    PROVE  LET form == QryOutNote(S)
           IN  /\ Covers(S, form)
               /\ <<FootSum(form, 1), FootSum(form, 2)>> = Cells({r \in S : Cleared(r)})
<1> DEFINE s == QuerySection(S)
           P == [i \in {1} |-> S]
           form == <<s>>
<1>1. List(form) /\ Len(form) = 1 /\ form[1] = s
  BY OneList
<1>2. P[1] = S /\ 1 .. 1 = {1}
  OBVIOUS
<1> HIDE DEF P, form
<1>3. Parts(P, 1) /\ Joined(P, 1) = S
  BY <1>2 DEF Parts, Joined
<1>4. \A i \in 1 .. 1 : P[i] \in SUBSET S /\ form[i] = QuerySection(P[i])
  BY <1>1, <1>2
<1>5. /\ Covers(S, form)
      /\ <<FootSum(form, 1), FootSum(form, 2)>> = Cells({r \in S : Cleared(r)})
  BY <1>1, <1>3, <1>4, QueryIs
<1> QED BY <1>5 DEF QryOutNote, form

LEMMA QryInNoteIs ==
    ASSUME NEW S, Priced(S)
    PROVE  LET form == QryInNote(S)
           IN  /\ Covers(S, form)
               /\ <<FootSum(form, 1), FootSum(form, 2)>> = Cells({r \in S : Cleared(r)})
<1> DEFINE orgs == Values(S, "acc")
           P == [j \in DOMAIN orgs |-> Having(S, "acc", orgs[j])]
           form == QryInNote(S)
           n == Len(orgs)
<1>1. /\ n \in Nat /\ DOMAIN orgs = 1 .. n /\ Parts(P, n) /\ Joined(P, n) = S
      /\ \A j \in 1 .. n : P[j] = Having(S, "acc", orgs[j]) /\ P[j] \in SUBSET S
  BY FieldParts DEF Priced
<1>2. form = [i \in 1 .. n |-> form[i]] /\ \A i \in 1 .. n : form[i] = QuerySection(P[i])
  BY <1>1 DEF QryInNote
<1> HIDE DEF orgs, P, form, n
<1>3. List(form) /\ Len(form) = n
  BY <1>1, <1>2, ToList
<1>4. \A i \in 1 .. n : P[i] \in SUBSET S /\ form[i] = QuerySection(P[i])
  BY <1>1, <1>2
<1>5. /\ Covers(S, form)
      /\ <<FootSum(form, 1), FootSum(form, 2)>> = Cells({r \in S : Cleared(r)})
  BY <1>1, <1>3, <1>4, QueryIs
<1> QED BY <1>5 DEF form

(* Clearing differences: a line per branch and currency.                    *)
LEMMA DiffLinesAre ==
    ASSUME NEW S, Priced(S), NEW L, L = DiffLines(S, {<<r.orig, r.cur>> : r \in S})
    PROVE  /\ Once(S, L)
           /\ \A c \in 1 .. 4 : Added(L, 4)[c] = ByFlagOf(S)[c][S]
<1> DEFINE f == [r \in S |-> <<r.orig, r.cur>>]
           K == {f[r] : r \in S}
           keys == SetToSeq(K)
           P == [i \in DOMAIN keys |-> {r \in S : f[r] = keys[i]}]
<1>1. {<<r.orig, r.cur>> : r \in S} = K
  OBVIOUS
<1>2. \A i \in DOMAIN keys : {r \in S : <<r.orig, r.cur>> = keys[i]} = P[i]
  OBVIOUS
<1>3. L = [i \in DOMAIN keys |-> Line(P[i], ByFlag(P[i]))]
  BY <1>1, <1>2 DEF DiffLines
<1>4. \A r \in S : f[r] \in K
  OBVIOUS
<1> HIDE DEF f
<1>5. Names(keys, K) /\ Len(keys) \in Nat
  BY KeysName DEF Priced
<1> HIDE DEF K, keys
<1>6. DOMAIN keys = 1 .. Len(keys)
  BY <1>5, ListLen DEF Names
<1>7. \A i \in 1 .. Len(keys) : P[i] = {r \in S : f[r] = keys[i]}
  BY <1>6
<1> HIDE DEF P
<1>8. /\ L = [i \in 1 .. Len(keys) |-> L[i]]
      /\ \A i \in 1 .. Len(keys) : L[i].of = P[i] /\ L[i].cells = ByFlag(P[i])
  BY <1>3, <1>6 DEF Line
<1>9. List(L) /\ Len(L) = Len(keys)
  BY <1>5, <1>8, ToList
<1>10. Parts(P, Len(keys)) /\ Joined(P, Len(keys)) = S
  <2>1. KeyIn(f, S, K) /\ SplitBy(P, S, f, keys)
    BY <1>4, <1>7 DEF KeyIn, SplitBy
  <2> QED BY <1>5, <2>1, ByKey
<1>11. Once(S, L)
  BY <1>8, <1>9, <1>10, OnceLines
<1>12. ASSUME NEW c \in 1 .. 4 PROVE Added(L, 4)[c] = ByFlagOf(S)[c][S]
  <2> DEFINE mu == ByFlagOf(S)[c]
  <2>1. Measure(mu, S) /\ \A T \in SUBSET S : ByFlag(T)[c] = mu[T]
    BY FlagMeasure
  <2>2. \A i \in 1 .. Len(L) : P[i] \in SUBSET S /\ L[i].cells[c] = mu[P[i]]
    BY <1>7, <1>8, <1>9, <2>1
  <2> HIDE DEF mu
  <2>3. List(L) /\ Parts(P, Len(L)) /\ Measure(mu, S)
    BY <1>9, <1>10, <2>1
  <2>4. Added(L, 4)[c] = mu[Joined(P, Len(L))]
    BY <2>2, <2>3, AddedColumn
  <2> QED BY <1>9, <1>10, <2>4 DEF mu
<1> QED BY <1>11, <1>12

LEMMA PrintClearDiffIs ==
    ASSUME NEW S, Priced(S)
    PROVE  Covers(S, PrintClearDiff(S))
<1> DEFINE L == DiffLines(S, {<<r.orig, r.cur>> : r \in S})
           s == Section(L, Len(L), <<>>)
<1>1. Once(S, L)
  BY DiffLinesAre
<1>2. PrintClearDiff(S) = <<s>>
  BY DEF PrintClearDiff
<1> HIDE DEF L
<1>3. Exactly(s, S)
  BY <1>1 DEF Exactly, Section
<1> HIDE DEF s
<1> QED BY <1>2, <1>3, CoversOne

(* The footers of a form of one section are the section's.                  *)
LEMMA OneFoot ==
    ASSUME NEW s, NEW c, s.foot[c] \in Int
    PROVE  FootSum(<<s>>, c) = s.foot[c]
<1> DEFINE form == <<s>>
<1>1. List(form) /\ Len(form) = 1 /\ form[1] = s
  BY OneList
<1> HIDE DEF form
<1>2. \A i \in 1 .. Len(form) : form[i].foot[c] \in Int
  BY <1>1
<1>3. PICK g : Adds(g, FootsIn(form, c), 1 .. Len(form)) /\ FootSum(form, c) = g[1 .. Len(form)]
  BY <1>1, <1>2, FootsAdd
<1>4. 1 .. 1 = {1} /\ {1} \ {1} = {} /\ {} \in SUBSET {1} /\ {1} \in SUBSET {1} /\ 1 \in {1}
  OBVIOUS
<1>5. FootsIn(form, c)[1] = s.foot[c]
  BY <1>1, <1>4 DEF FootsIn
<1>6. Adds(g, FootsIn(form, c), {1}) /\ FootSum(form, c) = g[{1}]
  BY <1>1, <1>3, <1>4
<1>7. g[{1}] = g[{}] + FootsIn(form, c)[1] /\ g[{}] = 0
  BY <1>4, <1>6 DEF Adds
<1>8. FootSum(form, c) = s.foot[c]
  BY <1>5, <1>6, <1>7
<1> QED BY <1>8 DEF form

LEMMA PrintClearTotalIs ==
    ASSUME NEW S, Priced(S), Flagged(S)
    PROVE  LET form == PrintClearTotal_PF(S)
           IN  /\ Covers(S, form)
               /\ <<FootSum(form, 1) + FootSum(form, 3),
                    FootSum(form, 2) + FootSum(form, 4)>> = Cells(S)
<1> DEFINE L == DiffLines(S, {<<r.orig, r.cur>> : r \in S})
           s == Section(L, Len(L), Added(L, 4))
<1>1. Once(S, L) /\ \A c \in 1 .. 4 : Added(L, 4)[c] = ByFlagOf(S)[c][S]
  BY DiffLinesAre
<1>2. PrintClearTotal_PF(S) = <<s>>
  BY DEF PrintClearTotal_PF
<1> HIDE DEF L
<1>3. Exactly(s, S)
  BY <1>1 DEF Exactly, Section
<1>4. \A c \in 1 .. 4 : s.foot[c] = ByFlagOf(S)[c][S]
  BY <1>1 DEF Section
<1> HIDE DEF s
<1>5. ASSUME NEW c \in 1 .. 4 PROVE FootSum(<<s>>, c) = ByFlagOf(S)[c][S]
  <2>1. Measure(ByFlagOf(S)[c], S) /\ S \in SUBSET S
    BY FlagMeasure
  <2>2. s.foot[c] \in Int
    BY <1>4, <2>1 DEF Measure
  <2> QED BY <1>4, <2>2, OneFoot
<1>6. /\ FootSum(<<s>>, 1) + FootSum(<<s>>, 3) = CellsOf(S)[1][S]
      /\ FootSum(<<s>>, 2) + FootSum(<<s>>, 4) = CellsOf(S)[2][S]
  BY <1>5, FlagsTogether
<1>7. /\ Covers(S, <<s>>)
      /\ <<FootSum(<<s>>, 1) + FootSum(<<s>>, 3), FootSum(<<s>>, 2) + FootSum(<<s>>, 4)>> = Cells(S)
  BY <1>3, <1>6, CoversOne, CellsPair
<1> QED BY <1>2, <1>7
(* Reports that ask for one bank, or one note type, after the other: what   *)
(* was seen of each is a part of the rows.                                  *)
Seen(banks, seen, field, S) ==
    /\ List(banks)
    /\ \A i, k \in 1 .. Len(banks) : banks[i] = banks[k] => i = k
    /\ \A i \in 1 .. Len(banks) : \A r \in seen[banks[i]] : r[field] = banks[i]
    /\ S = UNION {seen[banks[i]] : i \in 1 .. Len(banks)}

LEMMA SeenParts ==
    ASSUME NEW banks, NEW seen, NEW field, NEW S, Seen(banks, seen, field, S)
    PROVE  LET P == [j \in DOMAIN banks |-> seen[banks[j]]]
               n == Len(banks)
           IN  /\ n \in Nat /\ DOMAIN banks = 1 .. n /\ Parts(P, n) /\ Joined(P, n) = S
               /\ \A j \in 1 .. n : P[j] = seen[banks[j]] /\ P[j] \in SUBSET S
<1> DEFINE P == [j \in DOMAIN banks |-> seen[banks[j]]]
           n == Len(banks)
<1>1. n \in Nat /\ DOMAIN banks = 1 .. n
  BY ListLen DEF Seen
<1>2. \A j \in 1 .. n : P[j] = seen[banks[j]]
  BY <1>1
<1> HIDE DEF P
<1>3. Joined(P, n) = S
  BY <1>2 DEF Joined, Seen
<1>4. Parts(P, n)
  BY <1>2 DEF Parts, Seen
<1>5. \A j \in 1 .. n : P[j] \in SUBSET S
  BY <1>3 DEF Joined
<1> QED BY <1>1, <1>2, <1>3, <1>4, <1>5 DEF P

LEMMA PrintOutJHDIs ==
    ASSUME NEW banks, NEW seen, NEW field, NEW S, Seen(banks, seen, field, S)
    PROVE  Covers(S, PrintOutJHD(banks, seen))
<1> DEFINE P == [j \in DOMAIN banks |-> seen[banks[j]]]
           n == Len(banks)
           L == [j \in DOMAIN banks |-> Line(seen[banks[j]], ByFlag(seen[banks[j]]))]
           s == Section(L, n, <<>>)
<1>1. /\ n \in Nat /\ DOMAIN banks = 1 .. n /\ Parts(P, n) /\ Joined(P, n) = S
      /\ \A j \in 1 .. n : P[j] = seen[banks[j]] /\ P[j] \in SUBSET S
  BY SeenParts
<1>2. L = [j \in 1 .. n |-> L[j]] /\ \A j \in 1 .. n : L[j].of = P[j]
  BY <1>1 DEF Line
<1>3. PrintOutJHD(banks, seen) = <<s>>
  BY DEF PrintOutJHD
<1> HIDE DEF P, n, L
<1>4. List(L) /\ Len(L) = n
  BY <1>1, <1>2, ToList
<1>5. Once(S, L)
  BY <1>1, <1>2, <1>4, OnceLines
<1>6. Exactly(s, S)
  BY <1>4, <1>5 DEF Exactly, Section
<1> HIDE DEF s
<1> QED BY <1>3, <1>6, CoversOne

(* Two banks on a line.                                                     *)
LEMMA OncePaired ==
    ASSUME NEW S, NEW L, Once(S, L), NEW m \in Nat, Len(L) = 2 * m, NEW M, List(M), Len(M) = m,
           \A k \in 1 .. m : M[k].of = L[2 * k - 1].of \cup L[2 * k].of
    PROVE  Once(S, M)
<1>1. \A k \in 1 .. m : 2 * k - 1 \in 1 .. Len(L) /\ 2 * k \in 1 .. Len(L)
  OBVIOUS
<1>2. \A k \in 1 .. m : M[k].of \subseteq S
  BY <1>1 DEF Once
<1>3. ASSUME NEW r \in S
      PROVE  \E k \in 1 .. m : r \in M[k].of /\ \A j \in 1 .. m : r \in M[j].of => j = k
  <2>1. PICK i \in 1 .. Len(L) : r \in L[i].of /\ \A k \in 1 .. Len(L) : r \in L[k].of => k = i
    BY DEF Once
  <2>2. \E k \in 1 .. m : i = 2 * k - 1 \/ i = 2 * k
    <3> DEFINE k == (i + 1) \div 2
    <3>1. k \in 1 .. m /\ (i = 2 * k - 1 \/ i = 2 * k)
      OBVIOUS
    <3> QED BY <3>1
  <2>3. PICK k \in 1 .. m : i = 2 * k - 1 \/ i = 2 * k
    BY <2>2
  <2>4. r \in M[k].of
    BY <2>1, <2>3
  <2>5. ASSUME NEW j \in 1 .. m, r \in M[j].of PROVE j = k
    <3>1. r \in L[2 * j - 1].of \/ r \in L[2 * j].of
      BY <2>5
    <3>2. i = 2 * j - 1 \/ i = 2 * j
      BY <1>1, <2>1, <3>1
    <3> QED BY <2>3, <3>2
  <2> QED BY <2>4, <2>5
<1> QED BY <1>2, <1>3 DEF Once

LEMMA OnceAfter ==
    ASSUME NEW S, NEW L, Once(S, L), NEW l, l.of = {}
    PROVE  Once(S, L \o <<l>>) /\ Len(L \o <<l>>) = Len(L) + 1
<1> DEFINE b == <<l>>
<1>1. List(b) /\ Len(b) = 1 /\ b[1] = l
  BY OneList
<1> HIDE DEF b
<1>2. Once({}, b)
  BY <1>1 DEF Once
<1>3. S \cap {} = {} /\ S \cup {} = S
  OBVIOUS
<1>4. Once(S \cup {}, L \o b)
  BY <1>2, <1>3, OnceConcat
<1>5. Len(L \o b) = Len(L) + Len(b)
  BY <1>1, ConcatList DEF Once
<1> QED BY <1>1, <1>3, <1>4, <1>5 DEF b

LEMMA PrintJJQDIs ==
    ASSUME NEW banks, NEW seen, NEW field, NEW S, Seen(banks, seen, field, S)
    PROVE  Covers(S, PrintJJQD(banks, seen))
<1> DEFINE P == [j \in DOMAIN banks |-> seen[banks[j]]]
           n == Len(banks)
           items == [j \in DOMAIN banks |-> Line(seen[banks[j]], ByFlag(seen[banks[j]]))]
           even == items \o (IF Len(items) % 2 = 0 THEN <<Blank>> ELSE <<>>)
           total == Line({}, Added(items, 4))
           filled == even \o <<total>>
           L == [k \in 1 .. Len(filled) \div 2 |->
                   Line(filled[2 * k - 1].of \cup filled[2 * k].of,
                        filled[2 * k - 1].cells \o filled[2 * k].cells)]
           s == Section(L, Len(banks) \div 2 + 1, <<Len(banks)>>)
<1>1. /\ n \in Nat /\ DOMAIN banks = 1 .. n /\ Parts(P, n) /\ Joined(P, n) = S
      /\ \A j \in 1 .. n : P[j] = seen[banks[j]] /\ P[j] \in SUBSET S
  BY SeenParts
<1>2. items = [j \in 1 .. n |-> items[j]] /\ \A j \in 1 .. n : items[j].of = P[j]
  BY <1>1 DEF Line
<1>3. PrintJJQD(banks, seen) = <<s>>
  BY DEF PrintJJQD
<1>4. Blank.of = {} /\ total.of = {}
  BY DEF Blank, Line
<1>5. /\ L = [k \in 1 .. Len(filled) \div 2 |-> L[k]]
      /\ \A k \in 1 .. Len(filled) \div 2 : L[k].of = filled[2 * k - 1].of \cup filled[2 * k].of
  BY DEF Line
<1>6. s.lines = L /\ s.count = n \div 2 + 1
  BY DEF Section
<1> HIDE DEF P, s, L, total, items
<1>7. List(items) /\ Len(items) = n
  <2> HIDE DEF n
  <2> QED BY <1>1, <1>2, ToList
<1> HIDE DEF n
<1>8. Once(S, items)
  BY <1>1, <1>2, <1>7, OnceLines
<1>9. Once(S, even) /\ Len(even) = IF n % 2 = 0 THEN n + 1 ELSE n
  <2>1. CASE n % 2 = 0
    <3>1. even = items \o <<Blank>>
      BY <1>7, <2>1
    <3> QED BY <1>4, <1>7, <1>8, <2>1, <3>1, OnceAfter
  <2>2. CASE n % 2 # 0
    <3>1. even = items
      BY <1>7, <2>2, ConcatEmpty
    <3> QED BY <1>7, <1>8, <2>2, <3>1
  <2> QED BY <2>1, <2>2
<1> HIDE DEF even
<1>10. Once(S, filled) /\ Len(filled) = Len(even) + 1
  BY <1>4, <1>9, OnceAfter
<1> HIDE DEF filled
<1> DEFINE m == n \div 2 + 1
<1>11. m \in Nat /\ Len(filled) = 2 * m /\ Len(filled) \div 2 = m
  BY <1>1, <1>9, <1>10
<1> HIDE DEF m
<1>12. List(L) /\ Len(L) = m
  <2>1. L = [k \in 1 .. m |-> L[k]]
    BY <1>5, <1>11
  <2> QED BY <1>11, <2>1, ToList
<1>13. Once(S, L)
  <2>1. \A k \in 1 .. m : L[k].of = filled[2 * k - 1].of \cup filled[2 * k].of
    BY <1>5, <1>11
  <2> QED BY <1>10, <1>11, <1>12, <2>1, OncePaired
<1>14. Exactly(s, S)
  BY <1>6, <1>12, <1>13 DEF Exactly, m
<1> QED BY <1>3, <1>14, CoversOne

(* A request for bags that are not there is answered by a blank line.       *)
LEMMA BlankCovers == Covers({}, <<Section(<<Blank>>, 1, <<0>>)>>)
<1> DEFINE L == <<Blank>>
           s == Section(L, 1, <<0>>)
<1>1. List(L) /\ Len(L) = 1 /\ L[1] = Blank /\ Blank.of = {}
  BY OneList DEF Blank, Line
<1> HIDE DEF L
<1>2. Once({}, L)
  BY <1>1 DEF Once
<1>3. Exactly(s, {})
  BY <1>1, <1>2 DEF Exactly, Section
<1> HIDE DEF s
<1>4. Covers({}, <<s>>)
  BY <1>3, CoversOne
<1> QED BY <1>4 DEF s, L
(* Notes sent and notes received together are all the notes.                *)
Directed(U) == \A r \in U : r.dir \in {"out", "in"}

LEMMA InAndOutIs ==
    ASSUME NEW U, Priced(U), Directed(U), NEW S \in SUBSET U
    PROVE  InAndOut(S)[5] = CellsOf(U)[1][S] /\ InAndOut(S)[6] = CellsOf(U)[2][S]
<1> DEFINE A == {r \in S : r.dir = "out"}
           B == {r \in S : r.dir = "in"}
           a == Cells(A)
           b == Cells(B)
           t == <<a[1] + b[1], a[2] + b[2]>>
<1>1. A \cup B = S /\ A \cap B = {} /\ A \in SUBSET U /\ B \in SUBSET U
  BY DEF Directed
<1>2. InAndOut(S) = (a \o b) \o t
  BY DEF InAndOut
<1>3. /\ List(a) /\ List(b) /\ List(t) /\ Len(a) = 2 /\ Len(b) = 2 /\ Len(t) = 2
  BY PairList DEF Cells
<1>4. t[1] = a[1] + b[1] /\ t[2] = a[2] + b[2]
  OBVIOUS
<1> HIDE DEF A, B
<1>5. ASSUME NEW c \in 1 .. 2 PROVE a[c] + b[c] = CellsOf(U)[c][S]
  <2> DEFINE mu == CellsOf(U)[c]
  <2>1. Measure(mu, U) /\ \A T \in SUBSET U : Cells(T)[c] = mu[T]
    BY CellsMeasure
  <2> HIDE DEF mu
  <2>2. a[c] = mu[A] /\ b[c] = mu[B] /\ mu[A \cup B] = mu[A] + mu[B]
    BY <1>1, <2>1 DEF Measure
  <2> QED BY <1>1, <2>2 DEF mu
<1> HIDE DEF a, b, t
<1> DEFINE w == a \o b
<1>6. List(w) /\ Len(w) = 4
  <2>1. List(a \o b) /\ Len(a \o b) = Len(a) + Len(b)
    BY <1>3, ConcatList
  <2>2. 2 + 2 = 4
    OBVIOUS
  <2> QED BY <1>3, <2>1, <2>2
<1> HIDE DEF w
<1>7. /\ List(w \o t) /\ Len(w \o t) = Len(w) + Len(t)
      /\ \A i \in 1 .. Len(w) : (w \o t)[i] = w[i]
      /\ \A i \in 1 .. Len(t) : (w \o t)[Len(w) + i] = t[i]
      /\ \A i \in 1 .. Len(w \o t) :
           \/ i \in 1 .. Len(w) /\ (w \o t)[i] = w[i]
           \/ i - Len(w) \in 1 .. Len(t) /\ (w \o t)[i] = t[i - Len(w)]
  BY <1>3, <1>6, ConcatList, Zenon
<1>8. 1 \in 1 .. 2 /\ 2 \in 1 .. 2 /\ 4 + 1 = 5 /\ 4 + 2 = 6
  OBVIOUS
<1>9. (w \o t)[5] = t[1] /\ (w \o t)[6] = t[2]
  BY <1>3, <1>6, <1>7, <1>8
<1> QED BY <1>2, <1>4, <1>5, <1>8, <1>9 DEF w

LEMMA PrintNoteTotalIs ==
    ASSUME NEW types, NEW seen, NEW field, NEW S, Seen(types, seen, field, S),
           Priced(S), Directed(S)
    PROVE  LET form == PrintNoteTotal_PF(types, seen)
           IN  Covers(S, form) /\ <<FootSum(form, 5), FootSum(form, 6)>> = Cells(S)
<1> DEFINE P == [j \in DOMAIN types |-> seen[types[j]]]
           n == Len(types)
           L == [i \in DOMAIN types |-> Line(seen[types[i]], InAndOut(seen[types[i]]))]
           s == Section(L, Len(L), Added(L, 6))
<1>1. /\ n \in Nat /\ DOMAIN types = 1 .. n /\ Parts(P, n) /\ Joined(P, n) = S
      /\ \A j \in 1 .. n : P[j] = seen[types[j]] /\ P[j] \in SUBSET S
  BY SeenParts
<1>2. /\ L = [j \in 1 .. n |-> L[j]]
      /\ \A j \in 1 .. n : L[j].of = P[j] /\ L[j].cells = InAndOut(P[j])
  BY <1>1 DEF Line
<1>3. PrintNoteTotal_PF(types, seen) = <<s>>
  BY DEF PrintNoteTotal_PF
<1>4. s.lines = L /\ s.count = Len(L) /\ s.foot = Added(L, 6)
  BY DEF Section
<1> HIDE DEF P, n, L, s
<1>5. List(L) /\ Len(L) = n
  BY <1>1, <1>2, ToList
<1>6. Once(S, L)
  BY <1>1, <1>2, <1>5, OnceLines
<1>7. Exactly(s, S)
  BY <1>4, <1>6 DEF Exactly
<1>8. /\ Measure(CellsOf(S)[1], S) /\ Measure(CellsOf(S)[2], S)
  BY CellsMeasure
<1>9. List(L) /\ Parts(P, Len(L))
  BY <1>1, <1>5
<1>10. s.foot[5] = CellsOf(S)[1][S]
  <2> DEFINE mu == CellsOf(S)[1]
  <2>1. \A i \in 1 .. Len(L) : P[i] \in SUBSET S /\ L[i].cells[5] = mu[P[i]]
    BY <1>1, <1>2, <1>5, InAndOutIs
  <2>2. Measure(mu, S)
    BY <1>8
  <2> HIDE DEF mu
  <2>3. 5 \in 1 .. 6
    OBVIOUS
  <2>4. Added(L, 6)[5] = mu[Joined(P, Len(L))]
    BY <1>9, <2>1, <2>2, <2>3, AddedColumn
  <2> QED BY <1>1, <1>4, <1>5, <2>4 DEF mu
<1>11. s.foot[6] = CellsOf(S)[2][S]
  <2> DEFINE mu == CellsOf(S)[2]
  <2>1. \A i \in 1 .. Len(L) : P[i] \in SUBSET S /\ L[i].cells[6] = mu[P[i]]
    BY <1>1, <1>2, <1>5, InAndOutIs
  <2>2. Measure(mu, S)
    BY <1>8
  <2> HIDE DEF mu
  <2>3. 6 \in 1 .. 6
    OBVIOUS
  <2>4. Added(L, 6)[6] = mu[Joined(P, Len(L))]
    BY <1>9, <2>1, <2>2, <2>3, AddedColumn
  <2> QED BY <1>1, <1>4, <1>5, <2>4 DEF mu
<1>12. S \in SUBSET S
  OBVIOUS
<1>13. s.foot[5] \in Int /\ s.foot[6] \in Int
  BY <1>8, <1>10, <1>11, <1>12 DEF Measure
<1>14. FootSum(<<s>>, 5) = s.foot[5] /\ FootSum(<<s>>, 6) = s.foot[6]
  BY <1>13, OneFoot
<1>15. /\ Covers(S, <<s>>)
       /\ <<FootSum(<<s>>, 5), FootSum(<<s>>, 6)>> = Cells(S)
  BY <1>7, <1>10, <1>11, <1>14, CoversOne, CellsPair
<1> QED BY <1>3, <1>15

(* The fee lists and the list of bookings write each row as often as it     *)
(* joins; when that is once, there is a line for each.                      *)
Written(S, n, cs) ==
    LET rows == SetToSeq(S)
    IN  FlattenSeq([i \in DOMAIN rows |->
           [k \in 1 .. n[rows[i]] |-> Line({rows[i]}, cs[rows[i]])]])

LineEach(S, L, cs) ==
    \E ks : /\ Names(ks, S) /\ Len(ks) = Len(L)
            /\ \A i \in 1 .. Len(L) : L[i] = Line({ks[i]}, cs[ks[i]])

LEMMA OnceEach ==
    ASSUME NEW S, IsFiniteSet(S), NEW n, \A r \in S : n[r] = 1, NEW cs
    PROVE  LET L == Written(S, n, cs)
           IN  /\ Once(S, L) /\ Len(L) = Cardinality(S)
               /\ LineEach(S, L, cs)
<1> DEFINE L == Written(S, n, cs)
           rows == SetToSeq(S)
           K == [i \in DOMAIN rows |->
                   [k \in 1 .. n[rows[i]] |-> Line({rows[i]}, cs[rows[i]])]]
           m == Cardinality(S)
<1>1. Names(rows, S) /\ Len(rows) = m /\ m \in Nat
  BY SetToSeqNames
<1>2. L = FlattenSeq(K)
  BY DEF Written
<1> HIDE DEF rows, m, L
<1>3. DOMAIN rows = 1 .. m /\ \A i \in 1 .. m : rows[i] \in S
  BY <1>1, ListLen DEF Names
<1>4. ASSUME NEW i \in 1 .. m
      PROVE  List(K[i]) /\ Len(K[i]) = 1 /\ K[i][1] = Line({rows[i]}, cs[rows[i]])
  <2> DEFINE e == Line({rows[i]}, cs[rows[i]])
  <2>1. K[i] = [k \in 1 .. 1 |-> e]
    BY <1>3
  <2> HIDE DEF e, K
  <2>2. K[i] = [k \in 1 .. 1 |-> K[i][k]] /\ K[i][1] = e
    BY <2>1
  <2>3. List(K[i]) /\ Len(K[i]) = 1
    BY <2>2, ToList
  <2> QED BY <2>2, <2>3 DEF e
<1>5. K = [i \in 1 .. m |-> K[i]]
  BY <1>3
<1> HIDE DEF K
<1>6. List(K) /\ Len(K) = m
  BY <1>1, <1>5, ToList
<1>7. List(L) /\ Len(L) = m /\ \A i \in 1 .. m : L[i] = K[i][1]
  <2>1. \A i \in 1 .. Len(K) : List(K[i]) /\ Len(K[i]) = 1
    BY <1>4, <1>6
  <2> QED BY <1>2, <1>6, <2>1, FlattenSingles
<1>8. \A i \in 1 .. m : L[i] = Line({rows[i]}, cs[rows[i]])
  BY <1>4, <1>7
<1>9. \A i \in 1 .. m : L[i].of = {rows[i]}
  <2>1. \A x, y : Line(x, y).of = x
    BY DEF Line
  <2> QED BY <1>8, <2>1
<1>10. Once(S, L)
  <2>1. \A i \in 1 .. m : L[i].of \subseteq S
    BY <1>3, <1>9
  <2>2. ASSUME NEW r \in S
        PROVE  \E i \in 1 .. m : r \in L[i].of /\ \A k \in 1 .. m : r \in L[k].of => k = i
    <3>1. PICK i \in 1 .. m : rows[i] = r
      BY <1>1 DEF Names
    <3>2. \A k \in 1 .. m : rows[k] = r => k = i
      BY <1>1, <3>1 DEF Names
    <3> QED BY <1>9, <3>1, <3>2
  <2> QED BY <1>7, <2>1, <2>2 DEF Once
<1>11. LineEach(S, L, cs)
  BY <1>1, <1>7, <1>8 DEF LineEach
<1> QED BY <1>7, <1>10, <1>11 DEF m, L

LEMMA PF10_781Is ==
    ASSUME NEW S, IsFiniteSet(S), \A r \in S : r.booked \in Nat /\ r.booked <= 1
    PROVE  Covers(S, PF10_781(S))
<1> DEFINE n == [r \in S |-> Max({1, r.booked})]
           cs == [r \in S |-> <<>>]
           rows == SetToSeq(S)
           L == FlattenSeq([i \in DOMAIN rows |->
                     [k \in 1 .. Max({1, rows[i].booked}) |-> Line({rows[i]}, <<>>)]])
           s == Section(L, Len(rows), <<>>)
<1>1. \A r \in S : n[r] = 1
  <2>1. ASSUME NEW r \in S PROVE Max({1, r.booked}) = 1
    <3>1. r.booked = 0 \/ r.booked = 1
      OBVIOUS
    <3>2. CASE r.booked = 1
      BY <3>2 DEF Max
    <3>3. CASE r.booked = 0
      BY <3>3 DEF Max
    <3> QED BY <3>1, <3>2, <3>3
  <2> QED BY <2>1
<1>2. Names(rows, S) /\ Len(rows) = Cardinality(S)
  BY SetToSeqNames
<1>3. \A i \in DOMAIN rows : rows[i] \in S
  BY <1>2, ListLen DEF Names
<1>4. \A i \in DOMAIN rows : n[rows[i]] = Max({1, rows[i].booked}) /\ cs[rows[i]] = <<>>
  BY <1>3
<1>5. L = Written(S, n, cs)
  <2> HIDE DEF n, cs
  <2> QED BY <1>4 DEF Written
<1>6. PF10_781(S) = <<s>>
  BY DEF PF10_781
<1> HIDE DEF L, n, cs
<1>7. Once(S, L) /\ Len(L) = Cardinality(S)
  <2>1. Once(S, Written(S, n, cs)) /\ Len(Written(S, n, cs)) = Cardinality(S)
    BY <1>1, OnceEach
  <2> QED BY <1>5, <2>1
<1>8. Exactly(s, S)
  BY <1>2, <1>7 DEF Exactly, Section
<1> HIDE DEF s
<1> QED BY <1>6, <1>8, CoversOne
LEMMA FeeSectionIs ==
    ASSUME NEW S, Priced(S), \A r \in S : NoteNames[r.type] = 1, NEW form, form = <<FeeSection(S)>>
    PROVE  Covers(S, form) /\ <<FootSum(form, 1), FootSum(form, 2)>> = Cells(S)
<1> DEFINE n == [r \in S |-> NoteNames[r.type]]
           cs == [r \in S |-> <<1, r.amt>>]
           rows == SetToSeq(S)
           L == FlattenSeq([i \in DOMAIN rows |->
                     [k \in 1 .. NoteNames[rows[i].type] |-> Line({rows[i]}, <<1, rows[i].amt>>)]])
           s == Section(L, Len(L), Added(L, 2))
<1>0. IsFiniteSet(S) /\ \A r \in S : r.amt \in Int
  BY DEF Priced
<1>1. \A r \in S : n[r] = 1
  OBVIOUS
<1>2. Names(rows, S)
  BY <1>0, SetToSeqNames
<1>3. \A i \in DOMAIN rows : rows[i] \in S
  BY <1>2, ListLen DEF Names
<1>4. \A i \in DOMAIN rows : n[rows[i]] = NoteNames[rows[i].type] /\ cs[rows[i]] = <<1, rows[i].amt>>
  BY <1>3
<1>5. L = Written(S, n, cs)
  <2> HIDE DEF n, cs
  <2> QED BY <1>4 DEF Written
<1>6. form = <<s>>
  BY DEF FeeSection
<1>7. \A r \in S : cs[r] = <<1, r.amt>>
  OBVIOUS
<1> HIDE DEF L, n, cs, rows
<1>8. Once(S, L) /\ Len(L) = Cardinality(S) /\ LineEach(S, L, cs)
  <2> DEFINE W == Written(S, n, cs)
  <2>1. Once(S, W) /\ Len(W) = Cardinality(S) /\ LineEach(S, W, cs)
    BY <1>0, <1>1, OnceEach
  <2> HIDE DEF W
  <2>2. W = L
    BY <1>5 DEF W
  <2> QED BY <2>1, <2>2
<1>9. PICK ks : /\ Names(ks, S) /\ Len(ks) = Len(L)
                /\ \A i \in 1 .. Len(L) : L[i] = Line({ks[i]}, cs[ks[i]])
  BY <1>8 DEF LineEach
<1>10. Len(L) \in Nat /\ List(L)
  BY <1>8, ListLen DEF Once
<1> DEFINE P == [i \in 1 .. Len(L) |-> {ks[i]}]
<1>11. \A i \in 1 .. Len(L) : P[i] = {ks[i]} /\ ks[i] \in S
  BY <1>9 DEF Names
<1> HIDE DEF P
<1>12. Parts(P, Len(L)) /\ Joined(P, Len(L)) = S
  <2>1. Parts(P, Len(L))
    BY <1>9, <1>11 DEF Parts, Names
  <2>2. ASSUME NEW r \in S PROVE r \in Joined(P, Len(L))
    <3>1. PICK i \in 1 .. Len(L) : ks[i] = r
      BY <1>9 DEF Names
    <3> QED BY <1>11, <3>1 DEF Joined
  <2>3. Joined(P, Len(L)) \subseteq S
    BY <1>11 DEF Joined
  <2> QED BY <2>1, <2>2, <2>3
<1>13. ASSUME NEW i \in 1 .. Len(L)
       PROVE  L[i].cells[1] = CellsOf(S)[1][P[i]] /\ L[i].cells[2] = CellsOf(S)[2][P[i]]
  <2> DEFINE r == ks[i]
  <2>1. r \in S /\ {r} \in SUBSET S /\ P[i] = {r}
    BY <1>11
  <2>2. L[i].cells = <<1, r.amt>>
    <3>1. \A x, y : Line(x, y).cells = y
      BY DEF Line
    <3>2. L[i] = Line({r}, cs[r]) /\ cs[r] = <<1, r.amt>>
      BY <1>7, <1>9, <2>1
    <3> HIDE DEF r
    <3> QED BY <3>1, <3>2
  <2> HIDE DEF r
  <2>3. Count(S)[{r}] = 1
    BY <2>1, FS_Singleton DEF Count
  <2>4. Amount(S)[{r}] = r.amt
    <3>1. IsFiniteSet({r}) /\ \A x \in {r} : x.amt \in Int
      BY <1>0, <2>1, FS_Singleton
    <3>2. PICK g : Adds(g, Amounts({r}), {r}) /\ AmountSum({r}) = g[{r}]
      BY <3>1, AmountsAdd
    <3>3. {r} \in SUBSET {r} /\ {} \in SUBSET {r} /\ r \in {r} /\ {r} \ {r} = {}
      OBVIOUS
    <3>4. g[{r}] = g[{}] + Amounts({r})[r] /\ g[{}] = 0
      BY <3>2, <3>3 DEF Adds
    <3>5. Amounts({r})[r] = r.amt
      BY DEF Amounts
    <3> QED BY <1>0, <2>1, <3>2, <3>4, <3>5 DEF Amount
  <2> QED BY <2>1, <2>2, <2>3, <2>4 DEF CellsOf
<1>14. Exactly(s, S) /\ s.foot = Added(L, 2)
  BY <1>8 DEF Exactly, Section
<1> HIDE DEF s
<1>15. ASSUME NEW c \in 1 .. 2 PROVE FootSum(form, c) = CellsOf(S)[c][S]
  <2> DEFINE mu == CellsOf(S)[c]
  <2>1. Measure(mu, S)
    BY CellsMeasure
  <2>2. \A i \in 1 .. Len(L) : P[i] \in SUBSET S /\ L[i].cells[c] = mu[P[i]]
    <3>1. c = 1 \/ c = 2
      OBVIOUS
    <3> QED BY <1>11, <1>13, <3>1
  <2> HIDE DEF mu
  <2>3. Added(L, 2)[c] = mu[Joined(P, Len(L))]
    BY <1>10, <1>12, <2>1, <2>2, AddedColumn
  <2>4. s.foot[c] = mu[S] /\ mu[S] \in Int
    BY <1>12, <1>14, <2>1, <2>3 DEF Measure
  <2>5. FootSum(<<s>>, c) = mu[S]
    BY <2>4, OneFoot
  <2> QED BY <1>6, <2>5 DEF mu
<1>16. Covers(S, form)
  BY <1>6, <1>14, CoversOne
<1>17. <<FootSum(form, 1), FootSum(form, 2)>> = Cells(S)
  BY <1>15, CellsPair
<1> QED BY <1>16, <1>17

(* However often the rows join, the forms have a row count.                 *)
LEMMA FeeSheets ==
    ASSUME NEW S, IsFiniteSet(S), \A r \in S : NoteNames[r.type] \in Nat
    PROVE  Sheets(<<FeeSection(S)>>) /\ Len(<<FeeSection(S)>>) = 1
<1> DEFINE rows == SetToSeq(S)
           K == [i \in DOMAIN rows |->
                   [k \in 1 .. NoteNames[rows[i].type] |-> Line({rows[i]}, <<1, rows[i].amt>>)]]
           L == FlattenSeq(K)
           s == Section(L, Len(L), Added(L, 2))
<1>1. Names(rows, S) /\ Len(rows) \in Nat
  BY SetToSeqNames
<1>2. DOMAIN rows = 1 .. Len(rows) /\ \A i \in 1 .. Len(rows) : rows[i] \in S
  BY <1>1, ListLen DEF Names
<1>3. FeeSection(S) = s
  BY DEF FeeSection
<1> HIDE DEF rows
<1>4. ASSUME NEW i \in 1 .. Len(rows) PROVE List(K[i])
  <2> DEFINE n == NoteNames[rows[i].type]
             e == Line({rows[i]}, <<1, rows[i].amt>>)
  <2>1. n \in Nat /\ K[i] = [k \in 1 .. n |-> e]
    BY <1>2
  <2> HIDE DEF n, e, K
  <2>2. K[i] = [k \in 1 .. n |-> K[i][k]]
    BY <2>1
  <2> QED BY <2>1, <2>2, ToList
<1>5. K = [i \in 1 .. Len(rows) |-> K[i]]
  BY <1>2
<1> HIDE DEF K
<1>6. List(K) /\ Len(K) = Len(rows)
  BY <1>1, <1>5, ToList
<1>7. List(L)
  <2>1. PICK g : /\ \A k \in 0 .. Len(K) : List(g[k])
                 /\ FlattenSeq(K) = g[Len(K)]
    BY <1>4, <1>6, FlattenSteps
  <2>2. Len(K) \in 0 .. Len(K)
    BY <1>1, <1>6
  <2> QED BY <2>1, <2>2
<1>8. s.count \in Nat
  BY <1>7, ListLen DEF Section
<1> HIDE DEF s
<1> QED BY <1>3, <1>8, OneList DEF Sheets

LEMMA PF10_781Sheets ==
    ASSUME NEW S, IsFiniteSet(S)
    PROVE  Sheets(PF10_781(S)) /\ Len(PF10_781(S)) = 1
<1> DEFINE rows == SetToSeq(S)
           L == FlattenSeq([i \in DOMAIN rows |->
                     [k \in 1 .. Max({1, rows[i].booked}) |-> Line({rows[i]}, <<>>)]])
           s == Section(L, Len(rows), <<>>)
<1>1. Len(rows) \in Nat
  BY SetToSeqNames
<1>2. PF10_781(S) = <<s>>
  BY DEF PF10_781
<1> HIDE DEF L, rows
<1>3. s.count \in Nat
  BY <1>1 DEF Section
<1> HIDE DEF s
<1> QED BY <1>2, <1>3, OneList DEF Sheets
=============================================================================
