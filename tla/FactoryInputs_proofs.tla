------------------------ MODULE FactoryInputs_proofs ------------------------
(***************************************************************************)
(* Proofs about the algorithms of the factory, for every input: what the   *)
(* spec-grounded review is asked, whether the publisher accepts what the   *)
(* runner tells it, and what a program may reach.                          *)
(*                                                                         *)
(* Everything here is a list made of a list: the words of a text, those    *)
(* that a view still shows, references, criteria, the lines of the block,  *)
(* the entries of the spine.  Each step says where in its list a thing is, *)
(* and where it comes from in the one before.  What a fold or a recursive  *)
(* function leaves at a place follows from the least place at which it     *)
(* would be wrong.  The spine is the beginning of the list of all criteria *)
(* asked for, so the entries of one issue stand together and are its first *)
(* criteria: that makes the parts of the artifact agree with each other.   *)
(***************************************************************************)
EXTENDS FactoryInputs, ImportClosure_proofs

-----------------------------------------------------------------------------
(* Lists of lists.  A member of the flattened list has an address: which   *)
(* list it is of, and where it is in it.                                   *)

\* The recursive function within FlattenSeq: what the first sequences come to.
Joined(seqs) ==
  CHOOSE f : f = [i \in 1 .. Len(seqs) |-> IF i = 1 THEN seqs[i] ELSE f[i - 1] \o seqs[i]]

\* The function exists, and a flattened list is its last value.
LEMMA JoinedRule ==
  ASSUME NEW seqs, Len(seqs) \in Nat
  PROVE  /\ \A i \in 1 .. Len(seqs) :
              Joined(seqs)[i] = IF i = 1 THEN seqs[i] ELSE Joined(seqs)[i - 1] \o seqs[i]
         /\ FlattenSeq(seqs) = IF Len(seqs) = 0 THEN seqs ELSE Joined(seqs)[Len(seqs)]
<1> DEFINE N == Len(seqs)
           Upto(n) == \E f : f = [i \in 1 .. n |-> IF i = 1 THEN seqs[i] ELSE f[i - 1] \o seqs[i]]
           T == {n \in 0 .. N : ~ Upto(n)}
<1>1. T = {}
  <2> SUFFICES ASSUME T # {} PROVE FALSE
    OBVIOUS
  <2>1. T \subseteq Nat
    <3> HIDE DEF Upto
    <3> QED
      OBVIOUS
  <2> HIDE DEF T
  <2>2. PICK n \in T : \A m \in T : n <= m
    BY <2>1, LeastPlace
  <2>3. n \in 0 .. N /\ ~ Upto(n)
    BY <2>2 DEF T
  <2>4. n # 0
    <3>1. Upto(0)
      <4> WITNESS [i \in 1 .. 0 |-> {}]
      <4> QED
        OBVIOUS
    <3> QED
      BY <2>3, <3>1
  <2>5. Upto(n - 1)
    <3>1. n - 1 \in 0 .. N /\ n - 1 \notin T
      BY <2>2, <2>3, <2>4
    <3> QED
      BY <3>1 DEF T
  <2>6. PICK f : f = [i \in 1 .. n - 1 |-> IF i = 1 THEN seqs[i] ELSE f[i - 1] \o seqs[i]]
    BY <2>5
  <2> DEFINE last == IF n = 1 THEN seqs[n] ELSE f[n - 1] \o seqs[n]
             g == [i \in 1 .. n |-> IF i = n THEN last ELSE f[i]]
  <2> HIDE DEF last
  <2>7. ASSUME NEW i \in 1 .. n
        PROVE  g[i] = IF i = 1 THEN seqs[i] ELSE g[i - 1] \o seqs[i]
    <3>1. CASE i = n
      <4>1. i # 1 => g[i - 1] = f[i - 1]
        BY <2>3, <2>4, <3>1
      <4>2. g[i] = last
        BY <3>1
      <4> QED
        BY <3>1, <4>1, <4>2, Zenon DEF last
    <3>2. CASE i # n
      <4>1. i \in 1 .. n - 1 /\ (i # 1 => i - 1 \in 1 .. n /\ i - 1 # n)
        BY <2>3, <3>2
      <4>2. f[i] = IF i = 1 THEN seqs[i] ELSE f[i - 1] \o seqs[i]
        BY <2>6, <4>1, Zenon
      <4>3. g[i] = f[i] /\ (i # 1 => g[i - 1] = f[i - 1])
        BY <3>2, <4>1
      <4> QED
        BY <4>2, <4>3, Zenon
    <3> QED
      BY <3>1, <3>2
  <2>8. g = [i \in 1 .. n |-> IF i = 1 THEN seqs[i] ELSE g[i - 1] \o seqs[i]]
    BY <2>7, Zenon
  <2> HIDE DEF g
  <2> QED
    BY <2>3, <2>8
<1>2. Upto(N)
  <2>1. N \in 0 .. N
    OBVIOUS
  <2> QED
    BY <1>1, <2>1, Zenon
<1> HIDE DEF T
<1>3. Joined(seqs) =
        [i \in 1 .. N |-> IF i = 1 THEN seqs[i] ELSE Joined(seqs)[i - 1] \o seqs[i]]
  BY <1>2, Zenon DEF Joined
<1>4. FlattenSeq(seqs) = IF Len(seqs) = 0 THEN seqs ELSE Joined(seqs)[Len(seqs)]
  BY Zenon DEF FlattenSeq, Joined
<1> QED
  BY <1>3, <1>4, Zenon

\* Where every member of the sequences stands in what they come to: the places of a list
\* of lists, in their order.
Addresses(seqs, n, flat, K, J) ==
  /\ \A i \in 1 .. Len(flat) :
       /\ K[i] \in 1 .. n /\ J[i] \in 1 .. Len(seqs[K[i]])
       /\ flat[i] = seqs[K[i]][J[i]]
  /\ \A k \in 1 .. n : \A j \in 1 .. Len(seqs[k]) :
       \E i \in 1 .. Len(flat) : K[i] = k /\ J[i] = j
  /\ \A h, i \in 1 .. Len(flat) :
       h < i => \/ K[h] < K[i]
                \/ K[h] = K[i] /\ J[h] < J[i]

\* A flattened list has an address for every place.
LEMMA FlattenFacts ==
  ASSUME NEW S, NEW seqs \in Seq(Seq(S))
  PROVE  /\ FlattenSeq(seqs) \in Seq(S)
         /\ \E K, J : Addresses(seqs, Len(seqs), FlattenSeq(seqs), K, J)
<1> DEFINE N == Len(seqs)
           Flat(n) == IF n = 0 THEN <<>> ELSE Joined(seqs)[n]
           Good(n) == /\ Flat(n) \in Seq(S)
                      /\ \E K, J : Addresses(seqs, n, Flat(n), K, J)
           T == {n \in 0 .. N : ~ Good(n)}
<1>1. N \in Nat /\ \A k \in 1 .. N : seqs[k] \in Seq(S)
  OBVIOUS
<1>2. T = {}
  <2> SUFFICES ASSUME T # {} PROVE FALSE
    OBVIOUS
  <2>1. T \subseteq Nat
    BY <1>1
  <2> HIDE DEF T
  <2>2. PICK n \in T : \A m \in T : n <= m
    BY <2>1, LeastPlace
  <2>3. n \in 0 .. N /\ ~ Good(n)
    BY <2>2 DEF T
  <2>4. n # 0
    <3>1. Flat(0) = <<>> /\ <<>> \in Seq(S) /\ Len(<<>>) = 0
      OBVIOUS
    <3>2. Addresses(seqs, 0, <<>>, <<>>, <<>>)
      BY <3>1 DEF Addresses
    <3>3. Good(0)
      BY <3>1, <3>2, Zenon
    <3> QED
      BY <2>3, <3>3
  <2>5. Good(n - 1)
    <3>1. n - 1 \in 0 .. N /\ n - 1 \notin T
      BY <1>1, <2>2, <2>3, <2>4
    <3> QED
      BY <3>1 DEF T
  <2> DEFINE before == Flat(n - 1)
             L == Len(before)
  <2>6. Flat(n) = before \o seqs[n] /\ n \in 1 .. N
    <3>1. n \in 1 .. N
      BY <1>1, <2>3, <2>4
    <3>2. Joined(seqs)[n] = IF n = 1 THEN seqs[n] ELSE Joined(seqs)[n - 1] \o seqs[n]
      BY <1>1, <3>1, JoinedRule
    <3>3. n = 1 => <<>> \o seqs[n] = seqs[n]
      BY <1>1, <3>1
    <3>4. (n = 1 <=> n - 1 = 0) /\ n # 0
      BY <3>1
    <3> QED
      BY <3>1, <3>2, <3>3, <3>4, Zenon
  <2>7. before \in Seq(S) /\ seqs[n] \in Seq(S) /\ L \in Nat /\ Len(seqs[n]) \in Nat
    <3>1. before \in Seq(S)
      BY <2>5
    <3> HIDE DEF before
    <3> QED
      BY <1>1, <2>6, <3>1
  <2>8. PICK K, J : Addresses(seqs, n - 1, before, K, J)
    BY <2>5
  <2> HIDE DEF before, Flat
  <2>9. /\ Flat(n) \in Seq(S) /\ Len(Flat(n)) = L + Len(seqs[n])
        /\ \A i \in 1 .. L + Len(seqs[n]) :
             Flat(n)[i] = IF i <= L THEN before[i] ELSE seqs[n][i - L]
    BY <2>6, <2>7
  <2> DEFINE M == L + Len(seqs[n])
             K2 == [i \in 1 .. M |-> IF i <= L THEN K[i] ELSE n]
             J2 == [i \in 1 .. M |-> IF i <= L THEN J[i] ELSE i - L]
  <2>a. \A i \in 1 .. L : /\ K[i] \in 1 .. n - 1 /\ J[i] \in 1 .. Len(seqs[K[i]])
                          /\ before[i] = seqs[K[i]][J[i]]
    BY <2>8 DEF Addresses
  <2>b. \A i \in 1 .. L : /\ i \in 1 .. M /\ K2[i] = K[i] /\ J2[i] = J[i] /\ Flat(n)[i] = before[i]
    BY <2>7, <2>9
  <2>10. \A i \in 1 .. L : /\ i \in 1 .. M /\ K2[i] = K[i] /\ J2[i] = J[i] /\ Flat(n)[i] = before[i]
                           /\ K[i] \in 1 .. n - 1 /\ J[i] \in 1 .. Len(seqs[K[i]])
                           /\ before[i] = seqs[K[i]][J[i]]
    BY <2>a, <2>b, Zenon
  <2>11. \A i \in 1 .. M : ~ (i <= L) => /\ K2[i] = n /\ J2[i] = i - L /\ i - L \in 1 .. Len(seqs[n])
                                        /\ Flat(n)[i] = seqs[n][i - L]
    BY <2>7, <2>9
  <2> HIDE DEF K2, J2, M, L
  <2>12. M \in Nat /\ L \in Nat /\ M = L + Len(seqs[n]) /\ n \in Nat /\ Len(Flat(n)) = M
    BY <2>6, <2>7, <2>9 DEF M
  <2>13. ASSUME NEW i \in 1 .. M
         PROVE  /\ K2[i] \in 1 .. n /\ J2[i] \in 1 .. Len(seqs[K2[i]])
                /\ Flat(n)[i] = seqs[K2[i]][J2[i]]
    <3>1. CASE i <= L
      <4>1. i \in 1 .. L
        BY <2>12, <3>1
      <4>2. K[i] \in 1 .. n
        BY <2>10, <2>12, <4>1
      <4> QED
        BY <2>10, <4>1, <4>2, Zenon
    <3>2. CASE ~ (i <= L)
      <4>1. n \in 1 .. n
        BY <2>6
      <4> QED
        BY <2>11, <3>2, <4>1, Zenon
    <3> QED
      BY <3>1, <3>2
  <2>14. ASSUME NEW k \in 1 .. n, NEW j \in 1 .. Len(seqs[k])
         PROVE  \E i \in 1 .. M : K2[i] = k /\ J2[i] = j
    <3>1. CASE k = n
      <4>1. L + j \in 1 .. M /\ ~ (L + j <= L) /\ (L + j) - L = j
        BY <2>7, <2>12, <3>1
      <4> QED
        BY <2>11, <3>1, <4>1
    <3>2. CASE k # n
      <4>1. k \in 1 .. n - 1
        BY <2>12, <3>2
      <4>2. PICK i \in 1 .. L : K[i] = k /\ J[i] = j
        BY <2>8, <4>1 DEF Addresses, L
      <4> QED
        BY <2>10, <4>2
    <3> QED
      BY <3>1, <3>2
  <2>15. ASSUME NEW h \in 1 .. M, NEW i \in 1 .. M, h < i
         PROVE  K2[h] < K2[i] \/ (K2[h] = K2[i] /\ J2[h] < J2[i])
    <3>1. CASE i <= L
      <4>1. h \in 1 .. L /\ i \in 1 .. L
        BY <2>12, <2>15, <3>1
      <4>2. K[h] < K[i] \/ (K[h] = K[i] /\ J[h] < J[i])
        BY <2>8, <2>15, <4>1 DEF Addresses, L
      <4> QED
        BY <2>10, <4>1, <4>2
    <3>2. CASE ~ (i <= L) /\ h <= L
      <4>1. h \in 1 .. L
        BY <2>12, <3>2
      <4>2. K2[h] \in 1 .. n - 1 /\ K2[i] = n
        BY <2>10, <2>11, <3>2, <4>1
      <4> QED
        BY <2>12, <4>2
    <3>3. CASE ~ (i <= L) /\ ~ (h <= L)
      <4>1. K2[h] = n /\ K2[i] = n /\ J2[h] = h - L /\ J2[i] = i - L
        BY <2>11, <3>3
      <4> QED
        BY <2>12, <2>15, <4>1
    <3> QED
      BY <3>1, <3>2, <3>3
  <2>16. Addresses(seqs, n, Flat(n), K2, J2)
    <3>1. /\ \A i \in 1 .. M : /\ K2[i] \in 1 .. n /\ J2[i] \in 1 .. Len(seqs[K2[i]])
                               /\ Flat(n)[i] = seqs[K2[i]][J2[i]]
          /\ \A k \in 1 .. n : \A j \in 1 .. Len(seqs[k]) :
               \E i \in 1 .. M : K2[i] = k /\ J2[i] = j
          /\ \A h, i \in 1 .. M :
               h < i => K2[h] < K2[i] \/ (K2[h] = K2[i] /\ J2[h] < J2[i])
      BY <2>13, <2>14, <2>15
    <3>2. Len(Flat(n)) = M
      BY <2>12
    <3> QED
      BY <3>1, <3>2, Zenon DEF Addresses
  <2>17. Good(n)
    BY <2>9, <2>16
  <2> QED
    BY <2>3, <2>17
<1>3. Good(N)
  <2>1. N \in 0 .. N
    BY <1>1
  <2> QED
    BY <1>2, <2>1, Zenon
<1>4. FlattenSeq(seqs) = Flat(N)
  <2>1. N = 0 => seqs = <<>>
    OBVIOUS
  <2> QED
    BY <1>1, <2>1, JoinedRule, Zenon
<1> QED
  BY <1>3, <1>4, Zenon

\* What is in one of the lists is in the flattened one.
LEMMA FlattenMembers ==
  ASSUME NEW S, NEW seqs \in Seq(Seq(S)), NEW k \in 1 .. Len(seqs), NEW j \in 1 .. Len(seqs[k])
  PROVE  \E m \in 1 .. Len(FlattenSeq(seqs)) : FlattenSeq(seqs)[m] = seqs[k][j]
<1> DEFINE flat == FlattenSeq(seqs)
<1>1. PICK K, J : Addresses(seqs, Len(seqs), flat, K, J)
  BY FlattenFacts, Zenon
<1> HIDE DEF flat
<1>2. PICK m \in 1 .. Len(flat) : K[m] = k /\ J[m] = j
  BY <1>1, Zenon DEF Addresses
<1>3. flat[m] = seqs[K[m]][J[m]]
  BY <1>1, Zenon DEF Addresses
<1> QED
  BY <1>2, <1>3, Zenon DEF flat

\* The members of a list are at its places.
LEMMA SeqFacts ==
  ASSUME NEW S, NEW s \in Seq(S)
  PROVE  DOMAIN s = 1 .. Len(s) /\ Len(s) \in Nat /\ \A i \in 1 .. Len(s) : s[i] \in S
OBVIOUS

\* A list after another.
LEMMA ConcatFacts ==
  ASSUME NEW S, NEW a \in Seq(S), NEW b \in Seq(S)
  PROVE  a \o b \in Seq(S) /\ Len(a \o b) = Len(a) + Len(b)
OBVIOUS

\* Two lists of lists of the same lengths come to the same length.
LEMMA FlattenLengths ==
  ASSUME NEW S, NEW A \in Seq(Seq(S)), NEW R, NEW B \in Seq(Seq(R)), Len(A) = Len(B),
         \A k \in 1 .. Len(A) : Len(A[k]) = Len(B[k])
  PROVE  Len(FlattenSeq(A)) = Len(FlattenSeq(B))
<1> DEFINE N == Len(A)
           Good(n) == /\ Joined(A)[n] \in Seq(S) /\ Joined(B)[n] \in Seq(R)
                      /\ Len(Joined(A)[n]) = Len(Joined(B)[n])
           T == {n \in 1 .. N : ~ Good(n)}
<1>1. N \in Nat /\ N = Len(B)
  OBVIOUS
<1>2. \A k \in 1 .. N : A[k] \in Seq(S) /\ B[k] \in Seq(R) /\ Len(A[k]) = Len(B[k])
  BY <1>1
<1>3. T = {}
  <2> SUFFICES ASSUME T # {} PROVE FALSE
    OBVIOUS
  <2>1. T \subseteq Nat
    <3> HIDE DEF Good
    <3> QED
      BY <1>1
  <2> HIDE DEF T
  <2>2. PICK n \in T : \A m \in T : n <= m
    BY <2>1, LeastPlace
  <2>3. n \in 1 .. N /\ ~ Good(n)
    BY <2>2 DEF T
  <2>4. /\ Joined(A)[n] = IF n = 1 THEN A[n] ELSE Joined(A)[n - 1] \o A[n]
        /\ Joined(B)[n] = IF n = 1 THEN B[n] ELSE Joined(B)[n - 1] \o B[n]
    BY <1>1, <2>3, JoinedRule
  <2>5. n # 1
    BY <1>2, <2>3, <2>4
  <2>6. Good(n - 1)
    <3>1. n - 1 \in 1 .. N /\ n - 1 \notin T
      BY <1>1, <2>2, <2>3, <2>5
    <3> QED
      BY <3>1 DEF T
  <2> DEFINE a == Joined(A)[n - 1]
             b == Joined(B)[n - 1]
  <2>7. a \in Seq(S) /\ b \in Seq(R) /\ Len(a) = Len(b)
    BY <2>6
  <2>8. Joined(A)[n] = a \o A[n] /\ Joined(B)[n] = b \o B[n]
    BY <2>4, <2>5
  <2> HIDE DEF a, b
  <2>9. a \o A[n] \in Seq(S) /\ b \o B[n] \in Seq(R) /\ Len(a \o A[n]) = Len(b \o B[n])
    <3>1. A[n] \in Seq(S) /\ B[n] \in Seq(R) /\ Len(A[n]) = Len(B[n])
      BY <1>2, <2>3
    <3>2. a \o A[n] \in Seq(S) /\ Len(a \o A[n]) = Len(a) + Len(A[n])
      BY <2>7, <3>1, ConcatFacts
    <3>3. b \o B[n] \in Seq(R) /\ Len(b \o B[n]) = Len(b) + Len(B[n])
      BY <2>7, <3>1, ConcatFacts
    <3> QED
      BY <2>7, <3>1, <3>2, <3>3, Zenon
  <2> QED
    BY <2>3, <2>8, <2>9
<1>4. N # 0 => Good(N)
  <2>1. N # 0 => N \in 1 .. N
    BY <1>1
  <2> QED
    BY <1>3, <2>1, Zenon
<1> HIDE DEF Good, T
<1>5. N = 0 => A = <<>> /\ B = <<>>
  <2>1. Len(A) = 0 => A = <<>>
    OBVIOUS
  <2>2. Len(B) = 0 => B = <<>>
    OBVIOUS
  <2> QED
    BY <1>1, <2>1, <2>2
<1> QED
  BY <1>1, <1>4, <1>5, JoinedRule DEF Good

\* What of a list is kept stands in increasing places of it.
LEMMA OnlyFacts ==
  ASSUME NEW T, NEW list \in Seq(T), NEW S
  PROVE  /\ Only(list, S) \in Seq(T)
         /\ \E P : /\ \A i \in 1 .. Len(Only(list, S)) :
                        /\ P[i] \in 1 .. Len(list) /\ Only(list, S)[i] = list[P[i]] /\ list[P[i]] \in S
                   /\ \A k \in 1 .. Len(list) :
                        list[k] \in S => \E i \in 1 .. Len(Only(list, S)) : P[i] = k
                   /\ \A h, i \in 1 .. Len(Only(list, S)) : h < i => P[h] < P[i]
<1> DEFINE parts == [k \in DOMAIN list |-> IF list[k] \in S THEN <<list[k]>> ELSE <<>>]
<1>1. DOMAIN list = 1 .. Len(list) /\ Len(list) \in Nat
  OBVIOUS
<1>2. parts \in Seq(Seq(T)) /\ Len(parts) = Len(list)
  <2>1. \A k \in 1 .. Len(list) : list[k] \in T /\ <<list[k]>> \in Seq(T) /\ <<>> \in Seq(T)
    OBVIOUS
  <2>2. \A k \in 1 .. Len(list) : (IF list[k] \in S THEN <<list[k]>> ELSE <<>>) \in Seq(T)
    BY <2>1
  <2> QED
    BY <1>1, <2>2
<1>3. \A k \in 1 .. Len(list) : parts[k] = IF list[k] \in S THEN <<list[k]>> ELSE <<>>
  BY <1>1
<1>4. Only(list, S) = FlattenSeq(parts)
  BY Zenon DEF Only
<1> HIDE DEF parts
<1> DEFINE kept == FlattenSeq(parts)
<1>5. kept \in Seq(T)
  BY <1>2, FlattenFacts
<1>6. PICK K, J : Addresses(parts, Len(parts), kept, K, J)
  BY <1>2, FlattenFacts
<1> HIDE DEF kept
<1>7. \A i \in 1 .. Len(kept) :
        /\ K[i] \in 1 .. Len(list) /\ list[K[i]] \in S /\ J[i] = 1 /\ kept[i] = list[K[i]]
  <2> TAKE i \in 1 .. Len(kept)
  <2>1. K[i] \in 1 .. Len(list) /\ J[i] \in 1 .. Len(parts[K[i]]) /\ kept[i] = parts[K[i]][J[i]]
    BY <1>2, <1>6 DEF Addresses
  <2>2. parts[K[i]] = <<list[K[i]]>> /\ list[K[i]] \in S
    <3>1. parts[K[i]] = IF list[K[i]] \in S THEN <<list[K[i]]>> ELSE <<>>
      BY <1>3, <2>1
    <3> QED
      BY <2>1, <3>1
  <2> QED
    BY <2>1, <2>2
<1>8. \A k \in 1 .. Len(list) : list[k] \in S => \E i \in 1 .. Len(kept) : K[i] = k
  <2> SUFFICES ASSUME NEW k \in 1 .. Len(list), list[k] \in S
               PROVE  \E i \in 1 .. Len(kept) : K[i] = k
    OBVIOUS
  <2>1. parts[k] = <<list[k]>>
    BY <1>3
  <2>2. 1 \in 1 .. Len(parts[k]) /\ k \in 1 .. Len(parts)
    BY <1>2, <2>1
  <2> QED
    BY <1>6, <2>2, Zenon DEF Addresses
<1>9. \A h, i \in 1 .. Len(kept) : h < i => K[h] < K[i]
  <2> SUFFICES ASSUME NEW h \in 1 .. Len(kept), NEW i \in 1 .. Len(kept), h < i
               PROVE  K[h] < K[i]
    OBVIOUS
  <2>1. K[h] < K[i] \/ (K[h] = K[i] /\ J[h] < J[i])
    BY <1>6 DEF Addresses
  <2> QED
    BY <1>7, <2>1
<1>10. \A i \in 1 .. Len(kept) :
         K[i] \in 1 .. Len(list) /\ kept[i] = list[K[i]] /\ list[K[i]] \in S
  BY <1>7, Zenon
<1>11. Only(list, S) = kept
  BY <1>4 DEF kept
<1> QED
  BY <1>5, <1>8, <1>9, <1>10, <1>11, Zenon

-----------------------------------------------------------------------------
(* The view of a text.                                                     *)

\* What a line of a view shows of the i-th line of a text.
Shows(shown, line, i, hidden) ==
  /\ shown.level = line.level
  /\ shown.kind \in {"blank", line.kind}
  /\ <<i, 0>> \notin hidden => shown.kind = line.kind
  /\ Len(shown.words) = Len(line.words)
  /\ \A j \in 1 .. Len(line.words) : <<i, j>> \notin hidden => shown.words[j] = line.words[j]

\* Hiding takes from a line what is hidden, and leaves the rest as it was.
LEMMA HideLine ==
  ASSUME NEW numbers, NEW lines \in Seq(SpineLine(numbers)), NEW hidden,
         NEW i \in 1 .. Len(lines)
  PROVE  /\ Hide(lines, hidden)[i] \in SpineLine(numbers)
         /\ Shows(Hide(lines, hidden)[i], lines[i], i, hidden)
<1> DEFINE W == SpineWord(numbers)
           Kinds == {"text", "blank", "checkbox", "heading", "ac heading", "fence",
                     "indented code"}
           level == lines[i].level
           checked == lines[i].checked
           lost == lines[i].lost
           words == [j \in DOMAIN lines[i].words |->
                       IF <<i, j>> \in hidden THEN Space ELSE lines[i].words[j]]
           kind == IF <<i, 0>> \in hidden THEN "blank" ELSE lines[i].kind
           shown == Hide(lines, hidden)[i]
<1>1. lines[i] \in SpineLine(numbers) /\ i \in DOMAIN lines
  OBVIOUS
<1>2. Space \in W
  BY DEF Space, SpineWord
<1>3. /\ lines[i].words \in Seq(W) /\ lines[i].kind \in Kinds
      /\ level \in Nat /\ checked \in BOOLEAN /\ lost \in BOOLEAN
      /\ lines[i] = [kind |-> lines[i].kind, level |-> level, checked |-> checked,
                     words |-> lines[i].words, lost |-> lost]
  BY <1>1 DEF SpineLine
<1>4. /\ DOMAIN lines[i].words = 1 .. Len(lines[i].words) /\ Len(lines[i].words) \in Nat
      /\ \A j \in 1 .. Len(lines[i].words) : lines[i].words[j] \in W
  BY <1>3, SeqFacts, Zenon
<1>5. words \in Seq(W) /\ Len(words) = Len(lines[i].words)
  BY <1>2, <1>4
<1>6. \A j \in 1 .. Len(lines[i].words) : <<i, j>> \notin hidden => words[j] = lines[i].words[j]
  BY <1>4
<1>7. /\ kind \in Kinds /\ kind \in {"blank", lines[i].kind}
      /\ <<i, 0>> \notin hidden => kind = lines[i].kind
  BY <1>3
<1>8. shown = [lines[i] EXCEPT !.kind = kind, !.words = words]
  BY <1>1, Zenon DEF Hide
<1> HIDE DEF words, kind, shown
<1>9. shown = [kind |-> kind, level |-> level, checked |-> checked, words |-> words, lost |-> lost]
  BY <1>3, <1>8
<1> HIDE DEF level, checked, lost
<1>10. shown.level = level /\ shown.kind = kind /\ shown.words = words
  BY <1>9
<1>11. shown \in SpineLine(numbers)
  BY <1>3, <1>5, <1>7, <1>9 DEF SpineLine
<1>12. /\ Len(shown.words) = Len(lines[i].words)
       /\ \A j \in 1 .. Len(lines[i].words) :
            <<i, j>> \notin hidden => shown.words[j] = lines[i].words[j]
  BY <1>5, <1>6, <1>10, Zenon
<1>13. shown.kind \in {"blank", lines[i].kind} /\ (<<i, 0>> \notin hidden => shown.kind = lines[i].kind)
  BY <1>7, <1>10, Zenon
<1>14. shown.level = lines[i].level
  BY <1>10 DEF level
<1> QED
  BY <1>11, <1>12, <1>13, <1>14, Zenon DEF shown, Shows

\* Hiding leaves as many lines as there were.
LEMMA HideLines ==
  ASSUME NEW numbers, NEW lines \in Seq(SpineLine(numbers)), NEW hidden
  PROVE  Hide(lines, hidden) \in Seq(SpineLine(numbers)) /\ Len(Hide(lines, hidden)) = Len(lines)
<1> DEFINE view == Hide(lines, hidden)
<1>1. DOMAIN lines = 1 .. Len(lines) /\ Len(lines) \in Nat
  OBVIOUS
<1>2. DOMAIN view = 1 .. Len(lines) /\ view = [i \in 1 .. Len(lines) |-> view[i]]
  BY <1>1 DEF Hide
<1>3. \A i \in 1 .. Len(lines) : view[i] \in SpineLine(numbers)
  BY HideLine, Zenon
<1> HIDE DEF view
<1>4. view \in Seq(SpineLine(numbers)) /\ Len(view) = Len(lines)
  BY <1>1, <1>2, <1>3
<1> QED
  BY <1>4 DEF view

\* What a text says, its view says, except where it hides it.
Hidden(text) ==
  LET code == IF text.plain THEN {} ELSE CodePositions(text.lines)
      protected == IF text.plain THEN {} ELSE {i \in DOMAIN text.lines : text.lines[i].lost}
  IN code \cup stripUnprotectedHtmlComments(text.lines, code, protected)

\* The view hides just that.
LEMMA ViewFacts ==
  ASSUME NEW text
  PROVE  buildStructuralView(text) = Hide(text.lines, Hidden(text))
BY Zenon DEF buildStructuralView, Hidden

\* A list has x somewhere.
Has(list, x) == \E k \in 1 .. Len(list) : list[k] = x

\* The words of lines.
LEMMA WordsFacts ==
  ASSUME NEW numbers, NEW lines \in Seq(SpineLine(numbers))
  PROVE  /\ WordsOf(lines) \in Seq(SpineWord(numbers))
         /\ \A i \in 1 .. Len(lines) : \A j \in 1 .. Len(lines[i].words) :
              Has(WordsOf(lines), lines[i].words[j])
<1> DEFINE W == SpineWord(numbers)
           parts == [i \in DOMAIN lines |-> lines[i].words]
<1>1. DOMAIN lines = 1 .. Len(lines) /\ Len(lines) \in Nat
  OBVIOUS
<1>2. \A i \in 1 .. Len(lines) : lines[i].words \in Seq(W)
  <2>1. \A i \in 1 .. Len(lines) : lines[i] \in SpineLine(numbers)
    BY <1>1
  <2> QED
    BY <2>1 DEF SpineLine
<1>3. parts \in Seq(Seq(W)) /\ Len(parts) = Len(lines)
  BY <1>1, <1>2
<1>4. \A i \in 1 .. Len(lines) : parts[i] = lines[i].words
  BY <1>1
<1>5. WordsOf(lines) = FlattenSeq(parts)
  BY Zenon DEF WordsOf
<1> HIDE DEF parts
<1>6. FlattenSeq(parts) \in Seq(W)
  BY <1>3, FlattenFacts
<1>7. ASSUME NEW i \in 1 .. Len(lines), NEW j \in 1 .. Len(lines[i].words)
      PROVE  Has(WordsOf(lines), lines[i].words[j])
  <2>1. i \in 1 .. Len(parts) /\ j \in 1 .. Len(parts[i])
    BY <1>3, <1>4, Zenon
  <2>2. PICK m \in 1 .. Len(FlattenSeq(parts)) : FlattenSeq(parts)[m] = parts[i][j]
    BY <1>3, <2>1, FlattenMembers
  <2> QED
    BY <1>4, <1>5, <2>2, Zenon DEF Has
<1> QED
  BY <1>5, <1>6, <1>7, Zenon

-----------------------------------------------------------------------------
(* References.                                                             *)

\* A word that refers to an issue of this repository.
Ours(w) == w.sort = "ref" /\ w.repo \in {"", "this"} /\ w.number > 0

\* A reference to an issue, one of numbers.
Reference(numbers) == [issueNumber : numbers, kind : {"closing", "non-closing"}]

\* No two members of a list are of one issue.
OneEach(list) ==
  \A i, j \in 1 .. Len(list) : list[i].issueNumber = list[j].issueNumber => i = j

\* The references of words are of different issues, and no closing one is lost.
LEMMA ScanFacts ==
  ASSUME NEW numbers, numbers \subseteq Nat \ {0}, NEW words \in Seq(SpineWord(numbers))
  PROVE  LET references == scanIssueReferencesInto(words)
         IN /\ references \in Seq(Reference(numbers)) /\ OneEach(references)
            /\ \A k \in 1 .. Len(words) :
                 Ours(words[k]) /\ words[k].kind = "closing" =>
                   \E i \in 1 .. Len(references) :
                     references[i] = [issueNumber |-> words[k].number, kind |-> "closing"]
<1> DEFINE references == scanIssueReferencesInto(words)
           places == [k \in DOMAIN words |-> k]
           First(k) == /\ Ours(words[k])
                       /\ \A j \in 1 .. k - 1 :
                            Ours(words[j]) => words[j].number # words[k].number
           Closes(n) == \E k \in DOMAIN words :
                          Ours(words[k]) /\ words[k].number = n /\ words[k].kind = "closing"
           firsts == {k \in DOMAIN words : First(k)}
           found == Only(places, firsts)
           kind(n) == IF Closes(n) THEN "closing" ELSE "non-closing"
<1>1. DOMAIN words = 1 .. Len(words) /\ Len(words) \in Nat
  BY SeqFacts
<1>2. references = [i \in DOMAIN found |->
                      [issueNumber |-> words[found[i]].number, kind |-> kind(words[found[i]].number)]]
  BY Zenon DEF scanIssueReferencesInto, Ours
<1>3. places \in Seq(Nat) /\ Len(places) = Len(words) /\ \A k \in 1 .. Len(words) : places[k] = k
  BY <1>1
<1> HIDE DEF places, First, Closes
<1>4. found \in Seq(Nat)
  BY <1>3, OnlyFacts, Zenon
<1>5. PICK P : /\ \A i \in 1 .. Len(found) :
                    P[i] \in 1 .. Len(places) /\ found[i] = places[P[i]] /\ places[P[i]] \in firsts
               /\ \A k \in 1 .. Len(places) : places[k] \in firsts => \E i \in 1 .. Len(found) : P[i] = k
               /\ \A h, i \in 1 .. Len(found) : h < i => P[h] < P[i]
  BY <1>3, OnlyFacts, Zenon
<1> HIDE DEF found, firsts
<1>6. Len(found) \in Nat /\ DOMAIN found = 1 .. Len(found)
  BY <1>4, SeqFacts, Zenon
<1>7. \A i \in 1 .. Len(found) : found[i] = P[i] /\ found[i] \in 1 .. Len(words) /\ found[i] \in firsts
  BY <1>3, <1>5, Zenon
<1>8. \A k \in firsts : k \in 1 .. Len(words) /\ First(k)
  BY <1>1 DEF firsts
<1>9. \A k \in 1 .. Len(words) : First(k) => \E i \in 1 .. Len(found) : found[i] = k
  <2> SUFFICES ASSUME NEW k \in 1 .. Len(words), First(k)
               PROVE  \E i \in 1 .. Len(found) : found[i] = k
    OBVIOUS
  <2>1. places[k] \in firsts /\ k \in 1 .. Len(places)
    BY <1>1, <1>3, Zenon DEF firsts
  <2> QED
    BY <1>5, <1>7, <2>1, Zenon
<1>10. \A k \in 1 .. Len(words) : Ours(words[k]) => words[k].number \in numbers
  <2> TAKE k \in 1 .. Len(words)
  <2>1. words[k] \in SpineWord(numbers)
    BY SeqFacts, Zenon
  <2>2. words[k].number \in {0} \cup numbers
    BY <2>1 DEF SpineWord
  <2>3. Ours(words[k]) => words[k].number > 0
    BY Zenon DEF Ours
  <2> DEFINE n == words[k].number
  <2>4. n \in {0} \cup numbers /\ n > 0 => n \in numbers
    <3> HIDE DEF n
    <3> QED
      OBVIOUS
  <2> QED
    BY <2>2, <2>3, <2>4, Zenon
<1>11. \A i \in 1 .. Len(found) : words[found[i]].number \in numbers
  BY <1>7, <1>8, <1>10, Zenon DEF First
<1>12. \A n : kind(n) \in {"closing", "non-closing"}
  OBVIOUS
<1>13. references \in Seq(Reference(numbers)) /\ Len(references) = Len(found)
  <2>1. \A i \in 1 .. Len(found) :
          [issueNumber |-> words[found[i]].number, kind |-> kind(words[found[i]].number)]
            \in Reference(numbers)
    <3> HIDE DEF kind
    <3> TAKE i \in 1 .. Len(found)
    <3> DEFINE n == words[found[i]].number
               c == kind(n)
    <3>1. n \in numbers /\ c \in {"closing", "non-closing"}
      BY <1>11, <1>12, Zenon
    <3> HIDE DEF n, c
    <3>2. [issueNumber |-> n, kind |-> c] \in Reference(numbers)
      BY <3>1 DEF Reference
    <3> QED
      BY <3>2 DEF n, c
  <2> DEFINE one(i) == [issueNumber |-> words[found[i]].number, kind |-> kind(words[found[i]].number)]
  <2>2. references = [i \in 1 .. Len(found) |-> one(i)] /\ \A i \in 1 .. Len(found) : one(i) \in Reference(numbers)
    BY <1>2, <1>6, <2>1, Zenon
  <2> HIDE DEF one, references
  <2> QED
    BY <1>6, <2>2
<1>14. \A i \in 1 .. Len(found) :
         references[i] = [issueNumber |-> words[found[i]].number, kind |-> kind(words[found[i]].number)]
  <2> HIDE DEF kind
  <2> QED
    BY <1>2, <1>6, Zenon
<1> HIDE DEF references, kind
<1>15. \A i \in 1 .. Len(found) : references[i].issueNumber = words[found[i]].number
  <2> TAKE i \in 1 .. Len(found)
  <2> DEFINE n == words[found[i]].number
             c == kind(n)
  <2>1. references[i] = [issueNumber |-> n, kind |-> c]
    BY <1>14, Zenon
  <2> HIDE DEF n, c
  <2>2. references[i].issueNumber = n
    BY <2>1
  <2> QED
    BY <2>2 DEF n
<1>16. ASSUME NEW h \in 1 .. Len(found), NEW i \in 1 .. Len(found), h < i
       PROVE  words[found[h]].number # words[found[i]].number
  <2>1. found[h] \in 1 .. found[i] - 1
    <3>1. found[h] < found[i] /\ found[h] \in 1 .. Len(words) /\ found[i] \in 1 .. Len(words)
      BY <1>5, <1>7, <1>16
    <3> QED
      BY <1>1, <3>1
  <2>2. Ours(words[found[h]]) /\ First(found[i])
    BY <1>7, <1>8, Zenon DEF First
  <2> QED
    BY <2>1, <2>2, Zenon DEF First
<1>17. OneEach(references)
  <2> SUFFICES ASSUME NEW h \in 1 .. Len(found), NEW i \in 1 .. Len(found),
                      references[h].issueNumber = references[i].issueNumber
               PROVE  h = i
    BY <1>13, Zenon DEF OneEach
  <2>1. words[found[h]].number = words[found[i]].number
    BY <1>15
  <2>2. ~ (h < i) /\ ~ (i < h)
    BY <1>16, <2>1
  <2> QED
    BY <1>6, <2>2
<1>18. ASSUME NEW k \in 1 .. Len(words), Ours(words[k]), words[k].kind = "closing"
       PROVE  \E i \in 1 .. Len(references) :
                references[i] = [issueNumber |-> words[k].number, kind |-> "closing"]
  <2> DEFINE n == words[k].number
             T == {j \in 1 .. Len(words) : Ours(words[j]) /\ words[j].number = n}
  <2>1. k \in T /\ T \subseteq Nat
    BY <1>18
  <2>2. PICK first \in T : \A j \in T : first <= j
    <3> HIDE DEF T
    <3> QED
      BY <2>1, LeastPlace
  <2>3. first \in 1 .. Len(words) /\ Ours(words[first]) /\ words[first].number = n
    BY <2>2
  <2>4. First(first)
    <3> SUFFICES ASSUME NEW j \in 1 .. first - 1, Ours(words[j]), words[j].number = words[first].number
                 PROVE  FALSE
      BY <2>3, Zenon DEF First
    <3>1. j \in 1 .. Len(words) /\ ~ (first <= j)
      BY <1>1, <2>3
    <3>2. j \in T
      BY <2>3, <3>1
    <3> QED
      BY <2>2, <3>1, <3>2
  <2>5. PICK i \in 1 .. Len(found) : found[i] = first
    BY <1>9, <2>3, <2>4
  <2>6. kind(n) = "closing"
    BY <1>1, <1>18 DEF kind, Closes
  <2> QED
    BY <1>13, <1>14, <2>3, <2>5, <2>6, Zenon
<1> QED
  BY <1>13, <1>17, <1>18, Zenon DEF references

\* The words of all texts are among those that are looked through.
LEMMA AllWords ==
  ASSUME NEW numbers, NEW texts \in Seq(Seq(SpineLine(numbers)))
  PROVE  LET words == FlattenSeq([k \in DOMAIN texts |-> WordsOf(texts[k])])
         IN /\ words \in Seq(SpineWord(numbers))
            /\ \A k \in 1 .. Len(texts) : \A i \in 1 .. Len(texts[k]) :
                 \A j \in 1 .. Len(texts[k][i].words) :
                   Has(words, texts[k][i].words[j])
<1> DEFINE parts == [k \in DOMAIN texts |-> WordsOf(texts[k])]
           words == FlattenSeq(parts)
           W == SpineWord(numbers)
<1>1. /\ DOMAIN texts = 1 .. Len(texts) /\ Len(texts) \in Nat
      /\ \A k \in 1 .. Len(texts) : texts[k] \in Seq(SpineLine(numbers))
  BY SeqFacts, Zenon
<1>2. \A k \in 1 .. Len(texts) : WordsOf(texts[k]) \in Seq(W)
  BY <1>1, WordsFacts, Zenon
<1>3. parts \in Seq(Seq(W)) /\ Len(parts) = Len(texts)
  <2> HIDE DEF W
  <2> QED
    BY <1>1, <1>2
<1>4. \A k \in 1 .. Len(texts) : parts[k] = WordsOf(texts[k])
  BY <1>1, Zenon
<1> HIDE DEF parts
<1>5. words \in Seq(W)
  BY <1>3, FlattenFacts, Zenon
<1>7. ASSUME NEW k \in 1 .. Len(texts), NEW i \in 1 .. Len(texts[k]),
             NEW j \in 1 .. Len(texts[k][i].words)
      PROVE  Has(words, texts[k][i].words[j])
  <2>1. texts[k] \in Seq(SpineLine(numbers))
    BY <1>1, Zenon
  <2>2. PICK n \in 1 .. Len(WordsOf(texts[k])) : WordsOf(texts[k])[n] = texts[k][i].words[j]
    BY <2>1, WordsFacts, Zenon DEF Has
  <2>3. k \in 1 .. Len(parts) /\ n \in 1 .. Len(parts[k]) /\ parts[k] = WordsOf(texts[k])
    BY <1>3, <1>4, Zenon
  <2>4. PICK m \in 1 .. Len(words) : words[m] = parts[k][n]
    BY <1>3, <2>3, FlattenMembers, Zenon
  <2> QED
    BY <2>2, <2>3, <2>4, Zenon DEF Has
<1> QED
  BY <1>5, <1>7, Zenon DEF parts

\* If the word closes an issue, so does one of the references.
KeepsClosing(references, w) ==
  Ours(w) /\ w.kind = "closing" =>
    \E r \in 1 .. Len(references) :
      references[r] = [issueNumber |-> w.number, kind |-> "closing"]

\* The references of a pull request are of different issues, and no reference that closes
\* one is lost, except where the view of the body hides it.
LEMMA ReferencesFacts ==
  ASSUME NEW numbers, numbers \subseteq Nat \ {0}, NEW body \in SpineText(numbers),
         NEW sources \in Seq(Seq(SpineLine(numbers)))
  PROVE  LET references == parseLinkedIssueReferences(body, sources)
         IN /\ references \in Seq(Reference(numbers)) /\ OneEach(references)
            /\ \A i \in 1 .. Len(body.lines) : \A j \in 1 .. Len(body.lines[i].words) :
                 <<i, j>> \notin Hidden(body) => KeepsClosing(references, body.lines[i].words[j])
            /\ \A s \in 1 .. Len(sources) : \A i \in 1 .. Len(sources[s]) :
                 \A j \in 1 .. Len(sources[s][i].words) : KeepsClosing(references, sources[s][i].words[j])
<1> DEFINE references == parseLinkedIssueReferences(body, sources)
           Kept(w) == KeepsClosing(references, w)
           view == buildStructuralView(body)
           texts == <<view>> \o sources
           words == FlattenSeq([k \in DOMAIN texts |-> WordsOf(texts[k])])
           L == SpineLine(numbers)
<1>1. body.lines \in Seq(L)
  <2> HIDE DEF L
  <2> QED
    BY DEF SpineText, L
<1>2. /\ view \in Seq(L) /\ Len(view) = Len(body.lines)
      /\ \A i \in 1 .. Len(body.lines) :
           /\ Len(view[i].words) = Len(body.lines[i].words)
           /\ \A j \in 1 .. Len(body.lines[i].words) :
                <<i, j>> \notin Hidden(body) => view[i].words[j] = body.lines[i].words[j]
  <2> DEFINE lines == body.lines
             hidden == Hidden(body)
  <2>1. view = Hide(lines, hidden)
    BY ViewFacts, Zenon
  <2>2. lines \in Seq(SpineLine(numbers))
    BY <1>1
  <2> HIDE DEF lines, hidden, view
  <2>3. view \in Seq(L) /\ Len(view) = Len(lines)
    BY <2>1, <2>2, HideLines, Zenon
  <2>4. ASSUME NEW i \in 1 .. Len(lines)
        PROVE  /\ Len(view[i].words) = Len(lines[i].words)
               /\ \A j \in 1 .. Len(lines[i].words) :
                    <<i, j>> \notin hidden => view[i].words[j] = lines[i].words[j]
    <3>1. Shows(view[i], lines[i], i, hidden)
      BY <2>1, <2>2, HideLine, Zenon
    <3> QED
      BY <3>1, Zenon DEF Shows
  <2> QED
    BY <2>3, <2>4, Zenon DEF lines, hidden
<1>3. /\ texts \in Seq(Seq(L)) /\ Len(texts) = 1 + Len(sources) /\ Len(sources) \in Nat
      /\ texts[1] = view /\ \A s \in 1 .. Len(sources) : texts[s + 1] = sources[s]
  <2> HIDE DEF L, view
  <2>1. <<view>> \in Seq(Seq(L)) /\ sources \in Seq(Seq(L))
    BY <1>2 DEF L
  <2> QED
    BY <2>1
<1> HIDE DEF view, texts
<1>4. words \in Seq(SpineWord(numbers))
  BY <1>3, AllWords, Zenon
<1>5. references = scanIssueReferencesInto(words)
  BY Zenon DEF parseLinkedIssueReferences, texts, view
<1>6. \A k \in 1 .. Len(texts) : \A i \in 1 .. Len(texts[k]) :
        \A j \in 1 .. Len(texts[k][i].words) :
          Has(words, texts[k][i].words[j])
  BY <1>3, AllWords, Zenon
<1> HIDE DEF words, L
<1>7. /\ references \in Seq(Reference(numbers)) /\ OneEach(references)
      /\ \A m \in 1 .. Len(words) : Kept(words[m])
  <2>1. /\ references \in Seq(Reference(numbers)) /\ OneEach(references)
    BY <1>4, <1>5, ScanFacts
  <2>2. ASSUME NEW m \in 1 .. Len(words)
        PROVE  Kept(words[m])
    <3> HIDE DEF references
    <3> SUFFICES ASSUME Ours(words[m]), words[m].kind = "closing"
                 PROVE  \E r \in 1 .. Len(references) :
                          references[r] = [issueNumber |-> words[m].number, kind |-> "closing"]
      BY Zenon DEF KeepsClosing
    <3> QED
      BY <1>4, <1>5, ScanFacts
  <2> QED
    BY <2>1, <2>2, Zenon
<1> HIDE DEF Kept
<1>8. \A k \in 1 .. Len(texts) : \A i \in 1 .. Len(texts[k]) :
        \A j \in 1 .. Len(texts[k][i].words) : Kept(texts[k][i].words[j])
  <2> TAKE k \in 1 .. Len(texts)
  <2> TAKE i \in 1 .. Len(texts[k])
  <2> TAKE j \in 1 .. Len(texts[k][i].words)
  <2>1. PICK m \in 1 .. Len(words) : words[m] = texts[k][i].words[j]
    BY <1>6, Zenon DEF Has
  <2>2. Kept(words[m])
    BY <1>7, Zenon
  <2> QED
    BY <2>1, <2>2, Zenon
<1>9. ASSUME NEW i \in 1 .. Len(body.lines), NEW j \in 1 .. Len(body.lines[i].words),
             <<i, j>> \notin Hidden(body)
      PROVE  Kept(body.lines[i].words[j])
  <2>1. 1 \in 1 .. Len(texts)
    BY <1>3
  <2>2. i \in 1 .. Len(texts[1]) /\ j \in 1 .. Len(texts[1][i].words)
    BY <1>2, <1>3, Zenon
  <2>3. texts[1][i].words[j] = body.lines[i].words[j]
    BY <1>2, <1>3, <1>9, Zenon
  <2> QED
    BY <1>8, <2>1, <2>2, <2>3, Zenon
<1>10. ASSUME NEW s \in 1 .. Len(sources), NEW i \in 1 .. Len(sources[s]),
              NEW j \in 1 .. Len(sources[s][i].words)
       PROVE  Kept(sources[s][i].words[j])
  <2>1. s + 1 \in 1 .. Len(texts)
    BY <1>3
  <2>2. texts[s + 1] = sources[s]
    BY <1>3, Zenon
  <2> QED
    BY <1>8, <2>1, <2>2, Zenon
<1> QED
  BY <1>7, <1>9, <1>10, Zenon DEF Kept

-----------------------------------------------------------------------------
(* Code and comments: what is hidden, no reader sees.                      *)

\* The order of positions.
Earlier(q, r) == q[1] < r[1] \/ (q[1] = r[1] /\ q[2] < r[2])

\* The positions of a text, in their order.
LEMMA PositionsFacts ==
  ASSUME NEW numbers, NEW lines \in Seq(SpineLine(numbers))
  PROVE  /\ Len(Positions(lines)) \in Nat
         /\ DOMAIN Positions(lines) = 1 .. Len(Positions(lines))
         /\ \A m, n \in 1 .. Len(Positions(lines)) :
              m < n => Earlier(Positions(lines)[m], Positions(lines)[n])
         /\ \A m \in 1 .. Len(Positions(lines)) :
              Positions(lines)[m][1] \in 1 .. Len(lines) /\ Positions(lines)[m][2] \in Nat
         /\ \A m \in 1 .. Len(Positions(lines)) :
              \E i \in 1 .. Len(lines) : \E j \in 0 .. Len(lines[i].words) :
                Positions(lines)[m] = <<i, j>>
<1> DEFINE at == Positions(lines)
           row(i) == [j \in 1 .. Len(lines[i].words) + 1 |-> <<i, j - 1>>]
           rows == [i \in DOMAIN lines |-> row(i)]
           S == Nat \X Nat
<1>1. /\ DOMAIN lines = 1 .. Len(lines) /\ Len(lines) \in Nat
      /\ \A i \in 1 .. Len(lines) : lines[i] \in SpineLine(numbers)
  OBVIOUS
<1>2. ASSUME NEW i \in 1 .. Len(lines)
      PROVE  /\ row(i) \in Seq(S)
             /\ Len(row(i)) \in Nat /\ Len(lines[i].words) \in Nat
             /\ Len(row(i)) = Len(lines[i].words) + 1
             /\ \A j \in 1 .. Len(row(i)) : row(i)[j] = <<i, j - 1>>
  <2> DEFINE n == Len(lines[i].words)
  <2>1. n \in Nat /\ i \in Nat
    <3>1. lines[i].words \in Seq(SpineWord(numbers))
      BY <1>1 DEF SpineLine
    <3> QED
      BY <1>1, <3>1, SeqFacts
  <2> HIDE DEF n
  <2>2. /\ [j \in 1 .. n + 1 |-> <<i, j - 1>>] \in Seq(S)
        /\ Len([j \in 1 .. n + 1 |-> <<i, j - 1>>]) = n + 1
    BY <2>1
  <2> QED
    BY <2>1, <2>2 DEF n
<1> HIDE DEF row
<1>3. rows \in Seq(Seq(S)) /\ Len(rows) = Len(lines)
  <2> HIDE DEF S
  <2> QED
    BY <1>1, <1>2
<1>4. \A i \in 1 .. Len(lines) : rows[i] = row(i)
  BY <1>1
<1>5. at = FlattenSeq(rows)
  BY Zenon DEF Positions, row
<1> HIDE DEF rows, at
<1>6. at \in Seq(S)
  BY <1>3, <1>5, FlattenFacts, Zenon
<1>7. Len(at) \in Nat /\ DOMAIN at = 1 .. Len(at)
  BY <1>6, SeqFacts, Zenon
<1>8. PICK K, J : Addresses(rows, Len(rows), at, K, J)
  BY <1>3, <1>5, FlattenFacts, Zenon
<1>9. \A m \in 1 .. Len(at) : K[m] \in 1 .. Len(lines) /\ J[m] \in 1 .. Len(rows[K[m]])
                              /\ at[m] = rows[K[m]][J[m]]
  BY <1>3, <1>8, Zenon DEF Addresses
<1>10. ASSUME NEW m \in 1 .. Len(at)
       PROVE  /\ at[m] = <<K[m], J[m] - 1>> /\ K[m] \in Nat /\ J[m] \in Nat \ {0}
              /\ K[m] \in 1 .. Len(lines)
  <2> DEFINE i == K[m]
             j == J[m]
  <2>1. i \in 1 .. Len(lines) /\ j \in 1 .. Len(row(i)) /\ at[m] = row(i)[j]
    BY <1>4, <1>9, Zenon
  <2> HIDE DEF i, j
  <2>2. at[m] = <<i, j - 1>> /\ Len(row(i)) \in Nat
    BY <1>2, <2>1
  <2> QED
    BY <1>1, <2>1, <2>2 DEF i, j
<1>11. ASSUME NEW m \in 1 .. Len(at), NEW n \in 1 .. Len(at), m < n
       PROVE  Earlier(at[m], at[n])
  <2>1. K[m] < K[n] \/ (K[m] = K[n] /\ J[m] < J[n])
    BY <1>8, <1>11, Zenon DEF Addresses
  <2> QED
    BY <1>10, <2>1 DEF Earlier
<1>12. ASSUME NEW m \in 1 .. Len(at)
       PROVE  at[m][1] \in 1 .. Len(lines) /\ at[m][2] \in Nat
  BY <1>10
<1>13. ASSUME NEW m \in 1 .. Len(at)
       PROVE  \E i \in 1 .. Len(lines) : \E j \in 0 .. Len(lines[i].words) : at[m] = <<i, j>>
  <2> DEFINE i == K[m]
             j == J[m] - 1
             n == Len(lines[i].words)
  <2>1. i \in 1 .. Len(lines) /\ J[m] \in 1 .. Len(row(i)) /\ at[m] = <<i, j>>
    BY <1>4, <1>9, <1>10, Zenon
  <2>2. n \in Nat /\ Len(row(i)) = n + 1 /\ J[m] \in Nat
    BY <1>2, <1>10, <2>1, Zenon
  <2> HIDE DEF i, n
  <2>3. j \in 0 .. n
    BY <2>1, <2>2
  <2> QED
    BY <2>1, <2>3, Zenon DEF n
<1> QED
  BY <1>7, <1>11, <1>12, <1>13, Zenon DEF at

\* The k-th position is a mark outside code.
MarkOf(lines, code, k, sort) ==
  LET at == Positions(lines)
  IN at[k][2] > 0 /\ at[k] \notin code /\ lines[at[k][1]].words[at[k][2]].sort = sort

\* It opens a comment, which some later mark closes.
OpensAt(lines, code, k) ==
  /\ MarkOf(lines, code, k, "opens")
  /\ \E m \in k + 1 .. Len(Positions(lines)) : MarkOf(lines, code, m, "closes")

\* What a position is within, by what the one before it is within.
Follows(lines, code, protected, k, last) ==
  LET before == IF k = 1 \/ MarkOf(lines, code, k - 1, "closes") THEN "text" ELSE last
  IN IF before # "text" THEN before
     ELSE IF ~OpensAt(lines, code, k) THEN "text"
     ELSE IF Positions(lines)[k][1] \in protected THEN "kept" ELSE "comment"

\* The recursive function has a value everywhere, by that rule.
LEMMA WithinRule ==
  ASSUME NEW numbers, NEW lines \in Seq(SpineLine(numbers)), NEW code, NEW protected,
         NEW k \in 1 .. Len(Positions(lines))
  PROVE  Within(lines, code, protected)[k] =
           Follows(lines, code, protected, k, Within(lines, code, protected)[k - 1])
<1> DEFINE at == Positions(lines)
           N == Len(at)
           F(m, last) == Follows(lines, code, protected, m, last)
           Upto(n) == \E f : f = [m \in 1 .. n |-> F(m, f[m - 1])]
           T == {n \in 0 .. N : ~ Upto(n)}
           within == Within(lines, code, protected)
<1>1. N \in Nat /\ DOMAIN at = 1 .. N
  BY PositionsFacts, Zenon
<1>2. \A x, y : F(1, x) = F(1, y)
  BY Zenon DEF Follows
<1>3. within = CHOOSE f : f = [m \in 1 .. N |-> F(m, f[m - 1])]
  BY <1>1, Zenon DEF Within, Follows, OpensAt, MarkOf
<1> HIDE DEF F, N
<1>4. T = {}
  <2> SUFFICES ASSUME T # {} PROVE FALSE
    OBVIOUS
  <2>1. T \subseteq Nat
    <3> HIDE DEF Upto
    <3> QED
      BY <1>1
  <2> HIDE DEF T
  <2>2. PICK n \in T : \A m \in T : n <= m
    BY <2>1, LeastPlace
  <2>3. n \in 0 .. N /\ ~ Upto(n)
    BY <2>2 DEF T
  <2>4. n # 0
    <3>1. Upto(0)
      <4> WITNESS [m \in 1 .. 0 |-> 0]
      <4> QED
        OBVIOUS
    <3> QED
      BY <2>3, <3>1
  <2>5. Upto(n - 1)
    <3>1. n - 1 \in 0 .. N /\ n - 1 \notin T
      BY <1>1, <2>2, <2>3, <2>4
    <3> QED
      BY <3>1 DEF T
  <2>6. PICK f : f = [m \in 1 .. n - 1 |-> F(m, f[m - 1])]
    BY <2>5
  <2> DEFINE g == [m \in 1 .. n |-> IF m = n THEN F(n, f[n - 1]) ELSE f[m]]
  <2>7. ASSUME NEW m \in 1 .. n
        PROVE  g[m] = F(m, g[m - 1])
    <3>1. m # 1 => m - 1 \in 1 .. n /\ m - 1 # n
      BY <1>1, <2>3
    <3>2. m # 1 => g[m - 1] = f[m - 1]
      BY <3>1
    <3>3. F(m, g[m - 1]) = F(m, f[m - 1])
      BY <1>2, <3>2
    <3>4. m # n => f[m] = F(m, f[m - 1])
      <4>1. m # n => m \in 1 .. n - 1
        BY <1>1, <2>3
      <4> QED
        BY <2>6, <4>1
    <3> QED
      BY <3>3, <3>4
  <2>8. g = [m \in 1 .. n |-> F(m, g[m - 1])]
    BY <2>7
  <2> HIDE DEF g
  <2> QED
    BY <2>3, <2>8
<1>5. Upto(N)
  <2>1. N \in 0 .. N
    BY <1>1
  <2> QED
    BY <1>4, <2>1, Zenon
<1> HIDE DEF T, within
<1>6. within = [m \in 1 .. N |-> F(m, within[m - 1])]
  BY <1>3, <1>5, Zenon
<1>7. within[k] = F(k, within[k - 1])
  BY <1>6 DEF N
<1> QED
  BY <1>7 DEF F, within

\* What is hidden as a comment is between its marks.
LEMMA CommentFacts ==
  ASSUME NEW numbers, NEW lines \in Seq(SpineLine(numbers)), NEW code, NEW protected,
         NEW k \in 1 .. Len(Positions(lines)), Within(lines, code, protected)[k] = "comment"
  PROVE  /\ \E o \in 1 .. k : MarkOf(lines, code, o, "opens") /\ Positions(lines)[o][1] \notin protected
         /\ \E c \in k .. Len(Positions(lines)) : MarkOf(lines, code, c, "closes")
<1> DEFINE N == Len(Positions(lines))
           within == Within(lines, code, protected)
           Between(m) ==
             /\ \E o \in 1 .. m :
                  MarkOf(lines, code, o, "opens") /\ Positions(lines)[o][1] \notin protected
             /\ \E c \in m .. N : MarkOf(lines, code, c, "closes")
           T == {m \in 1 .. N : within[m] = "comment" /\ ~ Between(m)}
<1>1. N \in Nat
  BY PositionsFacts, Zenon
<1>2. T = {}
  <2> SUFFICES ASSUME T # {} PROVE FALSE
    OBVIOUS
  <2>1. T \subseteq Nat
    <3> HIDE DEF Between, within
    <3> QED
      BY <1>1
  <2> HIDE DEF T
  <2>2. PICK m \in T : \A n \in T : m <= n
    BY <2>1, LeastPlace
  <2>3. m \in 1 .. N /\ within[m] = "comment" /\ ~ Between(m)
    BY <2>2 DEF T
  <2>4. within[m] = Follows(lines, code, protected, m, within[m - 1])
    BY <2>3, WithinRule, Zenon
  <2> DEFINE before == IF m = 1 \/ MarkOf(lines, code, m - 1, "closes") THEN "text" ELSE within[m - 1]
  <2>5. within[m] = IF before # "text" THEN before
                    ELSE IF ~OpensAt(lines, code, m) THEN "text"
                    ELSE IF Positions(lines)[m][1] \in protected THEN "kept" ELSE "comment"
    BY <2>4, Zenon DEF Follows
  <2>6. CASE before = "text"
    <3>1. OpensAt(lines, code, m) /\ Positions(lines)[m][1] \notin protected
      BY <2>3, <2>5, <2>6
    <3>2. MarkOf(lines, code, m, "opens") /\ m \in 1 .. m
      BY <1>1, <2>3, <3>1 DEF OpensAt
    <3>3. PICK c \in m + 1 .. N : MarkOf(lines, code, c, "closes")
      BY <3>1, Zenon DEF OpensAt
    <3>4. c \in m .. N
      BY <1>1, <2>3
    <3> QED
      BY <2>3, <3>1, <3>2, <3>3, <3>4, Zenon
  <2>7. CASE before # "text"
    <3>1. m # 1 /\ ~ MarkOf(lines, code, m - 1, "closes") /\ within[m - 1] = "comment"
      BY <2>3, <2>5, <2>7
    <3>2. m - 1 \in 1 .. N /\ ~ (m <= m - 1)
      BY <1>1, <2>3, <3>1
    <3>3. Between(m - 1)
      <4>1. m - 1 \notin T
        BY <2>2, <3>2
      <4> QED
        BY <3>1, <3>2, <4>1, Zenon DEF T
    <3>4. PICK o \in 1 .. m - 1 :
            MarkOf(lines, code, o, "opens") /\ Positions(lines)[o][1] \notin protected
      BY <3>3
    <3>5. PICK c \in m - 1 .. N : MarkOf(lines, code, c, "closes")
      BY <3>3
    <3>6. o \in 1 .. m /\ c # m - 1
      BY <1>1, <2>3, <3>1, <3>5
    <3>7. c \in m .. N
      BY <1>1, <2>3, <3>6
    <3> QED
      BY <2>3, <3>4, <3>5, <3>6, <3>7, Zenon
  <2> QED
    BY <2>6, <2>7
<1>3. Between(k)
  BY <1>2
<1> QED
  BY <1>3

\* What a reader sees is in the view.
LEMMA OpenlyShown ==
  ASSUME NEW numbers, NEW text \in SpineText(numbers), NEW p, Openly(text, p)
  PROVE  p \notin Hidden(text)
<1> DEFINE lines == text.lines
           code == IF text.plain THEN {} ELSE CodePositions(lines)
           protected == IF text.plain THEN {} ELSE {i \in DOMAIN lines : lines[i].lost}
           at == Positions(lines)
           N == Len(at)
           Code(q) == ~text.plain /\ (q[1] \in CodeLines(lines)
                                        \/ (q[2] > 0 /\ lines[q[1]].words[q[2]].code))
           MarkAt(q, sort) == q[2] > 0 /\ lines[q[1]].words[q[2]].sort = sort
<1>1. lines \in Seq(SpineLine(numbers)) /\ text.plain \in BOOLEAN
  BY DEF SpineText
<1>2. /\ N \in Nat /\ DOMAIN at = 1 .. N
      /\ \A m, n \in 1 .. N : m < n => Earlier(at[m], at[n])
      /\ \A m \in 1 .. N : at[m][1] \in 1 .. Len(lines) /\ at[m][2] \in Nat
  BY <1>1, PositionsFacts, Zenon
<1>3. /\ ~ Code(p)
      /\ \A o, c \in ToSet(at) : ~ (/\ MarkAt(o, "opens") /\ ~ Code(o) /\ MarkAt(c, "closes")
                                    /\ ~ Earlier(p, o) /\ ~ Earlier(c, p))
  BY Zenon DEF Openly, Earlier
<1>4. p \notin code
  BY <1>3 DEF CodePositions
<1>5. ASSUME NEW k \in 1 .. N, Within(lines, code, protected)[k] = "comment", p = at[k]
      PROVE  FALSE
  <2> HIDE DEF lines, code, protected
  <2>1. PICK o \in 1 .. k : MarkOf(lines, code, o, "opens") /\ at[o][1] \notin protected
    BY <1>1, <1>5, CommentFacts, Zenon
  <2>2. PICK c \in k .. N : MarkOf(lines, code, c, "closes")
    BY <1>1, <1>5, CommentFacts, Zenon
  <2> HIDE DEF at, N
  <2>3. o \in 1 .. N /\ c \in 1 .. N
    BY <1>2
  <2>4. at[o] \in ToSet(at) /\ at[c] \in ToSet(at)
    BY <1>2, <2>3 DEF ToSet
  <2>5. MarkAt(at[o], "opens") /\ MarkAt(at[c], "closes") /\ at[o] \notin code
    BY <2>1, <2>2, Zenon DEF MarkOf, at
  <2>6. \A m, n \in 1 .. N : m <= n => ~ Earlier(at[n], at[m])
    <3> SUFFICES ASSUME NEW m \in 1 .. N, NEW n \in 1 .. N, m <= n, Earlier(at[n], at[m]) PROVE FALSE
      OBVIOUS
    <3>1. /\ at[m][1] \in Nat /\ at[m][2] \in Nat /\ at[n][1] \in Nat /\ at[n][2] \in Nat
      <4>1. at[m][1] \in 1 .. Len(lines) /\ at[n][1] \in 1 .. Len(lines)
        BY <1>2
      <4>2. Len(lines) \in Nat
        BY <1>1
      <4> QED
        BY <1>2, <4>1, <4>2
    <3>2. m < n \/ m = n
      BY <1>2
    <3>3. m = n \/ Earlier(at[m], at[n])
      BY <1>2, <3>2
    <3> QED
      BY <3>1, <3>3 DEF Earlier
  <2>7. ~ Earlier(at[k], at[o]) /\ ~ Earlier(at[c], at[k])
    <3>1. o <= k /\ k <= c
      BY <1>2
    <3> QED
      BY <2>3, <2>6, <3>1
  <2>8. ~ Code(at[o])
    <3>1. CASE text.plain
      BY <3>1
    <3>2. CASE ~ text.plain
      <4>1. code = CodePositions(lines) /\ protected = {i \in DOMAIN lines : lines[i].lost}
        BY <3>2 DEF code, protected, lines
      <4>2. at[o][1] \in DOMAIN lines
        BY <1>1, <1>2, <2>3
      <4>3. ~ lines[at[o][1]].lost
        BY <2>1, <4>1, <4>2
      <4> QED
        BY <2>4, <2>5, <4>1, <4>3, Zenon DEF CodePositions, at
    <3> QED
      BY <3>1, <3>2
  <2> HIDE DEF Code, MarkAt
  <2> QED
    BY <1>3, <1>5, <2>4, <2>5, <2>7, <2>8, Zenon
<1>6. Hidden(text) = code \cup {at[k] : k \in {m \in DOMAIN at : Within(lines, code, protected)[m] = "comment"}}
  BY Zenon DEF Hidden, stripUnprotectedHtmlComments
<1> HIDE DEF at, N, code, protected, lines
<1> QED
  BY <1>2, <1>4, <1>5, <1>6

-----------------------------------------------------------------------------
(* Criteria.                                                               *)

\* What a criterion says.
CriterionText == Seq(SpineWord(Nat))
\* A criterion of an issue.
Criterion == [text : CriterionText, checked : BOOLEAN]

\* A set of numbers has a least one.
LEMMA LeastFacts ==
  ASSUME NEW T, T \subseteq Nat, T # {}
  PROVE  Least(T) \in T /\ \A m \in T : Least(T) <= m
<1>1. \E n \in T : \A m \in T : n <= m
  BY LeastPlace
<1> QED
  BY <1>1, Zenon DEF Least

\* Where a member of a list is, if what is kept of the list keeps it.
LEMMA OnlyHas ==
  ASSUME NEW T, NEW list \in Seq(T), NEW S, NEW k \in 1 .. Len(list), list[k] \in S
  PROVE  Has(Only(list, S), list[k])
<1>1. PICK P : /\ \A i \in 1 .. Len(Only(list, S)) :
                    /\ P[i] \in 1 .. Len(list) /\ Only(list, S)[i] = list[P[i]] /\ list[P[i]] \in S
               /\ \A j \in 1 .. Len(list) :
                    list[j] \in S => \E i \in 1 .. Len(Only(list, S)) : P[i] = j
               /\ \A h, i \in 1 .. Len(Only(list, S)) : h < i => P[h] < P[i]
  BY OnlyFacts, Zenon
<1>2. PICK i \in 1 .. Len(Only(list, S)) : P[i] = k
  BY <1>1, Zenon
<1>3. Only(list, S)[i] = list[k]
  BY <1>1, <1>2, Zenon
<1> QED
  BY <1>3, Zenon DEF Has

\* What is kept of a list is of the list.
LEMMA OnlyOf ==
  ASSUME NEW T, NEW list \in Seq(T), NEW S
  PROVE  /\ Only(list, S) \in Seq(T) /\ Len(Only(list, S)) \in Nat
         /\ DOMAIN Only(list, S) = 1 .. Len(Only(list, S))
         /\ \A i \in 1 .. Len(Only(list, S)) :
              Only(list, S)[i] \in S /\ Only(list, S)[i] \in T /\ Has(list, Only(list, S)[i])
<1> DEFINE only == Only(list, S)
<1>1. only \in Seq(T)
  BY OnlyFacts, Zenon
<1>2. PICK P : \A i \in 1 .. Len(only) :
                 P[i] \in 1 .. Len(list) /\ only[i] = list[P[i]] /\ list[P[i]] \in S
  BY OnlyFacts, Zenon
<1> HIDE DEF only
<1>3. Len(only) \in Nat /\ DOMAIN only = 1 .. Len(only) /\ \A i \in 1 .. Len(only) : only[i] \in T
  BY <1>1, SeqFacts, Zenon
<1>4. \A i \in 1 .. Len(only) : only[i] \in S /\ Has(list, only[i])
  BY <1>2, Zenon DEF Has
<1> QED
  BY <1>1, <1>3, <1>4, Zenon DEF only

\* A line's text, if it is a criterion.
LEMMA TextFacts ==
  ASSUME NEW line \in SpineLine(Nat)
  PROVE  /\ line.words \in CriterionText /\ line.checked \in BOOLEAN
         /\ extractCheckboxLineText(line) # None =>
              extractCheckboxLineText(line) = line.words /\ line.words # <<>>
         /\ line.kind = "checkbox" /\ line.words # <<>> => extractCheckboxLineText(line) = line.words
         /\ line.words # None
<1>1. line.words \in CriterionText /\ line.checked \in BOOLEAN
  BY DEF SpineLine, CriterionText
<1>2. line.words # None
  BY <1>1, SpineAssumption DEF CriterionText
<1> QED
  BY <1>1, <1>2, Zenon DEF extractCheckboxLineText

\* The criteria between a heading and where its section ends.
LEMMA CriteriaAtFacts ==
  ASSUME NEW lines \in Seq(SpineLine(Nat)), NEW boxes \in Seq(Nat),
         \A k \in 1 .. Len(boxes) :
           boxes[k] \in 1 .. Len(lines) /\ extractCheckboxLineText(lines[boxes[k]]) # None
  PROVE  /\ CriteriaAt(lines, boxes) \in Seq(Criterion)
         /\ Len(CriteriaAt(lines, boxes)) = Len(boxes)
         /\ \A k \in 1 .. Len(boxes) :
              CriteriaAt(lines, boxes)[k] =
                [text |-> lines[boxes[k]].words, checked |-> lines[boxes[k]].checked]
         /\ \A k \in 1 .. Len(boxes) : CriteriaAt(lines, boxes)[k].text # <<>>
<1> DEFINE one(k) == [text |-> extractCheckboxLineText(lines[boxes[k]]),
                      checked |-> lines[boxes[k]].checked]
           criteria == CriteriaAt(lines, boxes)
<1>1. /\ DOMAIN boxes = 1 .. Len(boxes) /\ Len(boxes) \in Nat
      /\ \A i \in 1 .. Len(lines) : lines[i] \in SpineLine(Nat)
  OBVIOUS
<1>2. criteria = [k \in 1 .. Len(boxes) |-> one(k)]
  BY <1>1, Zenon DEF CriteriaAt
<1>3. ASSUME NEW k \in 1 .. Len(boxes)
      PROVE  /\ one(k) \in Criterion /\ one(k).text # <<>>
             /\ one(k) = [text |-> lines[boxes[k]].words, checked |-> lines[boxes[k]].checked]
  <2> DEFINE line == lines[boxes[k]]
             text == extractCheckboxLineText(line)
             words == line.words
             checked == line.checked
  <2>1. line \in SpineLine(Nat) /\ text # None
    BY <1>1, Zenon
  <2>2. text = words /\ words \in CriterionText /\ checked \in BOOLEAN /\ words # <<>>
    <3> HIDE DEF line
    <3> QED
      BY <2>1, TextFacts, Zenon
  <2>3. one(k) = [text |-> text, checked |-> checked]
    BY Zenon
  <2> HIDE DEF text, words, checked, one
  <2>4. one(k) \in Criterion /\ one(k).text # <<>> /\ one(k) = [text |-> words, checked |-> checked]
    BY <2>2, <2>3 DEF Criterion
  <2> QED
    BY <2>4 DEF words, checked
<1> HIDE DEF one, criteria
<1>4. criteria \in Seq(Criterion) /\ Len(criteria) = Len(boxes)
  <2>1. \A k \in 1 .. Len(boxes) : one(k) \in Criterion
    BY <1>3, Zenon
  <2>2. Len(boxes) \in Nat
    BY <1>1
  <2> QED
    BY <1>2, <2>1, <2>2
<1>5. \A k \in 1 .. Len(boxes) : criteria[k] = one(k)
  BY <1>2
<1> QED
  BY <1>3, <1>4, <1>5, Zenon DEF criteria

\* The criteria of an issue are texts, and what the issue owes is among those that are unmet.
LEMMA CriteriaFacts ==
  ASSUME NEW body \in SpineText(Nat)
  PROVE  /\ parseAcceptanceCriteria(body) \in Seq(Criterion)
         /\ \A k \in 1 .. Len(parseAcceptanceCriteria(body)) :
              parseAcceptanceCriteria(body)[k].text # <<>>
         /\ \A i \in Owed(body) :
              Has(parseAcceptanceCriteria(body), [text |-> body.lines[i].words, checked |-> FALSE])
<1> DEFINE lines == body.lines
           hidden == Hidden(body)
           view == buildStructuralView(body)
           N == Len(lines)
           heads == {i \in DOMAIN view : view[i].kind = "ac heading"}
           first == Least(heads)
           Stops(i) == view[i].kind \in {"heading", "ac heading"} /\ view[i].level <= view[first].level
           ends == {i \in first + 1 .. Len(view) : Stops(i)} \cup {Len(view) + 1}
           last == Least(ends) - 1
           range == [k \in 1 .. last - first |-> first + k]
           askable == {i \in DOMAIN view : /\ view[i].kind = "checkbox"
                                           /\ extractCheckboxLineText(lines[i]) # None}
           boxes == Only(range, askable)
           criteria == parseAcceptanceCriteria(body)
<1>1. /\ lines \in Seq(SpineLine(Nat)) /\ DOMAIN lines = 1 .. N /\ N \in Nat
      /\ \A i \in 1 .. N : lines[i] \in SpineLine(Nat)
  <2>1. lines \in Seq(SpineLine(Nat))
    BY DEF SpineText
  <2> HIDE DEF lines
  <2> QED
    BY <2>1, SeqFacts, Zenon
<1>2. /\ heads = {} => criteria = <<>>
      /\ heads # {} => criteria = CriteriaAt(lines, boxes)
  BY Zenon DEF parseAcceptanceCriteria, CriteriaOf
<1>3. view = Hide(lines, hidden)
  BY ViewFacts, Zenon
<1>4. /\ view \in Seq(SpineLine(Nat)) /\ Len(view) = N /\ DOMAIN view = 1 .. N
      /\ \A i \in 1 .. N : Shows(view[i], lines[i], i, hidden)
  <2> HIDE DEF view, lines, hidden, N
  <2>1. view \in Seq(SpineLine(Nat)) /\ Len(view) = N
    BY <1>1, <1>3, HideLines, Zenon DEF N
  <2>2. DOMAIN view = 1 .. N
    BY <2>1, SeqFacts, Zenon
  <2>3. \A i \in 1 .. N : Shows(view[i], lines[i], i, hidden)
    BY <1>1, <1>3, HideLine, Zenon DEF N
  <2> QED
    BY <2>1, <2>2, <2>3
<1>40. DOMAIN view = 1 .. N /\ N \in Nat
  BY <1>1, <1>4, Zenon
<1>41. Len(view) = N /\ N \in Nat
  BY <1>1, <1>4, Zenon
<1>5. \A i \in 1 .. N : lines[i].level \in Nat /\ view[i].level = lines[i].level
  <2>1. \A i \in 1 .. N : lines[i].level \in Nat
    BY <1>1 DEF SpineLine
  <2> HIDE DEF view, lines, hidden, N
  <2>2. \A i \in 1 .. N : view[i].level = lines[i].level
    BY <1>4, Zenon DEF Shows
  <2> QED
    BY <2>1, <2>2
<1>6. ASSUME NEW p, p \in (1 .. N) \X {0}, Openly(body, p)
      PROVE  view[p[1]].kind = lines[p[1]].kind
  <2>1. p = <<p[1], 0>> /\ p[1] \in 1 .. N
    BY <1>6
  <2>2. <<p[1], 0>> \notin hidden
    BY <1>6, <2>1, OpenlyShown, Zenon
  <2> HIDE DEF view, lines, hidden, N
  <2> QED
    BY <1>4, <2>1, <2>2, Zenon DEF Shows
<1>7. \A i \in 1 .. N : view[i].kind \in {"blank", lines[i].kind}
  <2> HIDE DEF view, lines, hidden, N
  <2> QED
    BY <1>4, Zenon DEF Shows
<1> HIDE DEF view, lines, hidden, N, criteria
<1>42. /\ heads \subseteq 1 .. N
       /\ \A i \in 1 .. N : i \in heads <=> view[i].kind = "ac heading"
  BY <1>40, Zenon
<1>43. /\ \A i \in ends : (i \in first + 1 .. N /\ Stops(i)) \/ i = N + 1
       /\ N + 1 \in ends
  BY <1>41, Zenon
<1>44. \A i \in askable : i \in 1 .. N /\ extractCheckboxLineText(lines[i]) # None
  BY <1>40, Zenon
<1>45. \A i \in 1 .. N : view[i].kind = "checkbox" /\ extractCheckboxLineText(lines[i]) # None
                          => i \in askable
  BY <1>40, Zenon
<1>46. first = Least(heads) /\ last = Least(ends) - 1
  OBVIOUS
<1>47. \A i : Stops(i) => /\ view[i].kind \in {"heading", "ac heading"}
                         /\ view[i].level <= view[first].level
  BY Zenon
<1> HIDE DEF heads, Stops, ends, askable, first, last
<1>8. ASSUME heads # {}
      PROVE  /\ first \in heads /\ \A i \in heads : first <= i
             /\ first \in 1 .. N /\ last \in first .. N /\ last + 1 \in ends
             /\ range \in Seq(Nat) /\ Len(range) = last - first
             /\ \A k \in 1 .. last - first : range[k] = first + k
  <2>1. heads \subseteq 1 .. N /\ heads \subseteq Nat
    <3>1. heads \subseteq 1 .. N
      BY <1>42, Zenon
    <3> QED
      BY <1>41, <3>1
  <2>2. first \in heads /\ \A i \in heads : first <= i
    BY <1>8, <1>46, <2>1, LeastFacts, Zenon
  <2>3. first \in 1 .. N
    BY <2>1, <2>2
  <2>4. ends \subseteq first + 1 .. N + 1 /\ ends \subseteq Nat /\ N + 1 \in ends
    <3>1. \A i \in ends : i \in first + 1 .. N \/ i = N + 1
      BY <1>43, Zenon
    <3> QED
      BY <1>41, <1>43, <2>3, <3>1
  <2> DEFINE least == Least(ends)
  <2>5. least \in ends
    <3> HIDE DEF ends
    <3> QED
      BY <2>4, LeastFacts
  <2> HIDE DEF least
  <2>6. last = least - 1 /\ least \in first + 1 .. N + 1
    BY <1>46, <2>4, <2>5 DEF least
  <2>7. last \in first .. N /\ last + 1 = least /\ last - first \in Nat
    BY <1>41, <2>3, <2>6
  <2>8. range \in Seq(Nat) /\ Len(range) = last - first /\ \A k \in 1 .. last - first : range[k] = first + k
    BY <1>41, <2>3, <2>7
  <2> QED
    BY <2>2, <2>3, <2>5, <2>7, <2>8
<1>9. ASSUME heads # {}
      PROVE  /\ boxes \in Seq(Nat)
             /\ \A k \in 1 .. Len(boxes) :
                  boxes[k] \in 1 .. Len(lines) /\ extractCheckboxLineText(lines[boxes[k]]) # None
  <2>1. range \in Seq(Nat)
    BY <1>8, <1>9
  <2> HIDE DEF range
  <2>2. boxes \in Seq(Nat) /\ \A k \in 1 .. Len(boxes) : boxes[k] \in askable
    BY <2>1, OnlyOf, Zenon
  <2> HIDE DEF boxes
  <2> QED
    BY <1>44, <2>2, Zenon DEF N
<1>10. criteria \in Seq(Criterion) /\ \A k \in 1 .. Len(criteria) : criteria[k].text # <<>>
  <2>1. CASE heads = {}
    <3>1. criteria = <<>>
      BY <1>2, <2>1, Zenon DEF heads
    <3> QED
      BY <3>1
  <2>2. CASE heads # {}
    <3> HIDE DEF boxes
    <3>1. CriteriaAt(lines, boxes) \in Seq(Criterion) /\ Len(CriteriaAt(lines, boxes)) = Len(boxes)
          /\ \A k \in 1 .. Len(boxes) : CriteriaAt(lines, boxes)[k].text # <<>>
      BY <1>1, <1>9, <2>2, CriteriaAtFacts
    <3>2. criteria = CriteriaAt(lines, boxes)
      BY <1>2, <2>2, Zenon
    <3> QED
      BY <3>1, <3>2, Zenon
  <2> QED
    BY <2>1, <2>2
<1>11. ASSUME NEW i \in Owed(body)
       PROVE  Has(criteria, [text |-> lines[i].words, checked |-> FALSE])
  <2>1. /\ i \in 1 .. N /\ lines[i].kind = "checkbox" /\ ~ lines[i].checked /\ lines[i].words # <<>>
        /\ Openly(body, <<i, 0>>)
    BY <1>1, Zenon DEF Owed, lines
  <2>2. PICK h \in 1 .. N :
          /\ h < i /\ lines[h].kind = "ac heading" /\ Openly(body, <<h, 0>>)
          /\ \A g \in 1 .. h - 1 : lines[g].kind # "ac heading"
          /\ \A g \in h + 1 .. i - 1 :
               lines[g].kind \in {"heading", "ac heading"} => lines[g].level > lines[h].level
    BY <1>1, Zenon DEF Owed, lines
  <2>0. i \in 1 .. N /\ h \in 1 .. N /\ h < i /\ N \in Nat
    BY <1>40, <2>1, <2>2, Zenon
  <2>3. view[i].kind = "checkbox"
    <3> DEFINE p == <<i, 0>>
    <3>1. p \in (1 .. N) \X {0} /\ p[1] = i /\ Openly(body, p)
      BY <2>1
    <3> HIDE DEF p
    <3> QED
      BY <1>6, <2>1, <3>1
  <2>4. view[h].kind = "ac heading"
    <3> DEFINE p == <<h, 0>>
    <3>1. p \in (1 .. N) \X {0} /\ p[1] = h /\ Openly(body, p)
      BY <2>2
    <3> HIDE DEF p
    <3> QED
      BY <1>6, <2>2, <3>1
  <2>5. h \in heads /\ heads # {}
    BY <1>42, <2>4, Zenon
  <2>6. first = h
    <3>1. /\ first \in heads /\ first <= h /\ first \in 1 .. N
      BY <1>8, <2>5
    <3>2. view[first].kind = "ac heading"
      BY <1>42, <3>1, Zenon
    <3>3. lines[first].kind = "ac heading"
      BY <1>7, <3>1, <3>2
    <3>4. first \notin 1 .. h - 1
      BY <2>2, <3>3
    <3> QED
      BY <2>0, <3>1, <3>4
  <2>7. i <= last
    <3> SUFFICES ASSUME ~ (i <= last) PROVE FALSE
      OBVIOUS
    <3>1. last \in first .. N /\ last + 1 \in ends
      BY <1>8, <2>5
    <3>2. last + 1 \in h + 1 .. i /\ last + 1 \in 1 .. N
      <4>1. last \in h .. N
        BY <2>6, <3>1
      <4> QED
        BY <2>0, <4>1
    <3> DEFINE e == last + 1
    <3>3. e \in h + 1 .. i /\ e \in 1 .. N /\ e \in ends
      BY <3>1, <3>2
    <3> HIDE DEF e
    <3>4. view[e].kind \in {"heading", "ac heading"} /\ view[e].level <= view[h].level
      <4>1. e # N + 1
        BY <2>0, <3>3
      <4> QED
        BY <1>43, <1>47, <2>6, <3>3, <4>1, Zenon
    <3>5. e # i
      BY <2>3, <3>4
    <3>6. e \in h + 1 .. i - 1
      BY <2>0, <3>3, <3>5
    <3>7. lines[e].kind \in {"heading", "ac heading"}
      BY <1>7, <3>3, <3>4
    <3>8. lines[e].level > lines[h].level
      BY <2>2, <3>6, <3>7
    <3>9. /\ lines[e].level \in Nat /\ lines[h].level \in Nat
          /\ lines[e].level <= lines[h].level
      <4>1. view[e].level = lines[e].level /\ view[h].level = lines[h].level
        BY <1>5, <2>0, <3>3, Zenon
      <4>2. lines[e].level \in Nat /\ lines[h].level \in Nat
        BY <1>5, <2>0, <3>3, Zenon
      <4> QED
        BY <3>4, <4>1, <4>2, Zenon
    <3> QED
      BY <3>8, <3>9
  <2>8. i \in askable
    <3>1. lines[i] \in SpineLine(Nat)
      BY <1>1, <2>1
    <3>2. extractCheckboxLineText(lines[i]) # None
      BY <2>1, <3>1, TextFacts, Zenon
    <3> QED
      BY <1>45, <2>1, <2>3, <3>2, Zenon
  <2>9. PICK k \in 1 .. Len(range) : range[k] = i
    <3>1. /\ first \in 1 .. N /\ last \in first .. N /\ Len(range) = last - first
          /\ \A k \in 1 .. last - first : range[k] = first + k
      BY <1>8, <2>5
    <3> HIDE DEF range
    <3>2. i - first \in 1 .. last - first /\ first + (i - first) = i
      BY <2>0, <2>6, <2>7, <3>1
    <3> QED
      BY <3>1, <3>2
  <2>10. range \in Seq(Nat)
    BY <1>8, <2>5
  <2>11. Has(boxes, i)
    <3> HIDE DEF range
    <3> QED
      BY <2>8, <2>9, <2>10, OnlyHas, Zenon
  <2>12. PICK m \in 1 .. Len(boxes) : boxes[m] = i
    BY <2>11, Zenon DEF Has
  <2>13. /\ Len(CriteriaAt(lines, boxes)) = Len(boxes)
         /\ CriteriaAt(lines, boxes)[m] =
              [text |-> lines[boxes[m]].words, checked |-> lines[boxes[m]].checked]
    <3> HIDE DEF boxes
    <3> QED
      BY <1>1, <1>9, <2>5, <2>12, CriteriaAtFacts
  <2>14. criteria = CriteriaAt(lines, boxes)
    BY <1>2, <2>5, Zenon
  <2> HIDE DEF boxes
  <2>15. lines[i].checked = FALSE
    <3>1. lines[i].checked \in BOOLEAN
      BY <1>1, <2>1, TextFacts, Zenon
    <3> QED
      BY <2>1, <3>1
  <2>16. criteria[m] = [text |-> lines[i].words, checked |-> FALSE] /\ m \in 1 .. Len(criteria)
    BY <2>12, <2>13, <2>14, <2>15, Zenon
  <2> QED
    BY <2>16, Zenon DEF Has
<1> QED
  BY <1>10, <1>11, Zenon DEF criteria, lines

\* What an issue owes is among its unmet criteria.
LEMMA UnmetFacts ==
  ASSUME NEW body \in SpineText(Nat)
  PROVE  /\ Unmet(body) \in Seq(CriterionText)
         /\ \A i \in Owed(body) : Has(Unmet(body), body.lines[i].words)
<1> DEFINE criteria == parseAcceptanceCriteria(body)
           open == {c \in ToSet(criteria) : ~c.checked}
           left == Only(criteria, open)
<1>1. criteria \in Seq(Criterion)
  BY CriteriaFacts, Zenon
<1>2. Unmet(body) = [k \in DOMAIN left |-> left[k].text]
  BY Zenon DEF Unmet, TextsOf
<1> HIDE DEF criteria
<1>3. /\ left \in Seq(Criterion) /\ Len(left) \in Nat /\ DOMAIN left = 1 .. Len(left)
      /\ \A k \in 1 .. Len(left) : left[k] \in Criterion
  <2> HIDE DEF open
  <2> QED
    BY <1>1, OnlyOf, Zenon
<1> HIDE DEF left
<1>4. \A k \in 1 .. Len(left) : left[k].text \in CriterionText
  BY <1>3 DEF Criterion
<1>5. Unmet(body) \in Seq(CriterionText) /\ Len(Unmet(body)) = Len(left)
  <2> HIDE DEF open
  <2> QED
    BY <1>2, <1>3, <1>4
<1>6. \A k \in 1 .. Len(left) : Unmet(body)[k] = left[k].text
  BY <1>2, <1>3, Zenon
<1>7. ASSUME NEW i \in Owed(body)
      PROVE  Has(Unmet(body), body.lines[i].words)
  <2> DEFINE words == body.lines[i].words
             c == [text |-> words, checked |-> FALSE]
  <2>1. PICK m \in 1 .. Len(criteria) : criteria[m] = c
    BY CriteriaFacts, Zenon DEF Has, criteria
  <2>2. c.checked = FALSE /\ c.text = words
    <3> HIDE DEF words
    <3> QED
      OBVIOUS
  <2> HIDE DEF words, c
  <2>3. criteria[m] \in ToSet(criteria)
    BY <1>1, SeqFacts, Zenon DEF ToSet
  <2>4. criteria[m] \in open
    BY <2>1, <2>2, <2>3
  <2>5. Has(left, criteria[m])
    <3> HIDE DEF open
    <3> QED
      BY <1>1, <2>4, OnlyHas, Zenon DEF left
  <2>6. PICK k \in 1 .. Len(left) : left[k] = criteria[m]
    BY <2>5, Zenon DEF Has
  <2>7. Unmet(body)[k] = words /\ k \in 1 .. Len(Unmet(body))
    BY <1>5, <1>6, <2>1, <2>2, <2>6, Zenon
  <2> QED
    BY <2>7, Zenon DEF Has, words
<1> QED
  BY <1>5, <1>7, Zenon

-----------------------------------------------------------------------------
(* The issues that are looked up, and their specs.                         *)

\* What is kept of a list with one member of each issue has one of each.
LEMMA OnlyOneEach ==
  ASSUME NEW T, NEW list \in Seq(T), OneEach(list), NEW S
  PROVE  OneEach(Only(list, S))
<1> DEFINE only == Only(list, S)
<1>1. PICK P : /\ \A i \in 1 .. Len(only) :
                    P[i] \in 1 .. Len(list) /\ only[i] = list[P[i]] /\ list[P[i]] \in S
               /\ \A k \in 1 .. Len(list) : list[k] \in S => \E i \in 1 .. Len(only) : P[i] = k
               /\ \A h, i \in 1 .. Len(only) : h < i => P[h] < P[i]
  BY OnlyFacts, Zenon
<1>2. Len(only) \in Nat /\ Len(list) \in Nat
  BY OnlyOf, SeqFacts, Zenon
<1> HIDE DEF only
<1>3. ASSUME NEW h \in 1 .. Len(only), NEW i \in 1 .. Len(only),
             only[h].issueNumber = only[i].issueNumber
      PROVE  h = i
  <2>1. P[h] = P[i]
    <3>1. /\ P[h] \in 1 .. Len(list) /\ P[i] \in 1 .. Len(list)
          /\ list[P[h]].issueNumber = list[P[i]].issueNumber
      BY <1>1, <1>3, Zenon
    <3> QED
      BY <3>1, Zenon DEF OneEach
  <2>2. /\ h < i => P[h] < P[i]
        /\ i < h => P[i] < P[h]
        /\ P[h] \in Nat
    BY <1>1, <1>2
  <2> QED
    BY <1>2, <2>1, <2>2
<1> QED
  BY <1>3, Zenon DEF OneEach, only

\* The references that are looked up are the first ones, all or as many as allowed.
LEMMA AskedFacts ==
  ASSUME NEW T, NEW references \in Seq(T)
  PROVE  /\ selectIssuesToFetch(references) \in Seq(T)
         /\ Len(references) \in Nat /\ Len(selectIssuesToFetch(references)) \in Nat
         /\ Len(selectIssuesToFetch(references)) <= Len(references)
         /\ Len(references) <= MAX_LINKED_ISSUES =>
              Len(selectIssuesToFetch(references)) = Len(references)
         /\ \A i \in 1 .. Len(selectIssuesToFetch(references)) :
              selectIssuesToFetch(references)[i] = references[i]
<1> DEFINE n == Len(references)
           m == IF n < MAX_LINKED_ISSUES THEN n ELSE MAX_LINKED_ISSUES
           asked == selectIssuesToFetch(references)
<1>1. n \in Nat /\ \A i \in 1 .. n : references[i] \in T
  BY SeqFacts, Zenon
<1>2. m \in 0 .. n /\ (n <= MAX_LINKED_ISSUES => m = n) /\ m \in Nat
  BY <1>1, SpineAssumption
<1>3. asked = SubSeq(references, 1, m)
  BY DEF selectIssuesToFetch
<1> HIDE DEF m, asked
<1>4. asked \in Seq(T) /\ Len(asked) = m /\ \A i \in 1 .. m : asked[i] = references[i]
  BY <1>1, <1>2, <1>3
<1> QED
  BY <1>1, <1>2, <1>4 DEF asked

\* They are of different issues, as all references are.
LEMMA AskedOneEach ==
  ASSUME NEW T, NEW references \in Seq(T), OneEach(references)
  PROVE  OneEach(selectIssuesToFetch(references))
<1> DEFINE asked == selectIssuesToFetch(references)
<1>1. /\ Len(asked) <= Len(references) /\ Len(references) \in Nat /\ Len(asked) \in Nat
      /\ \A i \in 1 .. Len(asked) : asked[i] = references[i]
  BY AskedFacts, Zenon
<1> HIDE DEF asked
<1>2. \A i \in 1 .. Len(asked) : i \in 1 .. Len(references)
  BY <1>1
<1>3. ASSUME NEW h \in 1 .. Len(asked), NEW i \in 1 .. Len(asked),
             asked[h].issueNumber = asked[i].issueNumber
      PROVE  h = i
  <2>1. references[h].issueNumber = references[i].issueNumber
    BY <1>1, <1>3, Zenon
  <2> QED
    BY <1>2, <2>1, Zenon DEF OneEach
<1> QED
  BY <1>3, Zenon DEF OneEach, asked

\* What the lookup answers of issues.
Bodies(numbers) == [numbers -> SpineText(Nat) \cup {None}]

\* The issues that are found, each asked for.
LEMMA FetchedFacts ==
  ASSUME NEW numbers, NEW issues \in Bodies(numbers),
         NEW references \in Seq(Reference(numbers)), OneEach(references)
  PROVE  LET asked == selectIssuesToFetch(references)
             fetched == Fetched(references, issues)
         IN /\ fetched \in Seq(Reference(numbers)) /\ OneEach(fetched)
            /\ \A i \in 1 .. Len(fetched) :
                 Has(asked, fetched[i]) /\ issues[fetched[i].issueNumber] \in SpineText(Nat)
            /\ \A i \in 1 .. Len(asked) :
                 issues[asked[i].issueNumber] # None => Has(fetched, asked[i])
<1> DEFINE asked == selectIssuesToFetch(references)
           there == {r \in ToSet(asked) : issues[r.issueNumber] # None}
           fetched == Fetched(references, issues)
<1>1. asked \in Seq(Reference(numbers)) /\ OneEach(asked)
  BY AskedFacts, AskedOneEach, Zenon
<1>2. fetched = Only(asked, there)
  BY Zenon DEF Fetched
<1> HIDE DEF asked, fetched
<1>3. fetched \in Seq(Reference(numbers)) /\ OneEach(fetched)
  <2> HIDE DEF there
  <2> QED
    BY <1>1, <1>2, OnlyOf, OnlyOneEach, Zenon
<1>4. ASSUME NEW i \in 1 .. Len(fetched)
      PROVE  Has(asked, fetched[i]) /\ issues[fetched[i].issueNumber] \in SpineText(Nat)
  <2>1. /\ fetched[i] \in there /\ fetched[i] \in Reference(numbers) /\ Has(asked, fetched[i])
    <3> HIDE DEF there
    <3> QED
      BY <1>1, <1>2, OnlyOf, Zenon
  <2> DEFINE n == fetched[i].issueNumber
  <2>2. n \in numbers /\ issues[n] # None
    <3>1. n \in numbers
      BY <2>1 DEF Reference
    <3> QED
      BY <2>1, <3>1, Zenon
  <2> HIDE DEF n
  <2>3. issues[n] \in SpineText(Nat) \cup {None}
    BY <2>2 DEF Bodies
  <2>4. issues[n] \in SpineText(Nat)
    BY <2>2, <2>3
  <2> QED
    BY <2>1, <2>4 DEF n
<1>5. ASSUME NEW i \in 1 .. Len(asked), issues[asked[i].issueNumber] # None
      PROVE  Has(fetched, asked[i])
  <2>1. asked[i] \in ToSet(asked)
    BY <1>1, SeqFacts, Zenon DEF ToSet
  <2>2. asked[i] \in there
    BY <1>5, <2>1, Zenon
  <2> HIDE DEF there
  <2> QED
    BY <1>1, <1>2, <2>2, OnlyHas, Zenon
<1> QED
  BY <1>3, <1>4, <1>5, Zenon DEF asked, fetched

\* What is shown of an issue, and how much more there is.
LinkedIssueSpec(numbers) ==
  [issueNumber : numbers, kind : {"closing", "non-closing"}, unmetCriteria : Seq(CriterionText),
   truncatedCriteriaCount : Nat]

\* A spec is of the issue of a reference, and shows the first of what the issue asks for.
Specified(spec, r, unmet) ==
  /\ spec.issueNumber = r.issueNumber /\ spec.kind = r.kind
  /\ Len(spec.unmetCriteria) + spec.truncatedCriteriaCount = Len(unmet)
  /\ \A j \in 1 .. Len(spec.unmetCriteria) : spec.unmetCriteria[j] = unmet[j]

\* What is shown of an issue that asks for something: the first of its unmet criteria.
LEMMA SpecFacts ==
  ASSUME NEW numbers, NEW r \in Reference(numbers), NEW unmet \in Seq(CriterionText), unmet # <<>>
  PROVE  LET spec == IssueSpec(r, unmet)
         IN /\ spec \in LinkedIssueSpec(numbers) /\ Len(spec.unmetCriteria) \in Nat \ {0}
            /\ Specified(spec, r, unmet)
<1> DEFINE left == Surplus(Len(unmet), MAX_CRITERIA_PER_ISSUE)
           shown == SubSeq(unmet, 1, Len(unmet) - left)
           number == r.issueNumber
           kind == r.kind
           spec == IssueSpec(r, unmet)
<1>1. Len(unmet) \in Nat \ {0} /\ \A i \in 1 .. Len(unmet) : unmet[i] \in CriterionText
  OBVIOUS
<1>2. left \in Nat /\ Len(unmet) - left \in Nat \ {0} /\ Len(unmet) - left <= Len(unmet)
  BY <1>1, SpineAssumption DEF Surplus
<1> HIDE DEF left
<1>3. /\ shown \in Seq(CriterionText) /\ Len(shown) = Len(unmet) - left
      /\ \A j \in 1 .. Len(shown) : shown[j] = unmet[j]
  BY <1>1, <1>2
<1>4. number \in numbers /\ kind \in {"closing", "non-closing"}
  BY DEF Reference
<1>5. spec = [issueNumber |-> number, kind |-> kind, unmetCriteria |-> shown,
              truncatedCriteriaCount |-> left]
  BY Zenon DEF IssueSpec, left
<1> HIDE DEF shown, number, kind, spec
<1>6. /\ spec.issueNumber = number /\ spec.kind = kind /\ spec.unmetCriteria = shown
      /\ spec.truncatedCriteriaCount = left
  BY <1>5
<1>7. spec \in LinkedIssueSpec(numbers)
  BY <1>2, <1>3, <1>4, <1>5 DEF LinkedIssueSpec
<1>8. /\ Len(shown) \in Nat \ {0} /\ Len(shown) + left = Len(unmet)
  BY <1>1, <1>2, <1>3
<1>9. /\ spec.issueNumber = r.issueNumber /\ spec.kind = r.kind
      /\ Len(spec.unmetCriteria) \in Nat \ {0}
      /\ Len(spec.unmetCriteria) + spec.truncatedCriteriaCount = Len(unmet)
      /\ \A j \in 1 .. Len(spec.unmetCriteria) : spec.unmetCriteria[j] = unmet[j]
  BY <1>2, <1>3, <1>6, <1>8, Zenon DEF number, kind
<1> QED
  BY <1>7, <1>9, Zenon DEF spec, Specified

\* There is a spec of every issue found that asks for something, and no other.
LEMMA SpecsFacts ==
  ASSUME NEW numbers, NEW issues \in Bodies(numbers),
         NEW fetched \in Seq(Reference(numbers)), OneEach(fetched),
         \A i \in 1 .. Len(fetched) : issues[fetched[i].issueNumber] \in SpineText(Nat)
  PROVE  LET specs == IssueSpecs(fetched, issues)
         IN /\ specs \in Seq(LinkedIssueSpec(numbers)) /\ OneEach(specs)
            /\ \A k \in 1 .. Len(specs) :
                 /\ Len(specs[k].unmetCriteria) \in Nat \ {0}
                 /\ \E i \in 1 .. Len(fetched) :
                      /\ fetched[i].issueNumber = specs[k].issueNumber
                      /\ fetched[i].kind = specs[k].kind
            /\ \A i \in 1 .. Len(fetched) :
                 Unmet(issues[fetched[i].issueNumber]) # <<>> =>
                   \E k \in 1 .. Len(specs) :
                     Specified(specs[k], fetched[i], Unmet(issues[fetched[i].issueNumber]))
<1> DEFINE U(r) == Unmet(issues[r.issueNumber])
           unmet == {r \in ToSet(fetched) : U(r) # <<>>}
           asking == Only(fetched, unmet)
           specs == IssueSpecs(fetched, issues)
           R == Reference(numbers)
<1>1. specs = [k \in DOMAIN asking |-> IssueSpec(asking[k], U(asking[k]))]
  BY Zenon DEF IssueSpecs
<1>2. /\ asking \in Seq(R) /\ OneEach(asking)
      /\ Len(asking) \in Nat /\ DOMAIN asking = 1 .. Len(asking)
      /\ \A k \in 1 .. Len(asking) : asking[k] \in unmet /\ asking[k] \in R /\ Has(fetched, asking[k])
  <2> HIDE DEF unmet
  <2> QED
    BY OnlyOf, OnlyOneEach, Zenon
<1> HIDE DEF asking
<1>3. \A i \in 1 .. Len(fetched) : U(fetched[i]) \in Seq(CriterionText)
  BY UnmetFacts, Zenon
<1>4. ASSUME NEW k \in 1 .. Len(asking)
      PROVE  U(asking[k]) \in Seq(CriterionText) /\ U(asking[k]) # <<>>
  <2>1. PICK i \in 1 .. Len(fetched) : fetched[i] = asking[k]
    BY <1>2, Zenon DEF Has
  <2>2. U(asking[k]) \in Seq(CriterionText)
    BY <1>3, <2>1, Zenon
  <2>3. U(asking[k]) # <<>>
    BY <1>2, Zenon
  <2> QED
    BY <2>2, <2>3
<1> HIDE DEF U
<1> DEFINE one(k) == IssueSpec(asking[k], U(asking[k]))
<1>5. ASSUME NEW k \in 1 .. Len(asking)
      PROVE  /\ one(k) \in LinkedIssueSpec(numbers) /\ Len(one(k).unmetCriteria) \in Nat \ {0}
             /\ Specified(one(k), asking[k], U(asking[k]))
  <2>1. asking[k] \in R
    BY <1>2, Zenon
  <2> QED
    BY <1>4, <2>1, SpecFacts, Zenon
<1> HIDE DEF one, specs
<1>6. specs = [k \in 1 .. Len(asking) |-> one(k)]
  BY <1>1, <1>2, Zenon DEF one
<1>7. specs \in Seq(LinkedIssueSpec(numbers)) /\ Len(specs) = Len(asking)
  BY <1>2, <1>5, <1>6
<1>8. \A k \in 1 .. Len(asking) :
        /\ Len(specs[k].unmetCriteria) \in Nat \ {0}
        /\ Specified(specs[k], asking[k], U(asking[k]))
  <2>1. \A k \in 1 .. Len(asking) : specs[k] = one(k)
    BY <1>6, Zenon
  <2> QED
    BY <1>5, <2>1, Zenon
<1>9. OneEach(specs)
  <2> SUFFICES ASSUME NEW h \in 1 .. Len(asking), NEW i \in 1 .. Len(asking),
                      specs[h].issueNumber = specs[i].issueNumber
               PROVE  h = i
    BY <1>7, Zenon DEF OneEach
  <2>1. asking[h].issueNumber = asking[i].issueNumber
    BY <1>8, Zenon DEF Specified
  <2> QED
    BY <1>2, <2>1, Zenon DEF OneEach
<1>10. ASSUME NEW k \in 1 .. Len(specs)
       PROVE  \E i \in 1 .. Len(fetched) :
                fetched[i].issueNumber = specs[k].issueNumber /\ fetched[i].kind = specs[k].kind
  <2>1. k \in 1 .. Len(asking)
    BY <1>7
  <2>2. PICK i \in 1 .. Len(fetched) : fetched[i] = asking[k]
    BY <1>2, <2>1, Zenon DEF Has
  <2>3. specs[k].issueNumber = asking[k].issueNumber /\ specs[k].kind = asking[k].kind
    BY <1>8, <2>1, Zenon DEF Specified
  <2> QED
    BY <2>2, <2>3, Zenon
<1>11. ASSUME NEW i \in 1 .. Len(fetched), U(fetched[i]) # <<>>
       PROVE  \E k \in 1 .. Len(specs) : Specified(specs[k], fetched[i], U(fetched[i]))
  <2>1. fetched[i] \in ToSet(fetched)
    BY SeqFacts, Zenon DEF ToSet
  <2>2. fetched[i] \in unmet
    BY <1>11, <2>1, Zenon
  <2>3. Has(asking, fetched[i])
    <3> HIDE DEF unmet
    <3> QED
      BY <2>2, OnlyHas, Zenon DEF asking
  <2>4. PICK k \in 1 .. Len(asking) : asking[k] = fetched[i]
    BY <2>3, Zenon DEF Has
  <2> QED
    BY <1>7, <1>8, <2>4, Zenon
<1> QED
  BY <1>7, <1>8, <1>9, <1>10, <1>11, Zenon DEF U, specs

-----------------------------------------------------------------------------
(* The spine.                                                              *)

\* An entry of the spine.
SpineEntry ==
  [issueNumber : Nat, kind : {"closing", "non-closing"}, criterionId : Nat \X Nat,
   criterionDigest : Nat \X CriterionText]

\* The size of an interval.
LEMMA UptoFinite ==
  ASSUME NEW n \in Nat
  PROVE  IsFiniteSet(1 .. n) /\ Cardinality(1 .. n) = n
<1>1. IsFiniteSet(1 .. n) /\ Cardinality(1 .. n) = IF 1 > n THEN 0 ELSE n - 1 + 1
  BY FS_Interval
<1> QED
  BY <1>1

\* A part of an interval is no larger.
LEMMA PartOfUpto ==
  ASSUME NEW n \in Nat, NEW A, A \subseteq 1 .. n
  PROVE  IsFiniteSet(A) /\ Cardinality(A) \in 0 .. n
<1>1. IsFiniteSet(1 .. n) /\ Cardinality(1 .. n) = n
  BY UptoFinite
<1>2. IsFiniteSet(A) /\ Cardinality(A) <= Cardinality(1 .. n)
  BY <1>1, FS_Subset
<1>3. Cardinality(A) \in Nat
  BY <1>2, FS_CardinalityType
<1> QED
  BY <1>1, <1>2, <1>3

\* A digest has the text, and how often it was there before.
LEMMA DigestFacts ==
  ASSUME NEW unmet \in Seq(CriterionText), NEW i \in 1 .. Len(unmet)
  PROVE  /\ criterionOccurrenceDigest(unmet, i) \in Nat \X CriterionText
         /\ criterionOccurrenceDigest(unmet, i)[2] = unmet[i]
         /\ criterionOccurrenceDigest(unmet, i)[1] =
              Cardinality({j \in 1 .. i - 1 : unmet[j] = unmet[i]})
<1> DEFINE before == {j \in 1 .. i - 1 : unmet[j] = unmet[i]}
           n == Cardinality(before)
           text == unmet[i]
<1>1. Len(unmet) \in Nat /\ text \in CriterionText
  BY SeqFacts, Zenon
<1>2. i - 1 \in Nat /\ before \subseteq 1 .. i - 1
  BY <1>1
<1>3. n \in Nat
  <2> HIDE DEF before
  <2>1. n \in 0 .. i - 1
    BY <1>2, PartOfUpto
  <2> HIDE DEF n
  <2> QED
    BY <1>2, <2>1
<1>4. criterionOccurrenceDigest(unmet, i) = <<n, text>>
  BY Zenon DEF criterionOccurrenceDigest
<1>5. <<n, text>> \in Nat \X CriterionText /\ <<n, text>>[2] = text /\ <<n, text>>[1] = n
  <2> HIDE DEF n, text
  <2> QED
    BY <1>1, <1>3
<1> QED
  BY <1>4, <1>5, Zenon

\* Two criteria of an issue have different digests: of a repetition there are more before.
LEMMA DigestsDiffer ==
  ASSUME NEW unmet \in Seq(CriterionText), NEW h \in 1 .. Len(unmet), NEW i \in 1 .. Len(unmet),
         h < i
  PROVE  criterionOccurrenceDigest(unmet, h) # criterionOccurrenceDigest(unmet, i)
<1> DEFINE Same(k) == {j \in 1 .. k - 1 : unmet[j] = unmet[k]}
<1> SUFFICES ASSUME criterionOccurrenceDigest(unmet, h) = criterionOccurrenceDigest(unmet, i)
             PROVE  FALSE
  OBVIOUS
<1>1. unmet[h] = unmet[i] /\ Cardinality(Same(h)) = Cardinality(Same(i))
  <2>1. /\ criterionOccurrenceDigest(unmet, h)[2] = unmet[h]
        /\ criterionOccurrenceDigest(unmet, h)[1] = Cardinality(Same(h))
    BY DigestFacts, Zenon
  <2>2. /\ criterionOccurrenceDigest(unmet, i)[2] = unmet[i]
        /\ criterionOccurrenceDigest(unmet, i)[1] = Cardinality(Same(i))
    BY DigestFacts, Zenon
  <2> QED
    BY <2>1, <2>2, Zenon
<1>2. Len(unmet) \in Nat
  BY SeqFacts, Zenon
<1>3. Same(h) \subseteq Same(i) /\ h \in Same(i) /\ h \notin Same(h)
  BY <1>1, <1>2
<1>4. IsFiniteSet(Same(i))
  <2>1. i - 1 \in Nat /\ Same(i) \subseteq 1 .. i - 1
    BY <1>2
  <2> HIDE DEF Same
  <2> QED
    BY <2>1, PartOfUpto
<1> HIDE DEF Same
<1>5. Same(h) = Same(i)
  BY <1>1, <1>3, <1>4, FS_Subset
<1> QED
  BY <1>3, <1>5

\* The spine spells the criteria of specs in their order, each once, and of every issue
\* the first ones.
Spells(spine, specs, K, J) ==
  /\ \A m \in 1 .. Len(spine) :
       /\ K[m] \in 1 .. Len(specs) /\ J[m] \in 1 .. Len(specs[K[m]].unmetCriteria)
       /\ spine[m].issueNumber = specs[K[m]].issueNumber /\ spine[m].kind = specs[K[m]].kind
       /\ spine[m].criterionId = <<specs[K[m]].issueNumber, J[m]>>
       /\ spine[m].criterionDigest = criterionOccurrenceDigest(specs[K[m]].unmetCriteria, J[m])
  /\ \A m \in 1 .. Len(spine) : \A j \in 1 .. J[m] :
       \E l \in 1 .. Len(spine) : K[l] = K[m] /\ J[l] = j
  /\ \A l, m \in 1 .. Len(spine) : K[l] = K[m] /\ J[l] = J[m] => l = m

\* No criterion of the specs is missing from the spine.
SpellsAll(spine, specs, K, J) ==
  \A k \in 1 .. Len(specs) : \A j \in 1 .. Len(specs[k].unmetCriteria) :
    \E m \in 1 .. Len(spine) : K[m] = k /\ J[m] = j

\* How many criteria are shown, of all issues.
Shown(specs) == Len(FlattenSeq([k \in DOMAIN specs |-> specs[k].unmetCriteria]))

\* The entry of a criterion.
EntryOf(spec, j) ==
  [issueNumber |-> spec.issueNumber, kind |-> spec.kind,
   criterionId |-> <<spec.issueNumber, j>>,
   criterionDigest |-> criterionOccurrenceDigest(spec.unmetCriteria, j)]

\* It says whose criterion it is, which, and what it asks for.
LEMMA EntryFacts ==
  ASSUME NEW numbers, numbers \subseteq Nat, NEW spec \in LinkedIssueSpec(numbers),
         NEW j \in 1 .. Len(spec.unmetCriteria)
  PROVE  /\ EntryOf(spec, j) \in SpineEntry
         /\ EntryOf(spec, j).issueNumber = spec.issueNumber /\ EntryOf(spec, j).kind = spec.kind
         /\ EntryOf(spec, j).criterionId = <<spec.issueNumber, j>>
         /\ EntryOf(spec, j).criterionDigest = criterionOccurrenceDigest(spec.unmetCriteria, j)
<1> DEFINE n == spec.issueNumber
           kind == spec.kind
           id == <<n, j>>
           digest == criterionOccurrenceDigest(spec.unmetCriteria, j)
<1>1. /\ spec.unmetCriteria \in Seq(CriterionText) /\ n \in numbers
      /\ kind \in {"closing", "non-closing"}
  BY DEF LinkedIssueSpec
<1>2. n \in Nat /\ j \in Nat
  <2>1. Len(spec.unmetCriteria) \in Nat
    BY <1>1, SeqFacts, Zenon
  <2>2. n \in Nat
    BY <1>1, Zenon
  <2> HIDE DEF n
  <2> QED
    BY <2>1, <2>2
<1>3. digest \in Nat \X CriterionText
  BY <1>1, DigestFacts, Zenon
<1>4. EntryOf(spec, j) = [issueNumber |-> n, kind |-> kind, criterionId |-> id,
                          criterionDigest |-> digest]
  BY Zenon DEF EntryOf
<1> HIDE DEF n, kind, digest
<1>5. id \in Nat \X Nat
  BY <1>2
<1> HIDE DEF id
<1>6. /\ EntryOf(spec, j) \in SpineEntry
      /\ EntryOf(spec, j).issueNumber = n /\ EntryOf(spec, j).kind = kind
      /\ EntryOf(spec, j).criterionId = id /\ EntryOf(spec, j).criterionDigest = digest
  BY <1>1, <1>2, <1>3, <1>4, <1>5 DEF SpineEntry
<1> QED
  BY <1>6, Zenon DEF n, kind, id, digest

\* The entry, with the line that shows the criterion.
Wants(spec, j) ==
  [entry |-> EntryOf(spec, j), line |-> CriterionLine(spec.issueNumber, j, spec.unmetCriteria[j])]

\* The wanted entries list the criteria of specs in their order, all of them.
Lists(wanted, specs, K, J) ==
  /\ \A m \in 1 .. Len(wanted) :
       /\ K[m] \in 1 .. Len(specs) /\ J[m] \in 1 .. Len(specs[K[m]].unmetCriteria)
       /\ wanted[m].entry = EntryOf(specs[K[m]], J[m])
  /\ \A k \in 1 .. Len(specs) : \A j \in 1 .. Len(specs[k].unmetCriteria) :
       \E m \in 1 .. Len(wanted) : K[m] = k /\ J[m] = j
  /\ \A l, m \in 1 .. Len(wanted) :
       l < m => K[l] < K[m] \/ (K[l] = K[m] /\ J[l] < J[m])

\* All criteria that are asked for, each with its place.
LEMMA WantedFacts ==
  ASSUME NEW numbers, numbers \subseteq Nat, NEW specs \in Seq(LinkedIssueSpec(numbers))
  PROVE  /\ Len(WantedEntries(specs)) \in Nat
         /\ DOMAIN WantedEntries(specs) = 1 .. Len(WantedEntries(specs))
         /\ Len(WantedEntries(specs)) = Shown(specs)
         /\ \E K, J : Lists(WantedEntries(specs), specs, K, J)
<1> DEFINE wanted == WantedEntries(specs)
           of(k) == {Wants(specs[k], j) : j \in Nat}
           all == UNION {of(k) : k \in 1 .. Len(specs)}
           row(k) == [j \in 1 .. Len(specs[k].unmetCriteria) |-> Wants(specs[k], j)]
           rows == [k \in DOMAIN specs |-> row(k)]
           texts == [k \in DOMAIN specs |-> specs[k].unmetCriteria]
<1>1. /\ DOMAIN specs = 1 .. Len(specs) /\ Len(specs) \in Nat
      /\ \A k \in 1 .. Len(specs) : specs[k] \in LinkedIssueSpec(numbers)
  BY SeqFacts, Zenon
<1>2. ASSUME NEW k \in 1 .. Len(specs)
      PROVE  /\ specs[k].unmetCriteria \in Seq(CriterionText)
             /\ DOMAIN specs[k].unmetCriteria = 1 .. Len(specs[k].unmetCriteria)
             /\ Len(specs[k].unmetCriteria) \in Nat
  <2>1. specs[k].unmetCriteria \in Seq(CriterionText)
    BY <1>1 DEF LinkedIssueSpec
  <2> QED
    BY <2>1, SeqFacts, Zenon
<1>3. wanted = FlattenSeq(rows)
  <2> DEFINE EntriesFor(spec) ==
        [i \in DOMAIN spec.unmetCriteria |->
           [entry |-> [issueNumber |-> spec.issueNumber, kind |-> spec.kind,
                       criterionId |-> <<spec.issueNumber, i>>,
                       criterionDigest |-> criterionOccurrenceDigest(spec.unmetCriteria, i)],
            line |-> CriterionLine(spec.issueNumber, i, spec.unmetCriteria[i])]]
  <2>1. wanted = FlattenSeq([k \in DOMAIN specs |-> EntriesFor(specs[k])])
    BY Zenon DEF WantedEntries
  <2>2. \A k \in 1 .. Len(specs) : EntriesFor(specs[k]) = row(k)
    BY <1>2, Zenon DEF Wants, EntryOf
  <2> HIDE DEF EntriesFor, row
  <2>3. [k \in DOMAIN specs |-> EntriesFor(specs[k])] = rows
    BY <1>1, <2>2
  <2> QED
    BY <2>1, <2>3, Zenon
<1>4. ASSUME NEW k \in 1 .. Len(specs)
      PROVE  /\ row(k) \in Seq(all) /\ Len(row(k)) = Len(specs[k].unmetCriteria)
             /\ \A j \in 1 .. Len(specs[k].unmetCriteria) : row(k)[j] = Wants(specs[k], j)
  <2> DEFINE n == Len(specs[k].unmetCriteria)
             one(j) == Wants(specs[k], j)
  <2>1. n \in Nat
    BY <1>2
  <2>2. ASSUME NEW j \in 1 .. n
        PROVE  one(j) \in all
    <3>1. j \in Nat
      BY <2>1
    <3>2. one(j) \in of(k)
      BY <3>1, Zenon
    <3> HIDE DEF of
    <3> QED
      BY <3>2, Zenon
  <2>3. row(k) = [j \in 1 .. n |-> one(j)]
    BY Zenon
  <2> HIDE DEF n, one, row, of, all
  <2>4. row(k) \in Seq(all) /\ Len(row(k)) = n /\ \A j \in 1 .. n : row(k)[j] = one(j)
    BY <2>1, <2>2, <2>3
  <2> QED
    BY <2>4, Zenon DEF n, one
<1> HIDE DEF wanted, row, of, all
<1>5. /\ rows \in Seq(Seq(all)) /\ Len(rows) = Len(specs)
      /\ \A k \in 1 .. Len(specs) : rows[k] = row(k)
  BY <1>1, <1>4
<1>6. /\ texts \in Seq(Seq(CriterionText)) /\ Len(texts) = Len(specs)
      /\ \A k \in 1 .. Len(specs) : texts[k] = specs[k].unmetCriteria
  BY <1>1, <1>2
<1>7. Shown(specs) = Len(FlattenSeq(texts))
  BY Zenon DEF Shown
<1> HIDE DEF rows, texts
<1>8. wanted \in Seq(all)
  BY <1>3, <1>5, FlattenFacts, Zenon
<1>9. Len(wanted) \in Nat /\ DOMAIN wanted = 1 .. Len(wanted)
  BY <1>8, SeqFacts, Zenon
<1>10. Len(wanted) = Shown(specs)
  <2>1. Len(rows) = Len(texts) /\ \A k \in 1 .. Len(rows) : Len(rows[k]) = Len(texts[k])
    BY <1>4, <1>5, <1>6
  <2> QED
    BY <1>3, <1>5, <1>6, <1>7, <2>1, FlattenLengths, Zenon
<1>11. PICK K, J : Addresses(rows, Len(rows), wanted, K, J)
  BY <1>3, <1>5, FlattenFacts, Zenon
<1>12. \A k \in 1 .. Len(specs) : Len(rows[k]) = Len(specs[k].unmetCriteria)
  BY <1>4, <1>5, Zenon
<1>13. ASSUME NEW m \in 1 .. Len(wanted)
       PROVE  /\ K[m] \in 1 .. Len(specs) /\ J[m] \in 1 .. Len(specs[K[m]].unmetCriteria)
              /\ wanted[m].entry = EntryOf(specs[K[m]], J[m])
  <2> DEFINE k == K[m]
             j == J[m]
             entry == EntryOf(specs[k], j)
             line == CriterionLine(specs[k].issueNumber, j, specs[k].unmetCriteria[j])
  <2>1. k \in 1 .. Len(rows) /\ j \in 1 .. Len(rows[k]) /\ wanted[m] = rows[k][j]
    BY <1>11, Zenon DEF Addresses
  <2>2. k \in 1 .. Len(specs) /\ j \in 1 .. Len(specs[k].unmetCriteria) /\ wanted[m] = row(k)[j]
    BY <1>5, <1>12, <2>1, Zenon
  <2>3. wanted[m] = [entry |-> entry, line |-> line]
    BY <1>4, <2>2, Zenon DEF Wants
  <2> HIDE DEF entry, line
  <2>4. wanted[m].entry = entry
    BY <2>3
  <2> QED
    BY <2>2, <2>4, Zenon DEF entry
<1>14. \A k \in 1 .. Len(specs) : \A j \in 1 .. Len(specs[k].unmetCriteria) :
         \E m \in 1 .. Len(wanted) : K[m] = k /\ J[m] = j
  <2> TAKE k \in 1 .. Len(specs)
  <2> TAKE j \in 1 .. Len(specs[k].unmetCriteria)
  <2>1. k \in 1 .. Len(rows) /\ j \in 1 .. Len(rows[k])
    BY <1>5, <1>12, Zenon
  <2> QED
    BY <1>11, <2>1, Zenon DEF Addresses
<1>15. \A l, m \in 1 .. Len(wanted) :
         l < m => K[l] < K[m] \/ (K[l] = K[m] /\ J[l] < J[m])
  BY <1>11, Zenon DEF Addresses
<1>16. Lists(wanted, specs, K, J)
  BY <1>13, <1>14, <1>15, Zenon DEF Lists
<1> QED
  BY <1>9, <1>10, <1>16, Zenon DEF wanted

\* What survives a cut is spelled in order; if as much survives as is shown, all of it does.
LEMMA SpineFacts ==
  ASSUME NEW numbers, numbers \subseteq Nat, NEW result,
         result.specs \in Seq(LinkedIssueSpec(numbers)), NEW block
  PROVE  LET spine == buildCriteriaSpine(result, block)
         IN /\ spine \in Seq(SpineEntry) /\ Len(spine) \in Nat /\ DOMAIN spine = 1 .. Len(spine)
            /\ Shown(result.specs) \in Nat /\ Len(spine) <= Shown(result.specs)
            /\ \E K, J : /\ Spells(spine, result.specs, K, J)
                         /\ Len(spine) = Shown(result.specs) => SpellsAll(spine, result.specs, K, J)
<1> DEFINE specs == result.specs
           wanted == WantedEntries(specs)
           found == {k \in DOMAIN wanted : LineCursor(wanted, block)[k] # 0}
           L == Cardinality(found)
           spine == buildCriteriaSpine(result, block)
<1>1. spine = [k \in 1 .. L |-> wanted[k].entry]
  BY Zenon DEF buildCriteriaSpine
<1>2. specs \in Seq(LinkedIssueSpec(numbers))
  OBVIOUS
<1> HIDE DEF specs
<1>3. Len(wanted) \in Nat /\ DOMAIN wanted = 1 .. Len(wanted) /\ Len(wanted) = Shown(specs)
  BY <1>2, WantedFacts, Zenon
<1>4. PICK K, J : Lists(wanted, specs, K, J)
  BY <1>2, WantedFacts, Zenon
<1>5. L \in 0 .. Len(wanted)
  <2>1. found \subseteq 1 .. Len(wanted)
    BY <1>3, Zenon
  <2> HIDE DEF found, wanted
  <2> QED
    BY <1>3, <2>1, PartOfUpto
<1> HIDE DEF L, wanted, spine
<1>6. \A m \in 1 .. L : m \in 1 .. Len(wanted)
  BY <1>3, <1>5
<1>7. ASSUME NEW m \in 1 .. L
      PROVE  /\ spine[m] \in SpineEntry
             /\ K[m] \in 1 .. Len(specs) /\ J[m] \in 1 .. Len(specs[K[m]].unmetCriteria)
             /\ spine[m].issueNumber = specs[K[m]].issueNumber /\ spine[m].kind = specs[K[m]].kind
             /\ spine[m].criterionId = <<specs[K[m]].issueNumber, J[m]>>
             /\ spine[m].criterionDigest =
                  criterionOccurrenceDigest(specs[K[m]].unmetCriteria, J[m])
  <2> DEFINE k == K[m]
             j == J[m]
  <2>1. /\ k \in 1 .. Len(specs) /\ j \in 1 .. Len(specs[k].unmetCriteria)
        /\ spine[m] = EntryOf(specs[k], j)
    BY <1>1, <1>4, <1>6, Zenon DEF Lists
  <2>2. specs[k] \in LinkedIssueSpec(numbers)
    BY <1>2, <2>1, SeqFacts, Zenon
  <2> HIDE DEF k, j
  <2>3. /\ EntryOf(specs[k], j) \in SpineEntry
        /\ EntryOf(specs[k], j).issueNumber = specs[k].issueNumber
        /\ EntryOf(specs[k], j).kind = specs[k].kind
        /\ EntryOf(specs[k], j).criterionId = <<specs[k].issueNumber, j>>
        /\ EntryOf(specs[k], j).criterionDigest = criterionOccurrenceDigest(specs[k].unmetCriteria, j)
    BY <2>1, <2>2, EntryFacts, Zenon
  <2> QED
    BY <2>1, <2>3, Zenon DEF k, j
<1>8. spine \in Seq(SpineEntry) /\ Len(spine) = L
  <2>1. spine = [k \in 1 .. L |-> spine[k]]
    BY <1>1
  <2>2. \A m \in 1 .. L : spine[m] \in SpineEntry
    BY <1>7, Zenon
  <2> QED
    BY <1>3, <1>5, <2>1, <2>2
<1>9. \A l, m \in 1 .. L : K[l] = K[m] /\ J[l] = J[m] => l = m
  <2> SUFFICES ASSUME NEW l \in 1 .. L, NEW m \in 1 .. L, K[l] = K[m], J[l] = J[m], l < m
               PROVE  FALSE
    BY <1>3, <1>5
  <2>1. K[l] < K[m] \/ J[l] < J[m]
    BY <1>4, <1>6, Zenon DEF Lists
  <2>2. K[m] \in 1 .. Len(specs) /\ J[m] \in 1 .. Len(specs[K[m]].unmetCriteria)
    BY <1>7, Zenon
  <2> QED
    BY <2>1, <2>2
<1>10. ASSUME NEW m \in 1 .. L, NEW j \in 1 .. J[m]
       PROVE  \E l \in 1 .. L : K[l] = K[m] /\ J[l] = j
  <2>1. /\ K[m] \in 1 .. Len(specs) /\ J[m] \in 1 .. Len(specs[K[m]].unmetCriteria)
    BY <1>7, Zenon
  <2>2. Len(specs[K[m]].unmetCriteria) \in Nat
    <3>1. specs[K[m]] \in LinkedIssueSpec(numbers)
      BY <1>2, <2>1, SeqFacts, Zenon
    <3>2. specs[K[m]].unmetCriteria \in Seq(CriterionText)
      BY <3>1 DEF LinkedIssueSpec
    <3> QED
      BY <3>2, SeqFacts, Zenon
  <2>3. j \in 1 .. Len(specs[K[m]].unmetCriteria) /\ ~ (J[m] < j)
    BY <2>1, <2>2
  <2>4. PICK l \in 1 .. Len(wanted) : K[l] = K[m] /\ J[l] = j
    BY <1>4, <2>1, <2>3, Zenon DEF Lists
  <2>5. ~ (m < l)
    <3>1. m < l => K[m] < K[l] \/ J[m] < J[l]
      BY <1>4, <1>6, Zenon DEF Lists
    <3>2. ~ (K[m] < K[l])
      BY <2>1, <2>4
    <3> QED
      BY <2>3, <2>4, <3>1, <3>2
  <2>6. l \in 1 .. L
    BY <1>3, <1>5, <2>5
  <2> QED
    BY <2>4, <2>6
<1>11. Spells(spine, specs, K, J)
  <2>1. \A m \in 1 .. L : \A j \in 1 .. J[m] : \E l \in 1 .. L : K[l] = K[m] /\ J[l] = j
    BY <1>10, Zenon
  <2> DEFINE Spelled(M) ==
        /\ \A m \in 1 .. M :
             /\ K[m] \in 1 .. Len(specs) /\ J[m] \in 1 .. Len(specs[K[m]].unmetCriteria)
             /\ spine[m].issueNumber = specs[K[m]].issueNumber /\ spine[m].kind = specs[K[m]].kind
             /\ spine[m].criterionId = <<specs[K[m]].issueNumber, J[m]>>
             /\ spine[m].criterionDigest =
                  criterionOccurrenceDigest(specs[K[m]].unmetCriteria, J[m])
        /\ \A m \in 1 .. M : \A j \in 1 .. J[m] : \E l \in 1 .. M : K[l] = K[m] /\ J[l] = j
        /\ \A l, m \in 1 .. M : K[l] = K[m] /\ J[l] = J[m] => l = m
  <2>2. Spelled(L)
    BY <1>7, <1>9, <2>1, Zenon
  <2> HIDE DEF Spelled
  <2>3. Spelled(Len(spine))
    BY <1>8, <2>2, Zenon
  <2> QED
    BY <2>3, Zenon DEF Spelled, Spells
<1>12. Len(spine) = Shown(specs) => SpellsAll(spine, specs, K, J)
  <2> SUFFICES ASSUME Len(spine) = Shown(specs)
               PROVE  SpellsAll(spine, specs, K, J)
    OBVIOUS
  <2>1. Len(wanted) = Len(spine)
    BY <1>3, Zenon
  <2> DEFINE All(M) ==
        \A k \in 1 .. Len(specs) : \A j \in 1 .. Len(specs[k].unmetCriteria) :
          \E m \in 1 .. M : K[m] = k /\ J[m] = j
  <2>2. All(Len(wanted))
    BY <1>4, Zenon DEF Lists
  <2> HIDE DEF All
  <2>3. All(Len(spine))
    BY <2>1, <2>2, Zenon
  <2> QED
    BY <2>3, Zenon DEF All, SpellsAll
<1>13. Shown(specs) \in Nat /\ Len(spine) <= Shown(specs) /\ Len(spine) \in Nat /\ DOMAIN spine = 1 .. Len(spine)
  <2>1. L \in Nat /\ L <= Len(wanted)
    BY <1>3, <1>5
  <2>2. DOMAIN spine = 1 .. Len(spine)
    BY <1>8, SeqFacts, Zenon
  <2> QED
    BY <1>3, <1>8, <2>1, <2>2, Zenon
<1>14. \E X, Y : /\ Spells(spine, specs, X, Y)
                 /\ Len(spine) = Shown(specs) => SpellsAll(spine, specs, X, Y)
  <2> WITNESS K, J
  <2> QED
    BY <1>11, <1>12
<1> QED
  BY <1>8, <1>13, <1>14, Zenon DEF specs, spine

\* A set of numbers without a gap from 1 on is an interval.
LEMMA NoGap ==
  ASSUME NEW n \in Nat, NEW D, D \subseteq 1 .. n, \A j \in D : \A i \in 1 .. j : i \in D
  PROVE  Cardinality(D) \in Nat /\ D = 1 .. Cardinality(D)
<1> DEFINE T == {k \in Nat : k + 1 \notin D}
<1>1. n \in T
  BY SMT
<1>2. PICK k \in T : \A m \in T : k <= m
  <2>1. T \subseteq Nat /\ T # {}
    BY <1>1
  <2> HIDE DEF T
  <2> QED
    BY <2>1, LeastPlace
<1>3. k \in Nat /\ k + 1 \notin D
  BY <1>2
<1>4. \A i \in 1 .. k : i \in D
  <2> TAKE i \in 1 .. k
  <2>1. i - 1 \in Nat /\ i - 1 < k /\ i - 1 + 1 = i
    BY <1>3
  <2>2. i - 1 \notin T
    BY <1>2, <2>1
  <2>3. i - 1 + 1 \in D
    BY <2>1, <2>2
  <2> QED
    BY <2>1, <2>3
<1>5. \A j \in D : j \in 1 .. k
  <2> TAKE j \in D
  <2>1. j \in 1 .. n
    OBVIOUS
  <2>2. k + 1 \in 1 .. j => k + 1 \in D
    OBVIOUS
  <2> QED
    BY <1>3, <2>1, <2>2
<1>6. D = 1 .. k
  BY <1>4, <1>5
<1>7. Cardinality(D) = k
  BY <1>3, <1>6, UptoFinite, Zenon
<1> QED
  BY <1>3, <1>6, <1>7, Zenon

\* The entries of an issue are its section of the spine.
Section(spine, spec, k, K, J) ==
  LET own == EntriesOf(spine, spec.issueNumber)
  IN /\ own = {m \in 1 .. Len(spine) : K[m] = k}
     /\ Cardinality(own) \in Nat
     /\ {spine[m].criterionId[2] : m \in own} = 1 .. Cardinality(own)
     /\ \A m \in own : J[m] \in 1 .. Cardinality(own)
     /\ \A j \in 1 .. Cardinality(own) : \E m \in own : J[m] = j

\* Every issue has such a section of the spine, perhaps an empty one.
LEMMA SectionFacts ==
  ASSUME NEW numbers, NEW specs \in Seq(LinkedIssueSpec(numbers)), OneEach(specs),
         NEW spine \in Seq(SpineEntry), NEW K, NEW J, Spells(spine, specs, K, J),
         NEW k \in 1 .. Len(specs)
  PROVE  Section(spine, specs[k], k, K, J)
<1> DEFINE own == EntriesOf(spine, specs[k].issueNumber)
           D == {J[m] : m \in own}
           n == Len(specs[k].unmetCriteria)
<1>1. DOMAIN spine = 1 .. Len(spine) /\ Len(spine) \in Nat
  BY SeqFacts, Zenon
<1>2. \A m \in 1 .. Len(spine) : K[m] \in 1 .. Len(specs) /\ J[m] \in 1 .. Len(specs[K[m]].unmetCriteria)
  BY Zenon DEF Spells
<1>3. \A m \in 1 .. Len(spine) : spine[m].issueNumber = specs[K[m]].issueNumber
  BY Zenon DEF Spells
<1>4. \A m \in 1 .. Len(spine) : spine[m].criterionId = <<specs[K[m]].issueNumber, J[m]>>
  BY Zenon DEF Spells
<1>5. \A m \in 1 .. Len(spine) : m \in own <=> K[m] = k
  <2> TAKE m \in 1 .. Len(spine)
  <2>1. m \in own <=> spine[m].issueNumber = specs[k].issueNumber
    BY <1>1, Zenon DEF EntriesOf
  <2>2. specs[K[m]].issueNumber = specs[k].issueNumber => K[m] = k
    BY <1>2, Zenon DEF OneEach
  <2> QED
    BY <1>3, <2>1, <2>2, Zenon
<1>6. own \subseteq 1 .. Len(spine)
  BY <1>1, Zenon DEF EntriesOf
<1> HIDE DEF own
<1>7. own = {m \in 1 .. Len(spine) : K[m] = k}
  BY <1>5, <1>6
<1>8. n \in Nat /\ D \subseteq 1 .. n
  <2>1. specs[k] \in LinkedIssueSpec(numbers)
    BY SeqFacts, Zenon
  <2>2. specs[k].unmetCriteria \in Seq(CriterionText)
    BY <2>1 DEF LinkedIssueSpec
  <2>3. n \in Nat
    BY <2>2, SeqFacts, Zenon
  <2>4. \A m \in own : J[m] \in 1 .. n
    BY <1>2, <1>5, <1>6
  <2> HIDE DEF n
  <2> QED
    BY <2>3, <2>4
<1>9. \A j \in D : \A i \in 1 .. j : i \in D
  <2> TAKE j \in D
  <2>1. PICK m \in own : J[m] = j
    OBVIOUS
  <2> TAKE i \in 1 .. j
  <2>2. m \in 1 .. Len(spine) /\ K[m] = k
    BY <1>5, <1>6
  <2>3. PICK l \in 1 .. Len(spine) : K[l] = K[m] /\ J[l] = i
    BY <2>1, <2>2, Zenon DEF Spells
  <2>4. l \in own
    BY <1>5, <2>2, <2>3, Zenon
  <2> QED
    BY <2>3, <2>4
<1> HIDE DEF n
<1>10. Cardinality(D) \in Nat /\ D = 1 .. Cardinality(D)
  <2> HIDE DEF D
  <2> QED
    BY <1>8, <1>9, NoGap
<1>11. Cardinality(own) = Cardinality(D)
  <2> DEFINE f == [m \in own |-> J[m]]
  <2>1. f \in Surjection(own, D)
    <3>1. f \in [own -> D]
      OBVIOUS
    <3>2. \A j \in D : \E m \in own : f[m] = j
      OBVIOUS
    <3> HIDE DEF f, D
    <3> QED
      BY <3>1, <3>2 DEF Surjection
  <2>2. f \in Injection(own, D)
    <3>1. f \in [own -> D]
      OBVIOUS
    <3>2. \A l, m \in own : f[l] = f[m] => l = m
      <4> TAKE l, m \in own
      <4>1. J[l] = J[m] => l = m
        <5>1. l \in 1 .. Len(spine) /\ m \in 1 .. Len(spine) /\ K[l] = K[m]
          BY <1>5, <1>6
        <5> QED
          BY <5>1, Zenon DEF Spells
      <4> QED
        BY <4>1
    <3> HIDE DEF f, D
    <3> QED
      BY <3>1, <3>2 DEF Injection, IsInjective
  <2>3. IsFiniteSet(own)
    BY <1>1, <1>6, PartOfUpto
  <2> HIDE DEF f, D
  <2> QED
    BY <2>1, <2>2, <2>3, FS_Surjection
<1>12. {spine[m].criterionId[2] : m \in own} = D
  <2>1. ASSUME NEW m \in own
        PROVE  spine[m].criterionId[2] = J[m]
    <3>1. spine[m].criterionId = <<specs[K[m]].issueNumber, J[m]>>
      BY <1>4, <1>6, Zenon
    <3> QED
      BY <3>1
  <2> QED
    BY <2>1
<1>13. (\A j \in D : \E m \in own : J[m] = j) /\ \A m \in own : J[m] \in D
  OBVIOUS
<1> HIDE DEF D
<1>14. /\ own = {m \in 1 .. Len(spine) : K[m] = k} /\ Cardinality(own) \in Nat
       /\ {spine[m].criterionId[2] : m \in own} = 1 .. Cardinality(own)
       /\ \A m \in own : J[m] \in 1 .. Cardinality(own)
       /\ \A j \in 1 .. Cardinality(own) : \E m \in own : J[m] = j
  BY <1>7, <1>10, <1>11, <1>12, <1>13, Zenon
<1> QED
  BY <1>14, Zenon DEF Section, own

\* The spine passes the checks of its entries.
LEMMA SpineAccepted ==
  ASSUME NEW numbers, numbers \subseteq Nat \ {0},
         NEW specs \in Seq(LinkedIssueSpec(numbers)), OneEach(specs),
         NEW spine \in Seq(SpineEntry), NEW K, NEW J, Spells(spine, specs, K, J)
  PROVE  /\ \A m \in DOMAIN spine : validateCriteriaSpineEntry(spine[m])
         /\ NoDuplicates(EntryIds(spine)) /\ NoDuplicates(EntryDigests(spine))
         /\ OneKindEach(spine) /\ Contiguous(spine)
<1>1. DOMAIN spine = 1 .. Len(spine) /\ Len(spine) \in Nat
  BY SeqFacts, Zenon
<1>2. ASSUME NEW m \in 1 .. Len(spine)
      PROVE  /\ K[m] \in 1 .. Len(specs) /\ J[m] \in 1 .. Len(specs[K[m]].unmetCriteria)
             /\ spine[m].issueNumber = specs[K[m]].issueNumber /\ spine[m].kind = specs[K[m]].kind
             /\ spine[m].criterionId = <<specs[K[m]].issueNumber, J[m]>>
             /\ spine[m].criterionDigest = criterionOccurrenceDigest(specs[K[m]].unmetCriteria, J[m])
  BY Zenon DEF Spells
<1>3. ASSUME NEW k \in 1 .. Len(specs)
      PROVE  /\ specs[k].issueNumber \in numbers /\ specs[k].kind \in {"closing", "non-closing"}
             /\ specs[k].unmetCriteria \in Seq(CriterionText)
  <2>1. specs[k] \in LinkedIssueSpec(numbers)
    BY SeqFacts, Zenon
  <2> QED
    BY <2>1 DEF LinkedIssueSpec
<1>4. ASSUME NEW l \in 1 .. Len(spine), NEW m \in 1 .. Len(spine),
             spine[l].issueNumber = spine[m].issueNumber
      PROVE  K[l] = K[m]
  <2>1. K[l] \in 1 .. Len(specs) /\ spine[l].issueNumber = specs[K[l]].issueNumber
    BY <1>2, Zenon
  <2>2. K[m] \in 1 .. Len(specs) /\ spine[m].issueNumber = specs[K[m]].issueNumber
    BY <1>2, Zenon
  <2> QED
    BY <1>4, <2>1, <2>2, Zenon DEF OneEach
<1>5. \A m \in 1 .. Len(spine) : validateCriteriaSpineEntry(spine[m])
  <2> TAKE m \in 1 .. Len(spine)
  <2> DEFINE n == specs[K[m]].issueNumber
             j == J[m]
  <2>1. n \in numbers /\ spine[m].kind \in {"closing", "non-closing"}
    BY <1>2, <1>3, Zenon
  <2>2. spine[m].issueNumber = n /\ spine[m].criterionId = <<n, j>>
    BY <1>2, Zenon
  <2> HIDE DEF n, j
  <2>3. n > 0 /\ <<n, j>>[1] = n
    BY <2>1
  <2>4. spine[m].issueNumber > 0 /\ spine[m].criterionId[1] = spine[m].issueNumber
    BY <2>2, <2>3, Zenon
  <2> QED
    BY <2>1, <2>4, Zenon DEF validateCriteriaSpineEntry
<1>6. NoDuplicates(EntryIds(spine))
  <2>1. ASSUME NEW l \in 1 .. Len(spine), NEW m \in 1 .. Len(spine),
               spine[l].criterionId = spine[m].criterionId
        PROVE  l = m
    <3>1. spine[l].criterionId[1] = spine[l].issueNumber /\ spine[m].criterionId[1] = spine[m].issueNumber
      BY <1>5, Zenon DEF validateCriteriaSpineEntry
    <3>2. K[l] = K[m]
      BY <1>4, <2>1, <3>1, Zenon
    <3> DEFINE n == specs[K[l]].issueNumber
    <3>3. spine[l].criterionId = <<n, J[l]>> /\ spine[m].criterionId = <<n, J[m]>>
      BY <1>2, <3>2, Zenon
    <3> HIDE DEF n
    <3>4. <<n, J[l]>> = <<n, J[m]>>
      BY <2>1, <3>3, Zenon
    <3>5. J[l] = J[m]
      BY <3>4
    <3> QED
      BY <3>2, <3>5, Zenon DEF Spells
  <2>2. EntryIds(spine) = [m \in 1 .. Len(spine) |-> spine[m].criterionId]
    BY <1>1, Zenon DEF EntryIds
  <2>3. \A l, m \in 1 .. Len(spine) : EntryIds(spine)[l] = EntryIds(spine)[m] => l = m
    BY <2>1, <2>2
  <2>4. DOMAIN EntryIds(spine) = 1 .. Len(spine)
    BY <2>2
  <2> QED
    BY <2>3, <2>4, Zenon DEF NoDuplicates
<1>7. NoDuplicates(EntryDigests(spine))
  <2> DEFINE both(m) == <<spine[m].issueNumber, spine[m].criterionDigest>>
  <2>1. ASSUME NEW l \in 1 .. Len(spine), NEW m \in 1 .. Len(spine), both(l) = both(m)
        PROVE  l = m
    <3>1. spine[l].issueNumber = spine[m].issueNumber /\ spine[l].criterionDigest = spine[m].criterionDigest
      BY <2>1
    <3>2. K[l] = K[m]
      BY <1>4, <3>1, Zenon
    <3> DEFINE unmet == specs[K[l]].unmetCriteria
    <3>3. /\ unmet \in Seq(CriterionText) /\ J[l] \in 1 .. Len(unmet) /\ J[m] \in 1 .. Len(unmet)
          /\ criterionOccurrenceDigest(unmet, J[l]) = criterionOccurrenceDigest(unmet, J[m])
      BY <1>2, <1>3, <3>1, <3>2, Zenon
    <3> HIDE DEF unmet
    <3>4. ~ (J[l] < J[m]) /\ ~ (J[m] < J[l])
      BY <3>3, DigestsDiffer, Zenon
    <3>5. Len(unmet) \in Nat
      BY <3>3, SeqFacts, Zenon
    <3>6. J[l] = J[m]
      BY <3>3, <3>4, <3>5
    <3> QED
      BY <3>2, <3>6, Zenon DEF Spells
  <2>2. EntryDigests(spine) = [m \in 1 .. Len(spine) |-> both(m)]
    BY <1>1, Zenon DEF EntryDigests
  <2> HIDE DEF both
  <2>3. \A l, m \in 1 .. Len(spine) : EntryDigests(spine)[l] = EntryDigests(spine)[m] => l = m
    BY <2>1, <2>2
  <2>4. DOMAIN EntryDigests(spine) = 1 .. Len(spine)
    BY <2>2
  <2> QED
    BY <2>3, <2>4, Zenon DEF NoDuplicates
<1>8. OneKindEach(spine)
  <2>1. ASSUME NEW l \in 1 .. Len(spine), NEW m \in 1 .. Len(spine),
               spine[l].issueNumber = spine[m].issueNumber
        PROVE  spine[l].kind = spine[m].kind
    <3>1. K[l] = K[m]
      BY <1>4, <2>1, Zenon
    <3>2. spine[l].kind = specs[K[l]].kind
      BY <1>2, Zenon
    <3>3. spine[m].kind = specs[K[m]].kind
      BY <1>2, Zenon
    <3> QED
      BY <3>1, <3>2, <3>3, Zenon
  <2> QED
    BY <1>1, <2>1, Zenon DEF OneKindEach
<1>9. Contiguous(spine)
  <2> SUFFICES ASSUME NEW n \in IssuesOf(spine)
               PROVE  {spine[m].criterionId[2] : m \in EntriesOf(spine, n)}
                        = 1 .. Cardinality(EntriesOf(spine, n))
    BY Zenon DEF Contiguous
  <2>1. PICK m \in 1 .. Len(spine) : spine[m].issueNumber = n
    BY <1>1, Zenon DEF IssuesOf
  <2>2. K[m] \in 1 .. Len(specs) /\ n = specs[K[m]].issueNumber
    BY <1>2, <2>1, Zenon
  <2>3. Section(spine, specs[K[m]], K[m], K, J)
    BY <2>2, SectionFacts, Zenon
  <2> QED
    BY <2>2, <2>3, Zenon DEF Section
<1> QED
  BY <1>1, <1>5, <1>6, <1>7, <1>8, <1>9, Zenon

\* A closed issue that is reported as not reviewed.
Unreviewed == [issueNumber : Nat, truncationKind : {"fully-dropped", "partially-truncated"}]

\* How UnreviewedClosing notes the members of a list.
Noted(kind, list) ==
  [k \in DOMAIN list |-> [issueNumber |-> list[k].issueNumber, truncationKind |-> kind]]

\* It notes them all, in their order, once.
NotedWell(kind, list) ==
  LET noted == Noted(kind, list)
  IN /\ noted \in Seq(Unreviewed) /\ OneEach(noted) /\ Len(noted) = Len(list)
     /\ \A k \in 1 .. Len(list) : /\ noted[k].issueNumber = list[k].issueNumber
                                  /\ noted[k].truncationKind = kind

\* So it does if no two of them are of one issue.
LEMMA NotedFacts ==
  ASSUME NEW T, NEW list \in Seq(T), OneEach(list), \A x \in T : x.issueNumber \in Nat,
         NEW kind \in {"fully-dropped", "partially-truncated"}
  PROVE  NotedWell(kind, list)
<1> DEFINE noted == Noted(kind, list)
           number(k) == list[k].issueNumber
           one(k) == [issueNumber |-> number(k), truncationKind |-> kind]
<1>1. DOMAIN list = 1 .. Len(list) /\ Len(list) \in Nat /\ \A k \in 1 .. Len(list) : list[k] \in T
  BY SeqFacts, Zenon
<1>2. \A k \in 1 .. Len(list) : number(k) \in Nat
  BY <1>1, Zenon
<1>3. noted = [k \in 1 .. Len(list) |-> one(k)]
  BY <1>1, Zenon DEF Noted
<1> HIDE DEF noted, number
<1>4. \A k \in 1 .. Len(list) :
        one(k) \in Unreviewed /\ one(k).issueNumber = number(k) /\ one(k).truncationKind = kind
  BY <1>2 DEF Unreviewed
<1> HIDE DEF one
<1>5. /\ noted \in Seq(Unreviewed) /\ Len(noted) = Len(list)
      /\ \A k \in 1 .. Len(list) : noted[k] = one(k)
  BY <1>1, <1>3, <1>4
<1>6. \A k \in 1 .. Len(list) : noted[k].issueNumber = number(k) /\ noted[k].truncationKind = kind
  BY <1>4, <1>5, Zenon
<1>7. \A h, k \in 1 .. Len(list) : number(h) = number(k) => h = k
  BY Zenon DEF OneEach, number
<1>8. \A h, k \in 1 .. Len(noted) : noted[h].issueNumber = noted[k].issueNumber => h = k
  <2> SUFFICES ASSUME NEW h \in 1 .. Len(noted), NEW k \in 1 .. Len(noted),
                      noted[h].issueNumber = noted[k].issueNumber
               PROVE  h = k
    BY Zenon
  <2>1. h \in 1 .. Len(list) /\ k \in 1 .. Len(list)
    BY <1>5, Zenon
  <2>2. noted[h].issueNumber = number(h)
    BY <1>6, <2>1, Zenon
  <2>3. noted[k].issueNumber = number(k)
    BY <1>6, <2>1, Zenon
  <2> QED
    BY <1>7, <2>1, <2>2, <2>3, Zenon
<1>9. OneEach(noted)
  BY <1>8, Zenon DEF OneEach
<1> QED
  BY <1>5, <1>6, <1>9, Zenon DEF noted, number, NotedWell

\* Two lists after each other: the members are those of both.
LEMMA BothFacts ==
  ASSUME NEW S, NEW a \in Seq(S), NEW b \in Seq(S)
  PROVE  /\ a \o b \in Seq(S)
         /\ \A i \in 1 .. Len(a \o b) : Has(a, (a \o b)[i]) \/ Has(b, (a \o b)[i])
         /\ \A x : Has(a, x) \/ Has(b, x) => Has(a \o b, x)
         /\ OneEach(a) /\ OneEach(b)
              /\ (\A i \in 1 .. Len(a) : \A j \in 1 .. Len(b) : a[i].issueNumber # b[j].issueNumber)
              => OneEach(a \o b)
<1> DEFINE ab == a \o b
           A == Len(a)
           B == Len(b)
<1>1. A \in Nat /\ B \in Nat /\ ab \in Seq(S) /\ Len(ab) = A + B
  OBVIOUS
<1>2. \A i \in 1 .. A : ab[i] = a[i]
  OBVIOUS
<1>3. \A i \in 1 .. Len(ab) : i \notin 1 .. A => i - A \in 1 .. B /\ ab[i] = b[i - A]
  OBVIOUS
<1>4. \A j \in 1 .. B : A + j \in 1 .. Len(ab) /\ ab[A + j] = b[j]
  OBVIOUS
<1>5. \A i \in 1 .. A : i \in 1 .. Len(ab)
  BY <1>1
<1> HIDE DEF ab
<1>6. \A i \in 1 .. Len(ab) : Has(a, ab[i]) \/ Has(b, ab[i])
  <2> TAKE i \in 1 .. Len(ab)
  <2>1. CASE i \in 1 .. A
    BY <1>2, <2>1, Zenon DEF Has
  <2>2. CASE i \notin 1 .. A
    BY <1>3, <2>2, Zenon DEF Has
  <2> QED
    BY <2>1, <2>2
<1>7. \A x : Has(a, x) \/ Has(b, x) => Has(ab, x)
  <2> TAKE x
  <2>1. ASSUME Has(a, x) PROVE Has(ab, x)
    BY <1>2, <1>5, <2>1, Zenon DEF Has
  <2>2. ASSUME Has(b, x) PROVE Has(ab, x)
    BY <1>4, <2>2, Zenon DEF Has
  <2> QED
    BY <2>1, <2>2
<1>8. ASSUME OneEach(a), OneEach(b),
             \A i \in 1 .. A : \A j \in 1 .. B : a[i].issueNumber # b[j].issueNumber
      PROVE  OneEach(ab)
  <2> SUFFICES ASSUME NEW h \in 1 .. Len(ab), NEW i \in 1 .. Len(ab),
                      ab[h].issueNumber = ab[i].issueNumber
               PROVE  h = i
    BY Zenon DEF OneEach
  <2>1. CASE h \in 1 .. A /\ i \in 1 .. A
    BY <1>2, <1>8, <2>1, Zenon DEF OneEach
  <2>2. CASE h \in 1 .. A /\ i \notin 1 .. A
    BY <1>2, <1>3, <1>8, <2>2, Zenon
  <2>3. CASE h \notin 1 .. A /\ i \in 1 .. A
    BY <1>2, <1>3, <1>8, <2>3, Zenon
  <2>4. CASE h \notin 1 .. A /\ i \notin 1 .. A
    <3>1. h - A \in 1 .. B /\ i - A \in 1 .. B /\ ab[h] = b[h - A] /\ ab[i] = b[i - A]
      BY <1>3, <2>4, Zenon
    <3>2. h - A = i - A
      BY <1>8, <3>1, Zenon DEF OneEach
    <3> QED
      BY <1>1, <3>2
  <2> QED
    BY <2>1, <2>2, <2>3, <2>4
<1> QED
  BY <1>1, <1>6, <1>7, <1>8, Zenon DEF ab

-----------------------------------------------------------------------------
(* What the artifact says was left out.                                    *)

\* Not everything that an issue asks for is in the spine.
Short(spine, spec) ==
  Cardinality(EntriesOf(spine, spec.issueNumber))
    < Len(spec.unmetCriteria) + spec.truncatedCriteriaCount

\* Why an issue is reported as not reviewed.
NeverFetched(references, x) ==
  /\ x.truncationKind = "fully-dropped"
  /\ x.issueNumber \in IssuesOf(references)
  /\ x.issueNumber \notin IssuesOf(selectIssuesToFetch(references))

\* It has a spec, and nothing of it is in the spine.
Dropped(specs, spine, x) ==
  /\ x.truncationKind = "fully-dropped" /\ x.issueNumber \notin IssuesOf(spine)
  /\ \E k \in 1 .. Len(specs) : specs[k].issueNumber = x.issueNumber /\ specs[k].kind = "closing"

\* Some of it is in the spine, and some is not.
Partly(specs, spine, x) ==
  /\ x.truncationKind = "partially-truncated" /\ x.issueNumber \in IssuesOf(spine)
  /\ \E k \in 1 .. Len(specs) : /\ specs[k].issueNumber = x.issueNumber
                                /\ specs[k].kind = "closing" /\ Short(spine, specs[k])

\* The issue of a member is one of the issues of the list.
LEMMA IssuesFacts ==
  ASSUME NEW S, NEW list \in Seq(S), NEW x, Has(list, x)
  PROVE  x.issueNumber \in IssuesOf(list)
<1>1. DOMAIN list = 1 .. Len(list)
  BY SeqFacts, Zenon
<1> QED
  BY <1>1, Zenon DEF IssuesOf, Has

\* A member that closes its issue is one of those that do.
LEMMA ClosingFacts ==
  ASSUME NEW S, NEW list \in Seq(S), NEW x, Has(list, x), x.kind = "closing"
  PROVE  x \in Closing(list)
<1>1. DOMAIN list = 1 .. Len(list)
  BY SeqFacts, Zenon
<1>2. x \in ToSet(list)
  BY <1>1, Zenon DEF ToSet, Has
<1> QED
  BY <1>2, Zenon DEF Closing

\* An issue is reported for one of these reasons, and whenever there is one.
LEMMA UnreviewedFacts ==
  ASSUME NEW numbers, numbers \subseteq Nat \ {0}, NEW references \in Seq(Reference(numbers)),
         OneEach(references), NEW result, result.specs \in Seq(LinkedIssueSpec(numbers)),
         OneEach(result.specs), NEW spine,
         \A k \in 1 .. Len(result.specs) :
           result.specs[k].issueNumber \in IssuesOf(selectIssuesToFetch(references))
  PROVE  LET unreviewed == UnreviewedClosing(references, result, spine)
             fetched == IssuesOf(selectIssuesToFetch(references))
         IN /\ unreviewed \in Seq(Unreviewed) /\ OneEach(unreviewed)
            /\ \A i \in 1 .. Len(unreviewed) :
                 /\ unreviewed[i].issueNumber \in numbers
                 /\ \/ NeverFetched(references, unreviewed[i])
                    \/ Dropped(result.specs, spine, unreviewed[i])
                    \/ Partly(result.specs, spine, unreviewed[i])
            /\ \A r \in 1 .. Len(references) :
                 references[r].kind = "closing" /\ references[r].issueNumber \notin fetched =>
                   references[r].issueNumber \in IssuesOf(unreviewed)
            /\ \A k \in 1 .. Len(result.specs) :
                 /\ result.specs[k].kind = "closing"
                 /\ result.specs[k].issueNumber \notin IssuesOf(spine) \/ Short(spine, result.specs[k])
                 => result.specs[k].issueNumber \in IssuesOf(unreviewed)
<1> DEFINE specs == result.specs
           fetched == IssuesOf(selectIssuesToFetch(references))
           Never == {r \in Closing(references) : r.issueNumber \notin fetched}
           Drops == {s \in Closing(specs) : s.issueNumber \notin IssuesOf(spine)}
           Cuts == {s \in Closing(specs) : s.issueNumber \in IssuesOf(spine) /\ Short(spine, s)}
           never == Only(references, Never)
           drops == Only(specs, Drops)
           cuts == Only(specs, Cuts)
           a == Noted("fully-dropped", never)
           b == Noted("fully-dropped", drops)
           c == Noted("partially-truncated", cuts)
           unreviewed == UnreviewedClosing(references, result, spine)
<1>1. unreviewed = (a \o b) \o c
  BY Zenon DEF UnreviewedClosing, Noted, Short
<1>2. specs \in Seq(LinkedIssueSpec(numbers)) /\ OneEach(specs)
  OBVIOUS
<1>3. \A k \in 1 .. Len(specs) : specs[k].issueNumber \in fetched
  OBVIOUS
<1> HIDE DEF specs, fetched, never, drops, cuts, unreviewed
<1>4. \A x \in Reference(numbers) : x.issueNumber \in numbers
  BY DEF Reference
<1>5. \A x \in LinkedIssueSpec(numbers) : x.issueNumber \in numbers
  BY DEF LinkedIssueSpec
<1>6. never \in Seq(Reference(numbers)) /\ OneEach(never)
  BY OnlyOf, OnlyOneEach, Zenon DEF never
<1>7. drops \in Seq(LinkedIssueSpec(numbers)) /\ OneEach(drops)
  BY <1>2, OnlyOf, OnlyOneEach, Zenon DEF drops
<1>8. cuts \in Seq(LinkedIssueSpec(numbers)) /\ OneEach(cuts)
  BY <1>2, OnlyOf, OnlyOneEach, Zenon DEF cuts
<1>9. \A x \in Reference(numbers) : x.issueNumber \in Nat
  BY <1>4
<1>10. \A x \in LinkedIssueSpec(numbers) : x.issueNumber \in Nat
  BY <1>5
<1>11. /\ a \in Seq(Unreviewed) /\ OneEach(a) /\ Len(a) = Len(never)
       /\ \A k \in 1 .. Len(never) : /\ a[k].issueNumber = never[k].issueNumber
                                     /\ a[k].truncationKind = "fully-dropped"
  <2>1. "fully-dropped" \in {"fully-dropped", "partially-truncated"}
    OBVIOUS
  <2>2. NotedWell("fully-dropped", never)
    BY <1>6, <1>9, <2>1, NotedFacts, Zenon
  <2> QED
    BY <2>2, Zenon DEF NotedWell
<1>12. /\ b \in Seq(Unreviewed) /\ OneEach(b) /\ Len(b) = Len(drops)
       /\ \A k \in 1 .. Len(drops) : /\ b[k].issueNumber = drops[k].issueNumber
                                     /\ b[k].truncationKind = "fully-dropped"
  <2>1. "fully-dropped" \in {"fully-dropped", "partially-truncated"}
    OBVIOUS
  <2>2. NotedWell("fully-dropped", drops)
    BY <1>7, <1>10, <2>1, NotedFacts, Zenon
  <2> QED
    BY <2>2, Zenon DEF NotedWell
<1>13. /\ c \in Seq(Unreviewed) /\ OneEach(c) /\ Len(c) = Len(cuts)
       /\ \A k \in 1 .. Len(cuts) : /\ c[k].issueNumber = cuts[k].issueNumber
                                    /\ c[k].truncationKind = "partially-truncated"
  <2>1. "partially-truncated" \in {"fully-dropped", "partially-truncated"}
    OBVIOUS
  <2>2. NotedWell("partially-truncated", cuts)
    BY <1>8, <1>10, <2>1, NotedFacts, Zenon
  <2> QED
    BY <2>2, Zenon DEF NotedWell
\* What the members of each list are.
<1>14. ASSUME NEW i \in 1 .. Len(a)
       PROVE  a[i].issueNumber \in numbers /\ a[i].issueNumber \notin fetched /\ NeverFetched(references, a[i])
  <2>1. i \in 1 .. Len(never) /\ a[i].issueNumber = never[i].issueNumber /\ a[i].truncationKind = "fully-dropped"
    BY <1>11, Zenon
  <2>2. never[i] \in Never /\ never[i] \in Reference(numbers) /\ Has(references, never[i])
    BY <2>1, OnlyOf, Zenon DEF never
  <2>3. never[i].issueNumber \in IssuesOf(references)
    BY <2>2, IssuesFacts, Zenon
  <2> QED
    BY <1>4, <2>1, <2>2, <2>3, Zenon DEF NeverFetched, fetched
<1>15. ASSUME NEW i \in 1 .. Len(b)
       PROVE  /\ b[i].issueNumber \in numbers /\ b[i].issueNumber \in fetched
              /\ b[i].issueNumber \notin IssuesOf(spine) /\ Dropped(specs, spine, b[i])
  <2>1. i \in 1 .. Len(drops) /\ b[i].issueNumber = drops[i].issueNumber /\ b[i].truncationKind = "fully-dropped"
    BY <1>12, Zenon
  <2>2. drops[i] \in Drops /\ drops[i] \in LinkedIssueSpec(numbers) /\ Has(specs, drops[i])
    BY <1>2, <2>1, OnlyOf, Zenon DEF drops
  <2>3. drops[i].kind = "closing" /\ drops[i].issueNumber \notin IssuesOf(spine)
    BY <2>2, Zenon DEF Closing
  <2>4. PICK k \in 1 .. Len(specs) : specs[k] = drops[i]
    BY <2>2, Zenon DEF Has
  <2>5. drops[i].issueNumber \in fetched
    BY <1>3, <2>4, Zenon
  <2> QED
    BY <1>5, <2>1, <2>2, <2>3, <2>4, <2>5, Zenon DEF Dropped
<1>16. ASSUME NEW i \in 1 .. Len(c)
       PROVE  /\ c[i].issueNumber \in numbers /\ c[i].issueNumber \in fetched
              /\ c[i].issueNumber \in IssuesOf(spine) /\ Partly(specs, spine, c[i])
  <2>1. i \in 1 .. Len(cuts) /\ c[i].issueNumber = cuts[i].issueNumber /\ c[i].truncationKind = "partially-truncated"
    BY <1>13, Zenon
  <2>2. cuts[i] \in Cuts /\ cuts[i] \in LinkedIssueSpec(numbers) /\ Has(specs, cuts[i])
    BY <1>2, <2>1, OnlyOf, Zenon DEF cuts
  <2>3. cuts[i].kind = "closing" /\ cuts[i].issueNumber \in IssuesOf(spine) /\ Short(spine, cuts[i])
    BY <2>2, Zenon DEF Closing
  <2>4. PICK k \in 1 .. Len(specs) : specs[k] = cuts[i]
    BY <2>2, Zenon DEF Has
  <2>5. cuts[i].issueNumber \in fetched
    BY <1>3, <2>4, Zenon
  <2> QED
    BY <1>5, <2>1, <2>2, <2>3, <2>4, <2>5, Zenon DEF Partly
<1> HIDE DEF a, b, c, Never, Drops, Cuts
<1>17. a \o b \in Seq(Unreviewed) /\ OneEach(a \o b)
  <2>1. \A i \in 1 .. Len(a) : \A j \in 1 .. Len(b) : a[i].issueNumber # b[j].issueNumber
    BY <1>14, <1>15, Zenon
  <2> QED
    BY <1>11, <1>12, <2>1, BothFacts, Zenon
<1>18. unreviewed \in Seq(Unreviewed) /\ OneEach(unreviewed)
  <2>1. ASSUME NEW i \in 1 .. Len(a \o b), NEW j \in 1 .. Len(c)
        PROVE  (a \o b)[i].issueNumber # c[j].issueNumber
    <3>1. c[j].issueNumber \in fetched /\ c[j].issueNumber \in IssuesOf(spine)
      BY <1>16, Zenon
    <3>2. Has(a, (a \o b)[i]) \/ Has(b, (a \o b)[i])
      BY <1>11, <1>12, BothFacts, Zenon
    <3>3. (a \o b)[i].issueNumber \notin fetched \/ (a \o b)[i].issueNumber \notin IssuesOf(spine)
      BY <1>14, <1>15, <3>2, Zenon DEF Has
    <3> QED
      BY <3>1, <3>3, Zenon
  <2> QED
    BY <1>1, <1>13, <1>17, <2>1, BothFacts, Zenon
<1>19. ASSUME NEW i \in 1 .. Len(unreviewed)
       PROVE  /\ unreviewed[i].issueNumber \in numbers
              /\ \/ NeverFetched(references, unreviewed[i])
                 \/ Dropped(specs, spine, unreviewed[i])
                 \/ Partly(specs, spine, unreviewed[i])
  <2>1. Has(a \o b, unreviewed[i]) \/ Has(c, unreviewed[i])
    BY <1>1, <1>13, <1>17, BothFacts, Zenon
  <2>2. CASE Has(a \o b, unreviewed[i])
    <3>1. PICK h \in 1 .. Len(a \o b) : (a \o b)[h] = unreviewed[i]
      BY <2>2, Zenon DEF Has
    <3>2. Has(a, (a \o b)[h]) \/ Has(b, (a \o b)[h])
      BY <1>11, <1>12, BothFacts, Zenon
    <3> QED
      BY <1>14, <1>15, <3>1, <3>2, Zenon DEF Has
  <2>3. CASE Has(c, unreviewed[i])
    BY <1>16, <2>3, Zenon DEF Has
  <2> QED
    BY <2>1, <2>2, <2>3
\* What is reported at least.
<1>20. ASSUME NEW x, Has(a, x) \/ Has(b, x) \/ Has(c, x)
       PROVE  x.issueNumber \in IssuesOf(unreviewed)
  <2>1. Has(a \o b, x) \/ Has(c, x)
    BY <1>11, <1>12, <1>20, BothFacts, Zenon
  <2>2. Has(unreviewed, x)
    BY <1>1, <1>13, <1>17, <2>1, BothFacts, Zenon
  <2> QED
    BY <1>18, <2>2, IssuesFacts, Zenon
<1>21. ASSUME NEW r \in 1 .. Len(references), references[r].kind = "closing",
              references[r].issueNumber \notin fetched
       PROVE  references[r].issueNumber \in IssuesOf(unreviewed)
  <2>1. Has(references, references[r])
    BY Zenon DEF Has
  <2>2. references[r] \in Never
    BY <1>21, <2>1, ClosingFacts, Zenon DEF Never
  <2>3. Has(never, references[r])
    BY <2>2, OnlyHas, Zenon DEF never
  <2>4. PICK i \in 1 .. Len(never) : never[i] = references[r]
    BY <2>3, Zenon DEF Has
  <2>5. a[i].issueNumber = references[r].issueNumber /\ Has(a, a[i])
    BY <1>11, <2>4, Zenon DEF Has
  <2> QED
    BY <1>20, <2>5, Zenon
<1>22. ASSUME NEW k \in 1 .. Len(specs), specs[k].kind = "closing",
              specs[k].issueNumber \notin IssuesOf(spine)
       PROVE  specs[k].issueNumber \in IssuesOf(unreviewed)
  <2>1. Has(specs, specs[k])
    BY Zenon DEF Has
  <2>2. specs[k] \in Drops
    BY <1>2, <1>22, <2>1, ClosingFacts, Zenon DEF Drops
  <2>3. Has(drops, specs[k])
    BY <1>2, <2>2, OnlyHas, Zenon DEF drops
  <2>4. PICK i \in 1 .. Len(drops) : drops[i] = specs[k]
    BY <2>3, Zenon DEF Has
  <2>5. b[i].issueNumber = specs[k].issueNumber /\ Has(b, b[i])
    BY <1>12, <2>4, Zenon DEF Has
  <2> QED
    BY <1>20, <2>5, Zenon
<1>23. ASSUME NEW k \in 1 .. Len(specs), specs[k].kind = "closing",
              specs[k].issueNumber \in IssuesOf(spine), Short(spine, specs[k])
       PROVE  specs[k].issueNumber \in IssuesOf(unreviewed)
  <2>1. Has(specs, specs[k])
    BY Zenon DEF Has
  <2>2. specs[k] \in Cuts
    BY <1>2, <1>23, <2>1, ClosingFacts, Zenon DEF Cuts
  <2>3. Has(cuts, specs[k])
    BY <1>2, <2>2, OnlyHas, Zenon DEF cuts
  <2>4. PICK i \in 1 .. Len(cuts) : cuts[i] = specs[k]
    BY <2>3, Zenon DEF Has
  <2>5. c[i].issueNumber = specs[k].issueNumber /\ Has(c, c[i])
    BY <1>13, <2>4, Zenon DEF Has
  <2> QED
    BY <1>20, <2>5, Zenon
<1>24. \A k \in 1 .. Len(specs) :
         /\ specs[k].kind = "closing"
         /\ specs[k].issueNumber \notin IssuesOf(spine) \/ Short(spine, specs[k])
         => specs[k].issueNumber \in IssuesOf(unreviewed)
  BY <1>22, <1>23, Zenon
<1> QED
  BY <1>18, <1>19, <1>21, <1>24, Zenon DEF specs, fetched, unreviewed

\* The issues of a list, in its order.
NumbersOf(list) == [k \in DOMAIN list |-> list[k].issueNumber]

\* The numbers of a list of issues, each once.
LEMMA NumbersFacts ==
  ASSUME NEW T, NEW list \in Seq(T), OneEach(list), NEW N, \A x \in T : x.issueNumber \in N
  PROVE  /\ NumbersOf(list) \in Seq(N) /\ NoDuplicates(NumbersOf(list))
         /\ \A k \in DOMAIN NumbersOf(list) : NumbersOf(list)[k] \in N
         /\ \A x : Has(list, x) => x.issueNumber \in ToSet(NumbersOf(list))
<1> DEFINE number(k) == list[k].issueNumber
<1>1. DOMAIN list = 1 .. Len(list) /\ Len(list) \in Nat /\ \A k \in 1 .. Len(list) : list[k] \in T
  BY SeqFacts, Zenon
<1>2. \A k \in 1 .. Len(list) : number(k) \in N
  BY <1>1, Zenon
<1>3. \A h, k \in 1 .. Len(list) : number(h) = number(k) => h = k
  BY Zenon DEF OneEach
<1>4. NumbersOf(list) = [k \in 1 .. Len(list) |-> number(k)]
  BY <1>1, Zenon DEF NumbersOf
<1>5. \A x : Has(list, x) => \E k \in 1 .. Len(list) : number(k) = x.issueNumber
  BY Zenon DEF Has
<1> HIDE DEF number
<1>6. /\ NumbersOf(list) \in Seq(N) /\ DOMAIN NumbersOf(list) = 1 .. Len(list)
      /\ \A k \in 1 .. Len(list) : NumbersOf(list)[k] = number(k)
  BY <1>1, <1>2, <1>4
<1>7. NoDuplicates(NumbersOf(list))
  <2> SUFFICES ASSUME NEW h \in 1 .. Len(list), NEW k \in 1 .. Len(list),
                      NumbersOf(list)[h] = NumbersOf(list)[k]
               PROVE  h = k
    BY <1>6, Zenon DEF NoDuplicates
  <2>1. NumbersOf(list)[h] = number(h)
    BY <1>6, Zenon
  <2>2. NumbersOf(list)[k] = number(k)
    BY <1>6, Zenon
  <2> QED
    BY <1>3, <2>1, <2>2, Zenon
<1>8. \A x : Has(list, x) => x.issueNumber \in ToSet(NumbersOf(list))
  <2> SUFFICES ASSUME NEW x, Has(list, x)
               PROVE  x.issueNumber \in ToSet(NumbersOf(list))
    BY Zenon
  <2>1. PICK k \in 1 .. Len(list) : number(k) = x.issueNumber
    BY <1>5, Zenon
  <2> QED
    BY <1>6, <2>1, Zenon DEF ToSet
<1>9. \A k \in DOMAIN NumbersOf(list) : NumbersOf(list)[k] \in N
  <2> TAKE k \in DOMAIN NumbersOf(list)
  <2>1. k \in 1 .. Len(list) /\ NumbersOf(list)[k] = number(k)
    BY <1>6, Zenon
  <2> QED
    BY <1>2, <2>1, Zenon
<1> QED
  BY <1>6, <1>7, <1>8, <1>9, Zenon

\* A line of the block.
BlockLine ==
  [line : {"preamble", "issue", "criterion", "more criteria", "blank", "more issues", "half",
           "TRUNCATED"},
   issue : Nat, index : Nat, text : Seq(SpineWord(Nat))]

\* Lists of one member, and of none.
LEMMA ShortLists ==
  ASSUME NEW S, NEW x \in S
  PROVE  <<>> \in Seq(S) /\ <<x>> \in Seq(S) /\ Len(<<x>>) = 1
OBVIOUS

\* The lines that only say what follows, or what is missing.
Marks == {"preamble", "issue", "more criteria", "blank", "more issues", "half", "TRUNCATED"}

\* Each of them is a line of the block.
LEMMA LineFacts ==
  ASSUME NEW mark \in Marks
  PROVE  /\ <<Line(mark)>> \in Seq(BlockLine) /\ <<>> \in Seq(BlockLine)
         /\ Len(<<Line(mark)>>) = 1
<1> DEFINE text == <<>>
           line == [line |-> mark, issue |-> 0, index |-> 0, text |-> text]
<1>1. text \in Seq(SpineWord(Nat))
  OBVIOUS
<1>2. Line(mark) = line
  BY Zenon DEF Line
<1> HIDE DEF text
<1>3. line \in BlockLine
  BY <1>1 DEF BlockLine, Marks
<1> HIDE DEF line
<1> QED
  BY <1>2, <1>3, ShortLists, Zenon

\* One that is there or not.
LEMMA MaybeLine ==
  ASSUME NEW mark \in Marks, NEW p
  PROVE  (IF p THEN <<Line(mark)>> ELSE <<>>) \in Seq(BlockLine)
BY LineFacts, Zenon

\* Which they are.
LEMMA MarkFacts ==
  /\ "preamble" \in Marks /\ "issue" \in Marks /\ "more criteria" \in Marks
  /\ "blank" \in Marks /\ "more issues" \in Marks /\ "half" \in Marks /\ "TRUNCATED" \in Marks
BY DEF Marks

\* What is asked for has a block, in which at least the cut is noted.
LEMMA BlockFacts ==
  ASSUME NEW numbers, numbers \subseteq Nat, NEW result,
         result.specs \in Seq(LinkedIssueSpec(numbers)), NEW budget \in Nat,
         result.specs # <<>> \/ result.truncatedIssueCount # 0
  PROVE  renderCriteriaDataBlock(result, budget) # <<>>
<1> DEFINE specs == result.specs
           lines(spec) == [i \in DOMAIN spec.unmetCriteria |->
                             CriterionLine(spec.issueNumber, i, spec.unmetCriteria[i])]
           more(spec) == IF spec.truncatedCriteriaCount > 0 THEN <<Line("more criteria")>> ELSE <<>>
           section(spec) == <<Line("issue")>> \o lines(spec) \o more(spec) \o <<Line("blank")>>
           sections == [k \in DOMAIN specs |-> section(specs[k])]
           flat == FlattenSeq(sections)
           tail == IF result.truncatedIssueCount > 0 THEN <<Line("more issues")>> ELSE <<>>
           body == <<Line("preamble")>> \o flat \o tail
           half == IF budget % 2 = 1 THEN <<Line("half")>> ELSE <<>>
           part == SubSeq(body, 1, budget \div 2)
           cut == part \o half \o <<Line("TRUNCATED")>>
           all == IF 2 * Len(body) <= budget THEN body ELSE cut
<1>1. BodyLines(result) = body
  BY Zenon DEF BodyLines
<1>2. renderCriteriaDataBlock(result, budget) = all
  BY <1>1, Zenon DEF renderCriteriaDataBlock
<1>3. ASSUME NEW spec \in LinkedIssueSpec(numbers)
      PROVE  section(spec) \in Seq(BlockLine)
  <2> DEFINE unmet == spec.unmetCriteria
             n == spec.issueNumber
             one(i) == CriterionLine(n, i, unmet[i])
  <2>1. unmet \in Seq(CriterionText) /\ n \in numbers
    BY DEF LinkedIssueSpec
  <2>2. n \in Nat
    BY <2>1, Zenon
  <2>3. /\ DOMAIN unmet = 1 .. Len(unmet) /\ Len(unmet) \in Nat
        /\ \A i \in 1 .. Len(unmet) : unmet[i] \in CriterionText
    BY <2>1, SeqFacts, Zenon
  <2>4. lines(spec) = [i \in 1 .. Len(unmet) |-> one(i)]
    BY <2>3, Zenon
  <2> HIDE DEF unmet, n
  <2>5. \A i \in 1 .. Len(unmet) : one(i) \in BlockLine
    <3> TAKE i \in 1 .. Len(unmet)
    <3> DEFINE text == unmet[i]
    <3>1. text \in CriterionText /\ i \in Nat
      BY <2>3
    <3> HIDE DEF text
    <3>2. CriterionLine(n, i, text) \in BlockLine
      BY <2>2, <3>1 DEF CriterionLine, BlockLine, CriterionText
    <3> QED
      BY <3>2, Zenon DEF text
  <2> HIDE DEF one, lines
  <2>6. lines(spec) \in Seq(BlockLine)
    BY <2>3, <2>4, <2>5
  <2>7. more(spec) \in Seq(BlockLine)
    BY MarkFacts, MaybeLine, Zenon
  <2>8. <<Line("issue")>> \in Seq(BlockLine) /\ <<Line("blank")>> \in Seq(BlockLine)
    BY MarkFacts, LineFacts, Zenon
  <2> HIDE DEF more
  <2>9. <<Line("issue")>> \o lines(spec) \in Seq(BlockLine)
    BY <2>6, <2>8, ConcatFacts, Zenon
  <2>10. <<Line("issue")>> \o lines(spec) \o more(spec) \in Seq(BlockLine)
    BY <2>7, <2>9, ConcatFacts, Zenon
  <2> QED
    BY <2>8, <2>10, ConcatFacts, Zenon
<1> HIDE DEF specs, section
<1>4. flat \in Seq(BlockLine)
  <2>1. /\ DOMAIN specs = 1 .. Len(specs) /\ Len(specs) \in Nat
        /\ \A k \in 1 .. Len(specs) : specs[k] \in LinkedIssueSpec(numbers)
    BY SeqFacts, Zenon DEF specs
  <2>2. sections \in Seq(Seq(BlockLine))
    <3>1. \A k \in 1 .. Len(specs) : section(specs[k]) \in Seq(BlockLine)
      BY <1>3, <2>1, Zenon
    <3> QED
      BY <2>1, <3>1
  <2> HIDE DEF sections
  <2> QED
    BY <2>2, FlattenFacts, Zenon
<1>5. tail \in Seq(BlockLine) /\ half \in Seq(BlockLine)
  BY MarkFacts, MaybeLine, Zenon
<1>6. /\ <<Line("preamble")>> \in Seq(BlockLine) /\ Len(<<Line("preamble")>>) = 1
      /\ <<Line("TRUNCATED")>> \in Seq(BlockLine) /\ Len(<<Line("TRUNCATED")>>) = 1
  BY MarkFacts, LineFacts, Zenon
<1> HIDE DEF flat, tail, half
<1>7. <<Line("preamble")>> \o flat \in Seq(BlockLine) /\ Len(<<Line("preamble")>> \o flat) > 0
  <2>2. /\ <<Line("preamble")>> \o flat \in Seq(BlockLine)
        /\ Len(<<Line("preamble")>> \o flat) = Len(<<Line("preamble")>>) + Len(flat)
    BY <1>4, <1>6, ConcatFacts, Zenon
  <2>3. Len(flat) \in Nat
    BY <1>4, SeqFacts, Zenon
  <2> QED
    BY <1>6, <2>2, <2>3
<1>8. body \in Seq(BlockLine) /\ Len(body) > 0
  <2>1. /\ body \in Seq(BlockLine)
        /\ Len(body) = Len(<<Line("preamble")>> \o flat) + Len(tail)
    BY <1>5, <1>7, ConcatFacts, Zenon
  <2>2. Len(tail) \in Nat /\ Len(<<Line("preamble")>> \o flat) \in Nat
    BY <1>5, <1>7, SeqFacts, Zenon
  <2> QED
    BY <1>7, <2>1, <2>2
<1> HIDE DEF body
<1>9. 2 * Len(body) > budget => cut # <<>>
  <2> SUFFICES ASSUME 2 * Len(body) > budget
               PROVE  cut # <<>>
    OBVIOUS
  <2>1. part \in Seq(BlockLine)
    <3>1. Len(body) \in Nat
      BY <1>8, SeqFacts, Zenon
    <3> DEFINE n == budget \div 2
    <3>2. n \in 0 .. Len(body)
      BY <3>1
    <3> HIDE DEF n
    <3>3. SubSeq(body, 1, n) \in Seq(BlockLine)
      BY <1>8, <3>1, <3>2
    <3> QED
      BY <3>3, Zenon DEF n
  <2> HIDE DEF part
  <2>2. part \o half \in Seq(BlockLine)
    BY <1>5, <2>1, ConcatFacts, Zenon
  <2>3. Len(cut) = Len(part \o half) + Len(<<Line("TRUNCATED")>>)
    BY <1>6, <2>2, ConcatFacts, Zenon
  <2>4. Len(part \o half) \in Nat
    BY <2>2, SeqFacts, Zenon
  <2> HIDE DEF cut
  <2>5. Len(cut) # 0
    BY <1>6, <2>3, <2>4
  <2> QED
    BY <2>5
<1>10. body # <<>>
  BY <1>8
<1>11. Len(body) \in Nat
  BY <1>8, SeqFacts, Zenon
<1> HIDE DEF cut
<1>12. all # <<>>
  BY <1>9, <1>10, <1>11
<1> QED
  BY <1>2, <1>12, Zenon

\* What the lookup of references comes to.
Looked(numbers, references, result, fetched) ==
  /\ references \in Seq(Reference(numbers)) /\ OneEach(references)
  /\ fetched \in Seq(Reference(numbers)) /\ OneEach(fetched)
  /\ \A i \in 1 .. Len(fetched) : Has(selectIssuesToFetch(references), fetched[i])
  /\ result.specs \in Seq(LinkedIssueSpec(numbers)) /\ OneEach(result.specs)
  /\ result.truncatedIssueCount = Surplus(Len(references), MAX_LINKED_ISSUES)
  /\ \A k \in 1 .. Len(result.specs) :
       /\ Len(result.specs[k].unmetCriteria) \in Nat \ {0}
       /\ \E i \in 1 .. Len(fetched) : /\ fetched[i].issueNumber = result.specs[k].issueNumber
                                       /\ fetched[i].kind = result.specs[k].kind

\* The lookup comes to that, whatever it is asked for.
LEMMA LookedFacts ==
  ASSUME NEW numbers, NEW issues \in Bodies(numbers),
         NEW references \in Seq(Reference(numbers)), OneEach(references)
  PROVE  /\ Looked(numbers, references, buildLinkedIssueSpecs(references, issues),
                   Fetched(references, issues))
         /\ buildLinkedIssueSpecs(references, issues).specs
              = IssueSpecs(Fetched(references, issues), issues)
<1> DEFINE fetched == Fetched(references, issues)
           specs == IssueSpecs(fetched, issues)
           left == Surplus(Len(references), MAX_LINKED_ISSUES)
           result == buildLinkedIssueSpecs(references, issues)
<1>1. result = [specs |-> specs, truncatedIssueCount |-> left]
  BY Zenon DEF buildLinkedIssueSpecs
<1>2. /\ fetched \in Seq(Reference(numbers)) /\ OneEach(fetched)
      /\ \A i \in 1 .. Len(fetched) : /\ Has(selectIssuesToFetch(references), fetched[i])
                                      /\ issues[fetched[i].issueNumber] \in SpineText(Nat)
  BY FetchedFacts, Zenon
<1>3. /\ specs \in Seq(LinkedIssueSpec(numbers)) /\ OneEach(specs)
      /\ \A k \in 1 .. Len(specs) :
           /\ Len(specs[k].unmetCriteria) \in Nat \ {0}
           /\ \E i \in 1 .. Len(fetched) : /\ fetched[i].issueNumber = specs[k].issueNumber
                                           /\ fetched[i].kind = specs[k].kind
  <2> HIDE DEF fetched
  <2> QED
    BY <1>2, SpecsFacts, Zenon
<1> HIDE DEF specs, left, result
<1>4. result.specs = specs /\ result.truncatedIssueCount = left
  BY <1>1
<1> HIDE DEF fetched
<1>5. Looked(numbers, references, result, fetched)
  BY <1>2, <1>3, <1>4, Zenon DEF Looked, left
<1> QED
  BY <1>4, <1>5, Zenon DEF fetched, specs, result

\* An issue is asked for and found, and closed as its spec says.
AskedFor(asked, fetched, spec) ==
  /\ spec.issueNumber \in IssuesOf(asked)
  /\ \E x : /\ Has(asked, x) /\ Has(fetched, x)
            /\ x.issueNumber = spec.issueNumber /\ x.kind = spec.kind

\* Every spec is of such an issue.
LEMMA SpecAsked ==
  ASSUME NEW numbers, NEW references, NEW result, NEW fetched,
         Looked(numbers, references, result, fetched), NEW k \in 1 .. Len(result.specs)
  PROVE  AskedFor(selectIssuesToFetch(references), fetched, result.specs[k])
<1> DEFINE asked == selectIssuesToFetch(references)
<1>1. PICK i \in 1 .. Len(fetched) : /\ fetched[i].issueNumber = result.specs[k].issueNumber
                                     /\ fetched[i].kind = result.specs[k].kind
  BY Zenon DEF Looked
<1>2. Has(fetched, fetched[i]) /\ Has(asked, fetched[i])
  BY Zenon DEF Looked, Has
<1>3. asked \in Seq(Reference(numbers))
  BY AskedFacts, Zenon DEF Looked
<1> HIDE DEF asked
<1>4. fetched[i].issueNumber \in IssuesOf(asked)
  BY <1>2, <1>3, IssuesFacts, Zenon
<1> QED
  BY <1>1, <1>2, <1>4, Zenon DEF asked, AskedFor

\* What the summary says is truncated.
LEMMA TruncationFacts ==
  ASSUME NEW references, NEW result, NEW spine
  PROVE  LET summary == computeCriteriaSpineTruncation(references, result, spine)
         IN /\ summary.truncated \in BOOLEAN
            /\ result.truncatedIssueCount > 0 => summary.truncated
            /\ \A k \in DOMAIN result.specs :
                 result.specs[k].truncatedCriteriaCount > 0 => summary.truncated
            /\ Len(spine) < Shown(result.specs) => summary.truncated
            /\ summary.unreviewedClosingIssues = UnreviewedClosing(references, result, spine)
<1> DEFINE cut == \/ result.truncatedIssueCount > 0
                  \/ \E k \in DOMAIN result.specs : result.specs[k].truncatedCriteriaCount > 0
                  \/ Len(spine) < Shown(result.specs)
           unreviewed == UnreviewedClosing(references, result, spine)
           summary == computeCriteriaSpineTruncation(references, result, spine)
<1>1. summary = [truncated |-> cut, unreviewedClosingIssues |-> unreviewed]
  BY Zenon DEF computeCriteriaSpineTruncation, Shown
<1>2. cut \in BOOLEAN
  OBVIOUS
<1>3. /\ result.truncatedIssueCount > 0 => cut
      /\ \A k \in DOMAIN result.specs : result.specs[k].truncatedCriteriaCount > 0 => cut
      /\ Len(spine) < Shown(result.specs) => cut
  BY Zenon
<1> HIDE DEF cut, unreviewed, summary
<1>4. summary.truncated = cut /\ summary.unreviewedClosingIssues = unreviewed
  BY <1>1
<1> QED
  BY <1>2, <1>3, <1>4, Zenon DEF summary, unreviewed

\* The spine has all that an issue asks for.
Whole(spine, specs, k, K, J) ==
  /\ specs[k].truncatedCriteriaCount = 0
  /\ \A j \in 1 .. Len(specs[k].unmetCriteria) :
       \E m \in 1 .. Len(spine) : K[m] = k /\ J[m] = j

\* An issue is not short if its section is as long as what it asks for; what is short is
\* cut, by the count or by the budget.
LEMMA SectionShort ==
  ASSUME NEW numbers, NEW specs \in Seq(LinkedIssueSpec(numbers)), OneEach(specs),
         NEW spine \in Seq(SpineEntry), NEW K, NEW J, Spells(spine, specs, K, J),
         NEW k \in 1 .. Len(specs), Len(specs[k].unmetCriteria) \in Nat \ {0}
  PROVE  /\ specs[k].truncatedCriteriaCount \in Nat
         /\ Short(spine, specs[k]) =>
              specs[k].truncatedCriteriaCount > 0 \/ ~SpellsAll(spine, specs, K, J)
         /\ ~Short(spine, specs[k]) => Whole(spine, specs, k, K, J)
         /\ specs[k].issueNumber \notin IssuesOf(spine) => ~SpellsAll(spine, specs, K, J)
<1> DEFINE own == EntriesOf(spine, specs[k].issueNumber)
           c == Cardinality(own)
           n == Len(specs[k].unmetCriteria)
           left == specs[k].truncatedCriteriaCount
<1>1. /\ own = {m \in 1 .. Len(spine) : K[m] = k} /\ c \in Nat
      /\ \A m \in own : J[m] \in 1 .. c
      /\ \A j \in 1 .. c : \E m \in own : J[m] = j
  <2>1. Section(spine, specs[k], k, K, J)
    BY SectionFacts, Zenon
  <2> QED
    BY <2>1, Zenon DEF Section
<1>2. left \in Nat
  <2>1. specs[k] \in LinkedIssueSpec(numbers)
    BY SeqFacts, Zenon
  <2> QED
    BY <2>1 DEF LinkedIssueSpec
<1>3. \A m \in 1 .. Len(spine) : K[m] = k => J[m] \in 1 .. n
  BY Zenon DEF Spells
<1>4. Short(spine, specs[k]) <=> c < n + left
  BY Zenon DEF Short
<1>5. SpellsAll(spine, specs, K, J) => \A j \in 1 .. n : \E m \in 1 .. Len(spine) : K[m] = k /\ J[m] = j
  BY Zenon DEF SpellsAll
<1>6. own = {} => specs[k].issueNumber \notin IssuesOf(spine)
  BY Zenon DEF EntriesOf, IssuesOf
<1>7. specs[k].issueNumber \notin IssuesOf(spine) => own = {}
  BY Zenon DEF EntriesOf, IssuesOf
<1>8. n \in Nat \ {0}
  OBVIOUS
<1> HIDE DEF own, c, n, left
<1>9. c <= n
  <2>1. CASE c = 0
    BY <1>8, <2>1
  <2>2. CASE c # 0
    <3>1. c \in 1 .. c
      BY <1>1, <2>2
    <3>2. PICK m \in own : J[m] = c
      BY <1>1, <3>1, Zenon
    <3>3. c \in 1 .. n
      BY <1>1, <1>3, <3>2
    <3> QED
      BY <1>8, <3>3
  <2> QED
    BY <2>1, <2>2
<1>10. SpellsAll(spine, specs, K, J) => c >= n /\ own # {}
  <2> SUFFICES ASSUME SpellsAll(spine, specs, K, J)
               PROVE  c >= n /\ own # {}
    OBVIOUS
  <2>1. n \in 1 .. n
    BY <1>8
  <2>2. PICK m \in 1 .. Len(spine) : K[m] = k /\ J[m] = n
    BY <1>5, <2>1, Zenon
  <2>3. m \in own
    BY <1>1, <2>2
  <2>4. n \in 1 .. c
    BY <1>1, <2>2, <2>3
  <2> QED
    BY <1>1, <2>3, <2>4
<1>11. c < n + left => left > 0 \/ ~SpellsAll(spine, specs, K, J)
  BY <1>1, <1>2, <1>8, <1>10
<1>12. ~(c < n + left) => left = 0 /\ c = n
  BY <1>1, <1>2, <1>8, <1>9
<1>13. ASSUME ~(c < n + left)
       PROVE  left = 0 /\ \A j \in 1 .. n : \E m \in 1 .. Len(spine) : K[m] = k /\ J[m] = j
  <2>1. left = 0 /\ c = n
    BY <1>12, <1>13
  <2>2. \A j \in 1 .. n : \E m \in 1 .. Len(spine) : K[m] = k /\ J[m] = j
    <3> TAKE j \in 1 .. n
    <3>1. PICK m \in own : J[m] = j
      BY <1>1, <2>1, Zenon
    <3> QED
      BY <1>1, <3>1
  <2> QED
    BY <2>1, <2>2
<1>14. specs[k].issueNumber \notin IssuesOf(spine) => ~SpellsAll(spine, specs, K, J)
  BY <1>7, <1>10
<1> QED
  BY <1>2, <1>4, <1>11, <1>13, <1>14, Zenon DEF n, left, Whole

\* The artifact that is written, and its parts.
Answer(references, result, spine, fetched) ==
  LET summary == computeCriteriaSpineTruncation(references, result, spine)
  IN [entries |-> spine, truncated |-> summary.truncated,
      unreviewedClosingIssues |-> summary.unreviewedClosingIssues,
      reviewedClosingIssueNumbers |-> computeReviewedClosingIssueNumbers(references),
      linkedIssueProvenance |-> NumbersOf(fetched)]

\* The artifact has these parts.
Answers(a, references, result, spine, fetched) ==
  /\ a.entries = spine
  /\ a.truncated = computeCriteriaSpineTruncation(references, result, spine).truncated
  /\ a.unreviewedClosingIssues = UnreviewedClosing(references, result, spine)
  /\ a.reviewedClosingIssueNumbers = computeReviewedClosingIssueNumbers(references)
  /\ a.linkedIssueProvenance = NumbersOf(fetched)

\* The one that is written has.
LEMMA AnswerFacts ==
  ASSUME NEW references, NEW result, NEW spine, NEW fetched
  PROVE  Answers(Answer(references, result, spine, fetched), references, result, spine, fetched)
<1> DEFINE summary == computeCriteriaSpineTruncation(references, result, spine)
           truncated == summary.truncated
           unreviewed == summary.unreviewedClosingIssues
           reviewed == computeReviewedClosingIssueNumbers(references)
           provenance == NumbersOf(fetched)
           a == Answer(references, result, spine, fetched)
<1>1. a = [entries |-> spine, truncated |-> truncated, unreviewedClosingIssues |-> unreviewed,
           reviewedClosingIssueNumbers |-> reviewed, linkedIssueProvenance |-> provenance]
  BY Zenon DEF Answer
<1>2. unreviewed = UnreviewedClosing(references, result, spine)
  BY TruncationFacts, Zenon
<1> HIDE DEF truncated, unreviewed, reviewed, provenance, a
<1>3. /\ a.entries = spine /\ a.truncated = truncated /\ a.unreviewedClosingIssues = unreviewed
      /\ a.reviewedClosingIssueNumbers = reviewed /\ a.linkedIssueProvenance = provenance
  BY <1>1
<1> QED
  BY <1>2, <1>3, Zenon DEF a, truncated, reviewed, provenance, Answers

\* The closed issues that are asked for.
LEMMA ReviewedFacts ==
  ASSUME NEW numbers, numbers \subseteq Nat \ {0}, NEW references \in Seq(Reference(numbers)),
         OneEach(references)
  PROVE  LET reviewed == computeReviewedClosingIssueNumbers(references)
         IN /\ reviewed \in Seq(numbers) /\ NoDuplicates(reviewed)
            /\ \A k \in DOMAIN reviewed : reviewed[k] \in numbers
            /\ \A x : Has(selectIssuesToFetch(references), x) /\ x.kind = "closing" =>
                        x.issueNumber \in ToSet(reviewed)
<1> DEFINE asked == selectIssuesToFetch(references)
           closing == Only(asked, Closing(asked))
           reviewed == computeReviewedClosingIssueNumbers(references)
<1>1. reviewed = NumbersOf(closing)
  BY Zenon DEF computeReviewedClosingIssueNumbers, NumbersOf
<1>2. asked \in Seq(Reference(numbers)) /\ OneEach(asked)
  BY AskedFacts, AskedOneEach, Zenon
<1> HIDE DEF asked, reviewed
<1>3. closing \in Seq(Reference(numbers)) /\ OneEach(closing)
  BY <1>2, OnlyOf, OnlyOneEach, Zenon
<1>4. \A x : Has(asked, x) /\ x.kind = "closing" => Has(closing, x)
  <2> SUFFICES ASSUME NEW x, Has(asked, x), x.kind = "closing"
               PROVE  Has(closing, x)
    BY Zenon
  <2>1. x \in Closing(asked)
    BY <1>2, ClosingFacts, Zenon
  <2>2. PICK k \in 1 .. Len(asked) : asked[k] = x
    BY Zenon DEF Has
  <2> QED
    BY <1>2, <2>1, <2>2, OnlyHas, Zenon
<1> HIDE DEF closing
<1>5. \A x \in Reference(numbers) : x.issueNumber \in numbers
  BY DEF Reference
<1>6. /\ NumbersOf(closing) \in Seq(numbers) /\ NoDuplicates(NumbersOf(closing))
      /\ \A k \in DOMAIN NumbersOf(closing) : NumbersOf(closing)[k] \in numbers
      /\ \A x : Has(closing, x) => x.issueNumber \in ToSet(NumbersOf(closing))
  BY <1>3, <1>5, NumbersFacts, Zenon
<1> QED
  BY <1>1, <1>4, <1>6, Zenon DEF asked, reviewed

\* References are not asked for only when there are too many.
LEMMA NeverAsked ==
  ASSUME NEW numbers, NEW references \in Seq(Reference(numbers)), NEW n \in IssuesOf(references),
         n \notin IssuesOf(selectIssuesToFetch(references))
  PROVE  Surplus(Len(references), MAX_LINKED_ISSUES) # 0
<1>1. /\ Len(references) <= MAX_LINKED_ISSUES =>
           Len(selectIssuesToFetch(references)) = Len(references)
      /\ \A i \in 1 .. Len(selectIssuesToFetch(references)) :
           selectIssuesToFetch(references)[i] = references[i]
      /\ selectIssuesToFetch(references) \in Seq(Reference(numbers))
  BY AskedFacts, Zenon
<1>2. /\ DOMAIN references = 1 .. Len(references) /\ Len(references) \in Nat
      /\ DOMAIN selectIssuesToFetch(references) = 1 .. Len(selectIssuesToFetch(references))
  BY <1>1, SeqFacts, Zenon
<1>3. ~(Len(references) <= MAX_LINKED_ISSUES)
  BY <1>1, <1>2, Zenon DEF IssuesOf
<1>4. MAX_LINKED_ISSUES \in Nat
  BY SpineAssumption
<1> DEFINE len == Len(references)
<1>5. len \in Nat /\ ~(len <= MAX_LINKED_ISSUES)
  BY <1>2, <1>3, Zenon
<1> HIDE DEF len
<1>6. Surplus(len, MAX_LINKED_ISSUES) # 0
  BY <1>4, <1>5 DEF Surplus
<1> QED
  BY <1>6, Zenon DEF len

\* What is left unreviewed is said to be truncated.
LEMMA UnreviewedCut ==
  ASSUME NEW numbers, numbers \subseteq Nat \ {0}, NEW references, NEW result, NEW fetched,
         Looked(numbers, references, result, fetched),
         NEW spine \in Seq(SpineEntry), NEW K, NEW J, Spells(spine, result.specs, K, J),
         Shown(result.specs) \in Nat, Len(spine) <= Shown(result.specs),
         Len(spine) = Shown(result.specs) => SpellsAll(spine, result.specs, K, J)
  PROVE  LET truncated == computeCriteriaSpineTruncation(references, result, spine).truncated
         IN /\ \A x : \/ NeverFetched(references, x)
                      \/ Dropped(result.specs, spine, x)
                      \/ Partly(result.specs, spine, x)
                      => truncated
            /\ spine = <<>> /\ result.specs # <<>> => truncated
            /\ result.truncatedIssueCount # 0 => truncated
<1> DEFINE truncated == computeCriteriaSpineTruncation(references, result, spine).truncated
           specs == result.specs
<1>1. /\ specs \in Seq(LinkedIssueSpec(numbers)) /\ OneEach(specs)
      /\ \A k \in 1 .. Len(specs) : Len(specs[k].unmetCriteria) \in Nat \ {0}
  BY Zenon DEF Looked
<1>2. /\ Spells(spine, specs, K, J) /\ Shown(specs) \in Nat /\ Len(spine) <= Shown(specs)
      /\ Len(spine) = Shown(specs) => SpellsAll(spine, specs, K, J)
  BY Zenon
<1>3. /\ result.truncatedIssueCount > 0 => truncated
      /\ \A k \in DOMAIN specs : specs[k].truncatedCriteriaCount > 0 => truncated
      /\ Len(spine) < Shown(specs) => truncated
  BY TruncationFacts, Zenon
<1>4. /\ references \in Seq(Reference(numbers))
      /\ result.truncatedIssueCount = Surplus(Len(references), MAX_LINKED_ISSUES)
  BY Zenon DEF Looked
<1> HIDE DEF specs, truncated
<1>5. ~SpellsAll(spine, specs, K, J) => truncated
  <2>1. Len(spine) \in Nat
    BY SeqFacts, Zenon
  <2> QED
    BY <1>2, <1>3, <2>1
<1>6. DOMAIN specs = 1 .. Len(specs)
  BY <1>1, SeqFacts, Zenon
<1>7. ASSUME NEW k \in 1 .. Len(specs)
      PROVE  /\ Short(spine, specs[k]) => truncated
             /\ specs[k].issueNumber \notin IssuesOf(spine) => truncated
  <2>1. /\ Short(spine, specs[k]) =>
             specs[k].truncatedCriteriaCount > 0 \/ ~SpellsAll(spine, specs, K, J)
        /\ specs[k].issueNumber \notin IssuesOf(spine) => ~SpellsAll(spine, specs, K, J)
    BY <1>1, <1>2, SectionShort, Zenon
  <2> QED
    BY <1>3, <1>5, <1>6, <2>1, Zenon
<1>8. Len(references) \in Nat /\ MAX_LINKED_ISSUES \in Nat
  <2>1. Len(references) \in Nat
    BY <1>4, SeqFacts, Zenon
  <2> QED
    BY <2>1, SpineAssumption
<1>9. result.truncatedIssueCount # 0 => truncated
  <2> DEFINE left == Surplus(Len(references), MAX_LINKED_ISSUES)
  <2>1. left # 0 => left > 0
    BY <1>8 DEF Surplus
  <2> HIDE DEF left
  <2> QED
    BY <1>3, <1>4, <2>1, Zenon DEF left
<1>10. ASSUME NEW x, NeverFetched(references, x)
       PROVE  truncated
  <2>1. Surplus(Len(references), MAX_LINKED_ISSUES) # 0
    BY <1>4, <1>10, NeverAsked, Zenon DEF NeverFetched
  <2> QED
    BY <1>4, <1>9, <2>1, Zenon
<1>11. ASSUME NEW x, Dropped(specs, spine, x)
       PROVE  truncated
  <2>1. PICK k \in 1 .. Len(specs) : specs[k].issueNumber = x.issueNumber
    BY <1>11, Zenon DEF Dropped
  <2>2. specs[k].issueNumber \notin IssuesOf(spine)
    BY <1>11, <2>1, Zenon DEF Dropped
  <2> QED
    BY <1>7, <2>2, Zenon
<1>12. ASSUME NEW x, Partly(specs, spine, x)
       PROVE  truncated
  <2>1. PICK k \in 1 .. Len(specs) : Short(spine, specs[k])
    BY <1>12, Zenon DEF Partly
  <2> QED
    BY <1>7, <2>1, Zenon
<1>13. spine = <<>> /\ specs # <<>> => truncated
  <2> SUFFICES ASSUME spine = <<>>, specs # <<>>
               PROVE  truncated
    BY Zenon
  <2>1. 1 \in 1 .. Len(specs)
    BY <1>1
  <2>2. specs[1].issueNumber \notin IssuesOf(spine)
    <3>1. DOMAIN spine = {}
      OBVIOUS
    <3> QED
      BY <3>1, Zenon DEF IssuesOf
  <2> QED
    BY <1>7, <2>1, <2>2, Zenon
<1> QED
  BY <1>9, <1>10, <1>11, <1>12, <1>13, Zenon DEF specs, truncated

-----------------------------------------------------------------------------
(* The publisher accepts what the runner writes.                           *)

\* A list of members of S is one of members of a larger set.
LEMMA WiderSeq ==
  ASSUME NEW S, NEW T, S \subseteq T, NEW s \in Seq(S)
  PROVE  s \in Seq(T)
OBVIOUS

\* An artifact, of which all parts are in order, passes.
LEMMA AnswerTyped ==
  ASSUME NEW references, NEW result, NEW spine \in Seq(SpineEntry), NEW fetched,
         UnreviewedClosing(references, result, spine) \in Seq(Unreviewed),
         computeReviewedClosingIssueNumbers(references) \in Seq(Nat),
         NumbersOf(fetched) \in Seq(Nat)
  PROVE  Answer(references, result, spine, fetched) # None
<1> DEFINE summary == computeCriteriaSpineTruncation(references, result, spine)
           truncated == summary.truncated
           unreviewed == summary.unreviewedClosingIssues
           reviewed == computeReviewedClosingIssueNumbers(references)
           provenance == NumbersOf(fetched)
           a == Answer(references, result, spine, fetched)
<1>1. a = [entries |-> spine, truncated |-> truncated, unreviewedClosingIssues |-> unreviewed,
           reviewedClosingIssueNumbers |-> reviewed, linkedIssueProvenance |-> provenance]
  BY Zenon DEF Answer
<1>2. truncated \in BOOLEAN /\ unreviewed \in Seq(Unreviewed)
  BY TruncationFacts, Zenon
<1>3. reviewed \in Seq(Nat) /\ provenance \in Seq(Nat)
  OBVIOUS
<1> HIDE DEF truncated, unreviewed, reviewed, provenance, a
<1>4. CriteriaSpineArtifact =
        [entries : Seq(SpineEntry), truncated : BOOLEAN,
         unreviewedClosingIssues : Seq(Unreviewed),
         reviewedClosingIssueNumbers : Seq(Nat), linkedIssueProvenance : Seq(Nat)]
  BY Zenon DEF CriteriaSpineArtifact, SpineEntry, Unreviewed, CriterionText
<1>5. a \in CriteriaSpineArtifact
  BY <1>1, <1>2, <1>3, <1>4
<1> QED
  BY <1>5, SpineAssumption, Zenon DEF a


\* So does the one that is written, once the lookup came to what it does.
LEMMA ReviewAccepted ==
  ASSUME NEW numbers, numbers \subseteq Nat \ {0}, NEW references, NEW result, NEW fetched,
         Looked(numbers, references, result, fetched), NEW budget \in Nat
  PROVE  LET block == renderCriteriaDataBlock(result, budget)
             spine == buildCriteriaSpine(result, block)
             a == Answer(references, result, spine, fetched)
         IN a # None /\ (block # <<>> => parseCriteriaSpineArtifact(a))
<1> DEFINE block == renderCriteriaDataBlock(result, budget)
           spine == buildCriteriaSpine(result, block)
           a == Answer(references, result, spine, fetched)
           specs == result.specs
           asked == selectIssuesToFetch(references)
           truncated == computeCriteriaSpineTruncation(references, result, spine).truncated
           unreviewed == UnreviewedClosing(references, result, spine)
           reviewed == computeReviewedClosingIssueNumbers(references)
           provenance == NumbersOf(fetched)
<1>1. numbers \subseteq Nat
  OBVIOUS
<1>2. result.specs \in Seq(LinkedIssueSpec(numbers))
  BY Zenon DEF Looked
<1>3. /\ spine \in Seq(SpineEntry) /\ Len(spine) \in Nat /\ DOMAIN spine = 1 .. Len(spine)
      /\ Shown(result.specs) \in Nat /\ Len(spine) <= Shown(result.specs)
      /\ \E K, J : /\ Spells(spine, result.specs, K, J)
                   /\ Len(spine) = Shown(result.specs) => SpellsAll(spine, result.specs, K, J)
  <2> HIDE DEF block
  <2> QED
    BY <1>1, <1>2, SpineFacts, Zenon
<1> HIDE DEF spine, block
<1>4. PICK K, J : /\ Spells(spine, specs, K, J)
                  /\ Len(spine) = Shown(specs) => SpellsAll(spine, specs, K, J)
  BY <1>3, Zenon
<1>5. /\ references \in Seq(Reference(numbers)) /\ OneEach(references)
      /\ fetched \in Seq(Reference(numbers)) /\ OneEach(fetched)
      /\ specs \in Seq(LinkedIssueSpec(numbers)) /\ OneEach(specs)
  BY Zenon DEF Looked
<1>6. /\ \A m \in DOMAIN spine : validateCriteriaSpineEntry(spine[m])
      /\ NoDuplicates(EntryIds(spine)) /\ NoDuplicates(EntryDigests(spine))
      /\ OneKindEach(spine) /\ Contiguous(spine)
  BY <1>3, <1>4, <1>5, SpineAccepted, Zenon
\* What is left out.
<1>7. /\ unreviewed \in Seq(Unreviewed) /\ OneEach(unreviewed)
      /\ \A i \in 1 .. Len(unreviewed) :
           /\ unreviewed[i].issueNumber \in numbers
           /\ \/ NeverFetched(references, unreviewed[i])
              \/ Dropped(specs, spine, unreviewed[i])
              \/ Partly(specs, spine, unreviewed[i])
  <2>1. \A k \in 1 .. Len(result.specs) : result.specs[k].issueNumber \in IssuesOf(asked)
    BY SpecAsked, Zenon DEF AskedFor
  <2> QED
    BY <1>5, <2>1, UnreviewedFacts, Zenon
<1>8. /\ \A x : \/ NeverFetched(references, x)
                \/ Dropped(specs, spine, x)
                \/ Partly(specs, spine, x)
                => truncated
      /\ spine = <<>> /\ specs # <<>> => truncated
      /\ result.truncatedIssueCount # 0 => truncated
  BY <1>3, <1>4, UnreviewedCut, Zenon
\* Which issues are said to be reviewed, and found.
<1>9. /\ reviewed \in Seq(numbers) /\ NoDuplicates(reviewed)
      /\ \A k \in DOMAIN reviewed : reviewed[k] \in numbers
      /\ \A x : Has(asked, x) /\ x.kind = "closing" => x.issueNumber \in ToSet(reviewed)
  BY <1>5, ReviewedFacts, Zenon
<1>10. /\ provenance \in Seq(numbers) /\ NoDuplicates(provenance)
       /\ \A x : Has(fetched, x) => x.issueNumber \in ToSet(provenance)
  <2>1. \A x \in Reference(numbers) : x.issueNumber \in numbers
    BY DEF Reference
  <2> QED
    BY <1>5, <2>1, NumbersFacts, Zenon
<1>11. a # None
  <2>1. reviewed \in Seq(Nat) /\ provenance \in Seq(Nat)
    BY <1>1, <1>9, <1>10, WiderSeq, Zenon
  <2> QED
    BY <1>3, <1>7, <2>1, AnswerTyped, Zenon
<1>12. /\ a.entries = spine /\ a.truncated = truncated /\ a.unreviewedClosingIssues = unreviewed
       /\ a.reviewedClosingIssueNumbers = reviewed /\ a.linkedIssueProvenance = provenance
  <2>1. Answers(a, references, result, spine, fetched)
    BY AnswerFacts, Zenon
  <2> HIDE DEF a
  <2> QED
    BY <2>1, Zenon DEF Answers
<1>13. DOMAIN unreviewed = 1 .. Len(unreviewed)
  BY <1>7, SeqFacts, Zenon
<1> HIDE DEF asked, truncated, unreviewed, reviewed, provenance
<1>14. ASSUME NEW m \in DOMAIN spine
       PROVE  /\ K[m] \in 1 .. Len(specs) /\ specs[K[m]].issueNumber = spine[m].issueNumber
              /\ specs[K[m]].kind = spine[m].kind
  BY <1>3, <1>4, Zenon DEF Spells
<1>15. ASSUME NEW k \in 1 .. Len(specs)
       PROVE  /\ specs[k].issueNumber \in ToSet(provenance)
              /\ specs[k].kind = "closing" => specs[k].issueNumber \in ToSet(reviewed)
  <2>1. PICK x : /\ Has(asked, x) /\ Has(fetched, x)
                 /\ x.issueNumber = specs[k].issueNumber /\ x.kind = specs[k].kind
    <3>1. AskedFor(asked, fetched, specs[k])
      BY SpecAsked, Zenon DEF asked
    <3> QED
      BY <3>1, Zenon DEF AskedFor
  <2>2. x.issueNumber \in ToSet(provenance)
    BY <1>10, <2>1, Zenon
  <2>3. x.kind = "closing" => x.issueNumber \in ToSet(reviewed)
    BY <1>9, <2>1, Zenon
  <2> QED
    BY <2>1, <2>2, <2>3, Zenon
<1>16. ASSUME NEW i \in 1 .. Len(unreviewed)
       PROVE  /\ validateUnreviewedClosingIssue(unreviewed[i]) /\ AgreesWith(spine, unreviewed[i])
              /\ truncated
              /\ unreviewed[i].truncationKind = "partially-truncated" =>
                   unreviewed[i].issueNumber \in ToSet(reviewed)
  <2> DEFINE x == unreviewed[i]
             n == x.issueNumber
             kind == x.truncationKind
  <2>1. /\ n \in numbers
        /\ NeverFetched(references, x) \/ Dropped(specs, spine, x) \/ Partly(specs, spine, x)
    BY <1>7, Zenon
  <2>2. truncated
    BY <1>8, <2>1, Zenon
  <2>3. n > 0
    <3> HIDE DEF n
    <3> QED
      BY <2>1
  <2>4. CASE NeverFetched(references, x)
    <3>1. kind = "fully-dropped" /\ n \notin IssuesOf(asked)
      BY <2>4, Zenon DEF NeverFetched, asked
    <3>2. \A k \in 1 .. Len(specs) : specs[k].issueNumber \in IssuesOf(asked)
      <4> TAKE k \in 1 .. Len(specs)
      <4>1. AskedFor(asked, fetched, specs[k])
        BY SpecAsked, Zenon DEF asked
      <4> QED
        BY <4>1, Zenon DEF AskedFor
    <3>3. n \notin IssuesOf(spine)
      <4>1. ASSUME NEW m \in DOMAIN spine
            PROVE  spine[m].issueNumber # n
        <5>1. specs[K[m]].issueNumber \in IssuesOf(asked)
          BY <1>14, <3>2, Zenon
        <5> QED
          BY <1>14, <3>1, <5>1, Zenon
      <4> QED
        BY <4>1, Zenon DEF IssuesOf
    <3>4. kind # "partially-truncated"
      BY <3>1
    <3> QED
      BY <2>2, <2>3, <3>1, <3>3, <3>4, Zenon DEF AgreesWith, validateUnreviewedClosingIssue
  <2>5. CASE Dropped(specs, spine, x)
    <3>1. kind = "fully-dropped" /\ n \notin IssuesOf(spine)
      BY <2>5, Zenon DEF Dropped
    <3>2. kind # "partially-truncated"
      BY <3>1
    <3> QED
      BY <2>2, <2>3, <3>1, <3>2, Zenon DEF AgreesWith, validateUnreviewedClosingIssue
  <2>6. CASE Partly(specs, spine, x)
    <3>1. kind = "partially-truncated" /\ n \in IssuesOf(spine)
      BY <2>6, Zenon DEF Partly
    <3>2. PICK k \in 1 .. Len(specs) : specs[k].issueNumber = n /\ specs[k].kind = "closing"
      BY <2>6, Zenon DEF Partly
    <3>3. ASSUME NEW m \in EntriesOf(spine, n)
          PROVE  spine[m].kind = "closing"
      <4>1. m \in DOMAIN spine /\ spine[m].issueNumber = n
        BY Zenon DEF EntriesOf
      <4>2. K[m] = k
        <5>1. K[m] \in 1 .. Len(specs) /\ specs[K[m]].issueNumber = specs[k].issueNumber
          BY <1>14, <3>2, <4>1, Zenon
        <5> QED
          BY <1>5, <5>1, Zenon DEF OneEach
      <4> QED
        BY <1>14, <3>2, <4>1, <4>2, Zenon
    <3>4. kind # "fully-dropped"
      BY <3>1
    <3>5. n \in ToSet(reviewed)
      BY <1>15, <3>2, Zenon
    <3> QED
      BY <2>2, <2>3, <3>1, <3>3, <3>4, <3>5, Zenon DEF AgreesWith, validateUnreviewedClosingIssue
  <2> QED
    BY <2>1, <2>4, <2>5, <2>6
<1>17. NoDuplicates([k \in DOMAIN unreviewed |-> unreviewed[k].issueNumber])
  <2>1. \A x \in Unreviewed : x.issueNumber \in Nat
    BY DEF Unreviewed
  <2>2. NoDuplicates(NumbersOf(unreviewed))
    BY <1>7, <2>1, NumbersFacts, Zenon
  <2> QED
    BY <2>2, Zenon DEF NumbersOf
<1>18. \A k \in DOMAIN reviewed : reviewed[k] > 0
  <2> TAKE k \in DOMAIN reviewed
  <2> DEFINE n == reviewed[k]
  <2>1. n \in numbers
    BY <1>9, Zenon
  <2> HIDE DEF n
  <2>2. n > 0
    BY <2>1
  <2> QED
    BY <2>2, Zenon DEF n
<1>19. ToSet(unreviewed) = {unreviewed[i] : i \in 1 .. Len(unreviewed)}
  BY <1>13, Zenon DEF ToSet
<1>20. IssuesOf(spine) \subseteq ToSet(provenance)
  BY <1>14, <1>15, Zenon DEF IssuesOf
<1>21. \A m \in DOMAIN spine : spine[m].kind = "closing" => spine[m].issueNumber \in ToSet(reviewed)
  BY <1>14, <1>15, Zenon
<1>22. block # <<>> /\ spine = <<>> => truncated
  <2>1. block # <<>> => specs # <<>> \/ result.truncatedIssueCount # 0
    BY Zenon DEF block, renderCriteriaDataBlock
  <2> QED
    BY <1>8, <2>1, Zenon
<1> HIDE DEF a
<1>23. ASSUME block # <<>>
       PROVE  validateCrossEntryInvariants(a)
  <2>1. /\ \A u \in ToSet(unreviewed) : AgreesWith(spine, u)
        /\ ToSet(unreviewed) # {} => truncated
        /\ \A u \in ToSet(unreviewed) :
             u.truncationKind = "partially-truncated" => u.issueNumber \in ToSet(reviewed)
    BY <1>16, <1>19, Zenon
  <2> QED
    BY <1>6, <1>12, <1>20, <1>21, <1>22, <1>23, <2>1, Zenon DEF validateCrossEntryInvariants
<1>24. ASSUME block # <<>>
       PROVE  parseCriteriaSpineArtifact(a)
  BY <1>6, <1>9, <1>10, <1>12, <1>13, <1>16, <1>17, <1>18, <1>23, <1>24, Zenon
     DEF parseCriteriaSpineArtifact
<1> QED
  BY <1>11, <1>24, Zenon DEF a, block, spine

\* The references of a proper pull request.
LEMMA ProperFacts ==
  ASSUME NEW pr, NEW issues, NEW budget, ProperInput(pr, issues, budget)
  PROVE  LET numbers == DOMAIN issues
         IN /\ numbers \subseteq Nat \ {0} /\ issues \in Bodies(numbers)
            /\ pr.body \in SpineText(numbers) /\ pr.sources \in Seq(Seq(SpineLine(numbers)))
            /\ budget \in Nat
            /\ parseLinkedIssueReferences(pr.body, pr.sources) \in Seq(Reference(numbers))
            /\ OneEach(parseLinkedIssueReferences(pr.body, pr.sources))
<1> DEFINE numbers == DOMAIN issues
           body == pr.body
           sources == pr.sources
<1>1. numbers \subseteq Nat \ {0} /\ issues \in Bodies(numbers) /\ budget \in Nat
  BY Zenon DEF ProperInput, Bodies
<1>2. body \in SpineText(numbers) /\ sources \in Seq(Seq(SpineLine(numbers)))
  BY DEF ProperInput
<1> HIDE DEF numbers, body, sources
<1>3. /\ parseLinkedIssueReferences(body, sources) \in Seq(Reference(numbers))
      /\ OneEach(parseLinkedIssueReferences(body, sources))
  BY <1>1, <1>2, ReferencesFacts, Zenon
<1> QED
  BY <1>1, <1>2, <1>3, Zenon DEF numbers, body, sources

\* What the runner writes.
LEMMA WrittenArtifact ==
  ASSUME NEW pr, NEW issues, NEW budget
  PROVE  LET references == parseLinkedIssueReferences(pr.body, pr.sources)
             result == buildLinkedIssueSpecs(references, issues)
             block == renderCriteriaDataBlock(result, budget)
             spine == buildCriteriaSpine(result, block)
         IN RunnerWrites(pr, issues, budget) =
              IF references = <<>> \/ block = <<>> THEN None
              ELSE Answer(references, result, spine, Fetched(references, issues))
BY Zenon DEF RunnerWrites, RunnerReviews, RunnerCuts, Artifact, Answer, NumbersOf

\* The publisher accepts it.
LEMMA AcceptedArtifact ==
  ASSUME NEW pr, NEW issues, NEW budget, ProperInput(pr, issues, budget)
  PROVE  ArtifactAccepted(pr, issues, budget)
<1> DEFINE references == parseLinkedIssueReferences(pr.body, pr.sources)
           result == buildLinkedIssueSpecs(references, issues)
           block == renderCriteriaDataBlock(result, budget)
           spine == buildCriteriaSpine(result, block)
           fetched == Fetched(references, issues)
           numbers == DOMAIN issues
           a == RunnerWrites(pr, issues, budget)
           answer == Answer(references, result, spine, fetched)
<1>1. a = IF references = <<>> \/ block = <<>> THEN None ELSE answer
  BY WrittenArtifact, Zenon
<1>2. /\ numbers \subseteq Nat \ {0} /\ issues \in Bodies(numbers) /\ budget \in Nat
      /\ references \in Seq(Reference(numbers)) /\ OneEach(references)
  BY ProperFacts, Zenon
<1> HIDE DEF references, numbers, a
<1>3. Looked(numbers, references, result, fetched)
  BY <1>2, LookedFacts, Zenon
<1> HIDE DEF result, fetched
<1>4. block # <<>> => parseCriteriaSpineArtifact(answer)
  BY <1>2, <1>3, ReviewAccepted, Zenon
<1> HIDE DEF block, answer
<1>5. AcceptedIfAny(a)
  BY <1>1, <1>4, Zenon DEF AcceptedIfAny
<1> QED
  BY <1>5, Zenon DEF ArtifactAccepted, a

\* A word closes the issue n of this repository.
Says(n, w) == w.sort = "ref" /\ w.kind = "closing" /\ w.repo # "other" /\ w.number = n

\* A closing reference in sight, or in a commit message, is among the references.
LEMMA ClosedReferred ==
  ASSUME NEW pr, NEW issues, NEW budget, ProperInput(pr, issues, budget),
         NEW n \in ClosedBy(pr, DOMAIN issues)
  PROVE  Has(parseLinkedIssueReferences(pr.body, pr.sources), [issueNumber |-> n, kind |-> "closing"])
<1> DEFINE numbers == DOMAIN issues
           body == pr.body
           lines == body.lines
           sources == pr.sources
           references == parseLinkedIssueReferences(body, sources)
<1>1. /\ numbers \subseteq Nat \ {0} /\ body \in SpineText(numbers)
      /\ sources \in Seq(Seq(SpineLine(numbers)))
  BY ProperFacts, Zenon
<1>2. n \in numbers
  BY Zenon DEF ClosedBy
<1>3. \/ \E p \in ToSet(Positions(lines)) :
           p[2] > 0 /\ Says(n, lines[p[1]].words[p[2]]) /\ Openly(body, p)
      \/ \E s \in ToSet(sources) : \E line \in ToSet(s) : \E w \in ToSet(line.words) : Says(n, w)
  BY Zenon DEF ClosedBy, Says
<1> HIDE DEF numbers, body, sources, references
<1>4. /\ \A i \in 1 .. Len(lines) : \A j \in 1 .. Len(lines[i].words) :
           <<i, j>> \notin Hidden(body) => KeepsClosing(references, lines[i].words[j])
      /\ \A s \in 1 .. Len(sources) : \A i \in 1 .. Len(sources[s]) :
           \A j \in 1 .. Len(sources[s][i].words) : KeepsClosing(references, sources[s][i].words[j])
  BY <1>1, ReferencesFacts, Zenon DEF references
<1>5. ASSUME NEW w \in SpineWord(numbers), Says(n, w), KeepsClosing(references, w)
      PROVE  Has(references, [issueNumber |-> n, kind |-> "closing"])
  <2>1. w.repo \in {"", "this", "other"}
    BY DEF SpineWord
  <2>2. w.sort = "ref" /\ w.kind = "closing" /\ w.repo # "other" /\ w.number = n
    BY <1>5, Zenon DEF Says
  <2>3. n > 0
    BY <1>1, <1>2
  <2>4. w.repo \in {"", "this"}
    BY <2>1, <2>2
  <2>5. Ours(w)
    BY <2>2, <2>3, <2>4, Zenon DEF Ours
  <2>6. PICK r \in 1 .. Len(references) : references[r] = [issueNumber |-> w.number, kind |-> "closing"]
    BY <1>5, <2>2, <2>5, Zenon DEF KeepsClosing
  <2> QED
    BY <2>2, <2>6, Zenon DEF Has

<1>6. ASSUME NEW list \in Seq(SpineLine(numbers)), NEW i \in 1 .. Len(list)
      PROVE  /\ list[i].words \in Seq(SpineWord(numbers))
             /\ DOMAIN list[i].words = 1 .. Len(list[i].words)
             /\ \A j \in 1 .. Len(list[i].words) : list[i].words[j] \in SpineWord(numbers)
  <2>1. list[i] \in SpineLine(numbers)
    BY SeqFacts, Zenon
  <2>2. list[i].words \in Seq(SpineWord(numbers))
    BY <2>1 DEF SpineLine
  <2> QED
    BY <2>2, SeqFacts, Zenon
<1>7. lines \in Seq(SpineLine(numbers))
  BY <1>1 DEF SpineText
<1> HIDE DEF lines
<1>8. CASE \E p \in ToSet(Positions(lines)) :
             p[2] > 0 /\ Says(n, lines[p[1]].words[p[2]]) /\ Openly(body, p)
  <2>1. PICK p \in ToSet(Positions(lines)) :
          p[2] > 0 /\ Says(n, lines[p[1]].words[p[2]]) /\ Openly(body, p)
    BY <1>8
  <2>2. PICK m \in 1 .. Len(Positions(lines)) : p = Positions(lines)[m]
    <3>1. DOMAIN Positions(lines) = 1 .. Len(Positions(lines))
      BY <1>7, PositionsFacts, Zenon
    <3> QED
      BY <3>1, Zenon DEF ToSet
  <2>3. PICK i \in 1 .. Len(lines) : \E j \in 0 .. Len(lines[i].words) : p = <<i, j>>
    BY <1>7, <2>2, PositionsFacts, Zenon
  <2> PICK j \in 0 .. Len(lines[i].words) : p = <<i, j>>
    BY <2>3, Zenon
  <2>4. Len(lines[i].words) \in Nat
    BY <1>6, <1>7, SeqFacts, Zenon
  <2>5. p[1] = i /\ p[2] = j
    BY <2>3
  <2>6. j \in 1 .. Len(lines[i].words)
    <3> DEFINE l == Len(lines[i].words)
    <3>1. j \in 0 .. l /\ l \in Nat /\ j > 0
      BY <2>1, <2>4, <2>5, Zenon
    <3> HIDE DEF l
    <3>2. j \in 1 .. l
      BY <3>1
    <3> QED
      BY <3>2, Zenon DEF l
  <2>7. <<i, j>> \notin Hidden(body)
    BY <1>1, <2>1, OpenlyShown, Zenon
  <2>8. KeepsClosing(references, lines[i].words[j]) /\ Says(n, lines[i].words[j])
    BY <1>4, <2>1, <2>5, <2>6, <2>7, Zenon
  <2>9. lines[i].words[j] \in SpineWord(numbers)
    BY <1>6, <1>7, <2>6, Zenon
  <2> QED
    BY <1>5, <2>8, <2>9, Zenon DEF references, body, sources
<1>9. CASE \E s \in ToSet(sources) : \E line \in ToSet(s) : \E w \in ToSet(line.words) : Says(n, w)
  <2>1. PICK S \in ToSet(sources) : \E line \in ToSet(S) : \E w \in ToSet(line.words) : Says(n, w)
    BY <1>9
  <2>2. PICK line \in ToSet(S) : \E w \in ToSet(line.words) : Says(n, w)
    BY <2>1, Zenon
  <2>3. PICK w \in ToSet(line.words) : Says(n, w)
    BY <2>2, Zenon
  <2>4. /\ DOMAIN sources = 1 .. Len(sources)
        /\ \A s \in 1 .. Len(sources) : sources[s] \in Seq(SpineLine(numbers))
    BY <1>1, SeqFacts, Zenon
  <2>5. PICK s \in 1 .. Len(sources) : S = sources[s]
    BY <2>1, <2>4, Zenon DEF ToSet
  <2>6. S \in Seq(SpineLine(numbers)) /\ DOMAIN S = 1 .. Len(S)
    BY <2>4, <2>5, SeqFacts, Zenon
  <2>7. PICK i \in 1 .. Len(S) : line = S[i]
    BY <2>1, <2>6, Zenon DEF ToSet
  <2>8. DOMAIN S[i].words = 1 .. Len(S[i].words)
    BY <1>6, <2>6, Zenon
  <2>9. PICK j \in 1 .. Len(S[i].words) : w = S[i].words[j]
    BY <2>1, <2>7, <2>8, Zenon DEF ToSet
  <2>10. w \in SpineWord(numbers)
    BY <1>6, <2>6, <2>9, Zenon
  <2>11. KeepsClosing(references, w)
    BY <1>4, <2>5, <2>7, <2>9, Zenon
  <2> QED
    BY <1>5, <2>10, <2>11, <2>3, Zenon DEF references, body, sources
<1> QED
  BY <1>3, <1>8, <1>9, Zenon DEF lines, references, body, sources, numbers

-----------------------------------------------------------------------------
(* Nothing is lost.                                                        *)

\* An owed criterion of a closed issue is in the artifact, or the issue is reported.
LEMMA KeptText ==
  ASSUME NEW pr, NEW issues, NEW budget, ProperInput(pr, issues, budget),
         NEW n \in ClosedBy(pr, DOMAIN issues), issues[n] # None, NEW i \in Owed(issues[n])
  PROVE  Tells(RunnerWrites(pr, issues, budget), n, issues[n].lines[i].words)
<1> DEFINE references == parseLinkedIssueReferences(pr.body, pr.sources)
           result == buildLinkedIssueSpecs(references, issues)
           block == renderCriteriaDataBlock(result, budget)
           spine == buildCriteriaSpine(result, block)
           fetched == Fetched(references, issues)
           asked == selectIssuesToFetch(references)
           specs == result.specs
           numbers == DOMAIN issues
           unreviewed == UnreviewedClosing(references, result, spine)
           answer == Answer(references, result, spine, fetched)
           a == RunnerWrites(pr, issues, budget)
           text == issues[n].lines[i].words
           closing == [issueNumber |-> n, kind |-> "closing"]
<1>1. a = IF references = <<>> \/ block = <<>> THEN None ELSE answer
  BY WrittenArtifact, Zenon
<1>2. /\ numbers \subseteq Nat \ {0} /\ issues \in Bodies(numbers) /\ budget \in Nat
      /\ references \in Seq(Reference(numbers)) /\ OneEach(references)
  BY ProperFacts, Zenon
<1>3. Has(references, closing)
  BY ClosedReferred, Zenon
<1>4. n \in numbers
  BY Zenon DEF ClosedBy
<1>5. closing.issueNumber = n /\ closing.kind = "closing"
  OBVIOUS
<1> HIDE DEF references, numbers, a, closing
<1>6. Looked(numbers, references, result, fetched) /\ specs = IssueSpecs(fetched, issues)
  BY <1>2, LookedFacts, Zenon
<1>7. \A g \in 1 .. Len(asked) : issues[asked[g].issueNumber] # None => Has(fetched, asked[g])
  BY <1>2, FetchedFacts, Zenon
<1>8. /\ fetched \in Seq(Reference(numbers)) /\ OneEach(fetched)
      /\ \A g \in 1 .. Len(fetched) : issues[fetched[g].issueNumber] \in SpineText(Nat)
  BY <1>2, FetchedFacts, Zenon
<1> HIDE DEF result, fetched
<1>9. /\ numbers \subseteq Nat /\ specs \in Seq(LinkedIssueSpec(numbers)) /\ OneEach(specs)
      /\ \A k \in 1 .. Len(specs) : Len(specs[k].unmetCriteria) \in Nat \ {0}
      /\ result.truncatedIssueCount = Surplus(Len(references), MAX_LINKED_ISSUES)
  BY <1>2, <1>6, Zenon DEF Looked
<1>10. specs # <<>> \/ result.truncatedIssueCount # 0 => block # <<>>
  BY <1>2, <1>9, BlockFacts, Zenon
<1>11. answer # None
  BY <1>2, <1>6, ReviewAccepted, Zenon
<1>12. /\ spine \in Seq(SpineEntry) /\ DOMAIN spine = 1 .. Len(spine)
       /\ \E K, J : Spells(spine, specs, K, J)
  <2> HIDE DEF block
  <2> QED
    BY <1>9, SpineFacts, Zenon
<1> HIDE DEF block, spine
<1>13. answer.entries = spine /\ answer.unreviewedClosingIssues = unreviewed
  <2>1. Answers(answer, references, result, spine, fetched)
    BY AnswerFacts, Zenon
  <2> HIDE DEF answer
  <2> QED
    BY <2>1, Zenon DEF Answers
<1>14. /\ unreviewed \in Seq(Unreviewed)
       /\ \A r \in 1 .. Len(references) :
            references[r].kind = "closing" /\ references[r].issueNumber \notin IssuesOf(asked) =>
              references[r].issueNumber \in IssuesOf(unreviewed)
       /\ \A k \in 1 .. Len(specs) :
            /\ specs[k].kind = "closing"
            /\ specs[k].issueNumber \notin IssuesOf(spine) \/ Short(spine, specs[k])
            => specs[k].issueNumber \in IssuesOf(unreviewed)
  <2>1. \A k \in 1 .. Len(result.specs) : result.specs[k].issueNumber \in IssuesOf(asked)
    BY <1>6, SpecAsked, Zenon DEF AskedFor
  <2> QED
    BY <1>2, <1>9, <2>1, UnreviewedFacts, Zenon
<1>15. DOMAIN unreviewed = 1 .. Len(unreviewed) /\ DOMAIN references = 1 .. Len(references)
  BY <1>2, <1>14, SeqFacts, Zenon
<1>16. PICK r \in 1 .. Len(references) : references[r] = closing
  BY <1>3, Zenon DEF Has
<1>17. references # <<>>
  BY <1>16
<1> HIDE DEF specs, unreviewed, answer
<1>18. ASSUME block # <<>>
       PROVE  a = answer /\ a # None
  BY <1>1, <1>11, <1>17, <1>18, Zenon
<1>19. ASSUME block # <<>>, n \in IssuesOf(unreviewed)
       PROVE  Tells(a, n, text)
  <2>1. \E u \in ToSet(unreviewed) : u.issueNumber = n
    BY <1>19, Zenon DEF IssuesOf, ToSet
  <2> QED
    BY <1>13, <1>18, <1>19, <2>1, Zenon DEF Tells
\* An issue that is not asked for is reported.
<1>20. CASE n \notin IssuesOf(asked)
  <2>1. n \in IssuesOf(references)
    BY <1>5, <1>15, <1>16, Zenon DEF IssuesOf
  <2>2. result.truncatedIssueCount # 0
    BY <1>2, <1>9, <1>20, <2>1, NeverAsked, Zenon
  <2>3. n \in IssuesOf(unreviewed)
    BY <1>5, <1>14, <1>16, <1>20, Zenon
  <2> QED
    BY <1>10, <1>19, <2>2, <2>3, Zenon DEF a
\* Of one that is, the criteria are listed, or it is reported.
<1>21. CASE n \in IssuesOf(asked)
  <2>1. /\ asked \in Seq(Reference(numbers)) /\ DOMAIN asked = 1 .. Len(asked)
        /\ \A g \in 1 .. Len(asked) : asked[g] = references[g]
        /\ Len(asked) <= Len(references) /\ Len(asked) \in Nat /\ Len(references) \in Nat
    BY <1>2, AskedFacts, SeqFacts, Zenon
  <2>2. PICK g \in 1 .. Len(asked) : asked[g].issueNumber = n
    BY <1>21, <2>1, Zenon DEF IssuesOf
  <2>3. asked[g] = closing
    <3> HIDE DEF asked
    <3>1. g \in 1 .. Len(references)
      BY <2>1
    <3>2. references[g].issueNumber = references[r].issueNumber
      BY <1>5, <1>16, <2>1, <2>2, Zenon
    <3>3. g = r
      BY <1>2, <3>1, <3>2, Zenon DEF OneEach
    <3> QED
      BY <1>16, <2>1, <3>3, Zenon
  <2>4. Has(fetched, closing)
    BY <1>5, <1>7, <2>3, Zenon
  <2>5. PICK f \in 1 .. Len(fetched) : fetched[f] = closing
    BY <2>4, Zenon DEF Has
  <2>6. issues[n] \in SpineText(Nat)
    BY <1>5, <1>8, <2>5, Zenon
  <2> DEFINE unmet == Unmet(issues[n])
  <2>7. unmet \in Seq(CriterionText) /\ Has(unmet, text)
    BY <2>6, UnmetFacts, Zenon
  <2>8. PICK j \in 1 .. Len(unmet) : unmet[j] = text
    BY <2>7, Zenon DEF Has
  <2> HIDE DEF unmet
  <2>9. unmet # <<>>
    BY <2>8
  <2>10. PICK k \in 1 .. Len(specs) : Specified(specs[k], closing, unmet)
    <3>1. Unmet(issues[fetched[f].issueNumber]) = unmet
      BY <1>5, <2>5, Zenon DEF unmet
    <3>2. \E k \in 1 .. Len(specs) :
            Specified(specs[k], fetched[f], Unmet(issues[fetched[f].issueNumber]))
      BY <1>2, <1>6, <1>8, <2>9, <3>1, SpecsFacts, Zenon
    <3> QED
      BY <2>5, <3>1, <3>2, Zenon
  <2>11. /\ specs[k].issueNumber = n /\ specs[k].kind = "closing"
         /\ Len(specs[k].unmetCriteria) + specs[k].truncatedCriteriaCount = Len(unmet)
         /\ \A h \in 1 .. Len(specs[k].unmetCriteria) : specs[k].unmetCriteria[h] = unmet[h]
    BY <1>5, <2>10, Zenon DEF Specified
  <2>12. block # <<>>
    <3>1. specs # <<>>
      BY <2>10
    <3> QED
      BY <1>10, <3>1, Zenon
  <2>13. CASE Short(spine, specs[k]) \/ n \notin IssuesOf(spine)
    <3>1. n \in IssuesOf(unreviewed)
      BY <1>14, <2>11, <2>13, Zenon
    <3> QED
      BY <1>19, <2>12, <3>1, Zenon DEF a
  <2>14. CASE ~Short(spine, specs[k])
    <3>1. PICK K, J : Spells(spine, specs, K, J)
      BY <1>12, Zenon
    <3>2. /\ specs[k].truncatedCriteriaCount = 0
          /\ \A h \in 1 .. Len(specs[k].unmetCriteria) :
               \E m \in 1 .. Len(spine) : K[m] = k /\ J[m] = h
      <4>1. Whole(spine, specs, k, K, J)
        BY <1>9, <1>12, <2>14, <3>1, SectionShort, Zenon
      <4> QED
        BY <4>1, Zenon DEF Whole
    <3>3. j \in 1 .. Len(specs[k].unmetCriteria)
      <4> DEFINE l == Len(specs[k].unmetCriteria)
                 left == specs[k].truncatedCriteriaCount
      <4>1. l \in Nat \ {0} /\ l + left = Len(unmet)
        BY <1>9, <2>11, Zenon
      <4>2. left = 0
        BY <3>2, Zenon
      <4> HIDE DEF l, left
      <4>3. j \in 1 .. l
        BY <2>8, <4>1, <4>2
      <4> QED
        BY <4>3, Zenon DEF l
    <3>4. PICK m \in 1 .. Len(spine) : K[m] = k /\ J[m] = j
      BY <3>2, <3>3, Zenon
    <3>5. /\ spine[m].issueNumber = specs[k].issueNumber /\ spine[m].kind = specs[k].kind
          /\ spine[m].criterionDigest = criterionOccurrenceDigest(specs[k].unmetCriteria, j)
      BY <3>1, <3>4, Zenon DEF Spells
    <3>6. spine[m].criterionDigest[2] = text
      <4>1. specs[k].unmetCriteria \in Seq(CriterionText)
        <5>1. specs[k] \in LinkedIssueSpec(numbers)
          BY <1>9, SeqFacts, Zenon
        <5> QED
          BY <5>1 DEF LinkedIssueSpec
      <4>2. criterionOccurrenceDigest(specs[k].unmetCriteria, j)[2] = specs[k].unmetCriteria[j]
        BY <3>3, <4>1, DigestFacts, Zenon
      <4> QED
        BY <2>8, <2>11, <3>3, <3>5, <4>2, Zenon
    <3>7. spine[m] \in ToSet(spine)
      BY <1>12, Zenon DEF ToSet
    <3>8. \E e \in ToSet(spine) : e.issueNumber = n /\ e.kind = "closing" /\ e.criterionDigest[2] = text
      BY <2>11, <3>5, <3>6, <3>7, Zenon
    <3> QED
      BY <1>13, <1>18, <2>12, <3>8, Zenon DEF Tells, a
  <2> QED
    BY <2>13, <2>14
<1> QED
  BY <1>20, <1>21

\* So are all of them.
LEMMA KeptCriteria ==
  ASSUME NEW pr, NEW issues, NEW budget, ProperInput(pr, issues, budget)
  PROVE  NothingLost(pr, issues, budget)
BY KeptText, Zenon DEF NothingLost

-----------------------------------------------------------------------------
(* The theorems.                                                           *)

\* No unmet criterion of an issue that the pull request closes goes missing unreported,
\* whatever the texts and the budget: what a reader sees stays in the view, so every closing
\* reference and every owed checkbox is found; where a count or the budget cuts the list, the
\* section of an issue is too short, and that issue is reported
\* (spec-grounding-runner-logic.mts:252).
THEOREM NoCriterionLost ==
  ASSUME ProperGiven
  PROVE  CriteriaKept
BY KeptCriteria DEF ProperGiven, CriteriaKept

\* The publisher accepts every artifact that the runner can write
\* (spec-grounding-runner-logic.mts:1192).
THEOREM PublisherAccepts ==
  ASSUME ProperGiven
  PROVE  ArtifactsAgree
BY AcceptedArtifact DEF ProperGiven, ArtifactsAgree

\* Shadowing hides no use of a dangerous global in any program
\* (node-import-closure-verifier.mts:432).
THEOREM NoGlobalHidden ==
  ASSUME ProperGiven
  PROVE  GlobalsKept
BY NoProgramEscapes DEF ProperGiven, GlobalsKept
=============================================================================
