--------------------------- MODULE FilteringProofs ---------------------------
(***************************************************************************)
(* What Only returns, for sequences of any length.  The induction theorems *)
(* of the library are about operators; those stated here are about sets,   *)
(* and follow from NatLessThanWellFounded.                                 *)
(***************************************************************************)
EXTENDS Filtering, SequencesExt, SequenceTheorems, WellFoundedInduction, TLAPS

(* Every nonempty set of numbers has a least one. *)
LEMMA Least ==
  ASSUME NEW T \in SUBSET Nat, T # {}
  PROVE  \E n \in T : \A m \in T : n <= m
<1> DEFINE R == OpToRel(<, Nat)
<1>1. IsWellFoundedOn(R, Nat)
  BY NatLessThanWellFounded
<1>2. ASSUME NEW x \in Nat, NEW y \in Nat, y < x PROVE <<y, x>> \in R
  BY <1>2 DEF OpToRel
<1> HIDE DEF R
<1>3. PICK x \in T : \A y \in T : ~(<<y, x>> \in R)
  BY <1>1, WFMin
<1>4. ASSUME NEW y \in T PROVE x <= y
  <2>1. x \in Nat /\ y \in Nat /\ ~(y < x)
    BY <1>2, <1>3
  <2> QED BY <2>1
<1> QED BY <1>4

(* Induction over the numbers. *)
LEMMA NatSetInduction ==
  ASSUME NEW P, 0 \in P, \A n \in P \cap Nat : n + 1 \in P
  PROVE  Nat \subseteq P
<1> SUFFICES ASSUME Nat \ P # {} PROVE FALSE
  OBVIOUS
<1>1. PICK n \in Nat \ P : \A m \in Nat \ P : n <= m
  BY Least
<1>2. n \in Nat /\ n \notin P
  BY <1>1
<1>3. n # 0
  BY <1>2
<1>4. n - 1 \in Nat /\ ~(n <= n - 1) /\ (n - 1) + 1 = n
  BY <1>2, <1>3
<1>5. n - 1 \in P
  BY <1>1, <1>4
<1>6. (n - 1) + 1 \in P
  BY <1>4, <1>5
<1> QED BY <1>2, <1>4, <1>6

(* Induction over the sequences of members of T, at their end. *)
LEMMA SeqInduction ==
  ASSUME NEW T, NEW P, <<>> \in P,
         \A s \in Seq(T) \cap P, e \in T : Append(s, e) \in P
  PROVE  Seq(T) \subseteq P
<1> DEFINE Q == {n \in Nat : \A s \in Seq(T) : Len(s) = n => s \in P}
<1>1. 0 \in Q
  <2>1. ASSUME NEW s \in Seq(T), Len(s) = 0 PROVE s = <<>>
    BY <2>1
  <2> QED BY <2>1
<1>2. ASSUME NEW n \in Q PROVE n + 1 \in Q
  <2> SUFFICES ASSUME NEW s \in Seq(T), Len(s) = n + 1 PROVE s \in P
    OBVIOUS
  <2> DEFINE front == SubSeq(s, 1, n)
  <2>1. front \in Seq(T) /\ Len(front) = n /\ s[n + 1] \in T
    OBVIOUS
  <2>2. s = Append(front, s[n + 1])
    OBVIOUS
  <2>3. front \in P
    BY <2>1
  <2> HIDE DEF front
  <2> QED BY <2>1, <2>2, <2>3
<1>3. Nat \subseteq Q
  <2> HIDE DEF Q
  <2> QED BY <1>1, <1>2, NatSetInduction
<1> QED BY <1>3

-----------------------------------------------------------------------------
(* What remains of each prefix of s. *)
Remains(f, s, S) ==
  [i \in 0 .. Len(s) |->
     IF i = 0 THEN <<>>
     ELSE IF s[i] \in S THEN Append(f[i - 1], s[i]) ELSE f[i - 1]]

(* The function that Only is defined by exists ... *)
LEMMA RemainsExists ==
  ASSUME NEW T, NEW S
  PROVE  \A s \in Seq(T) : \E f : f = Remains(f, s, S)
<1> DEFINE P == {s \in Seq(T) : \E f : f = Remains(f, s, S)}
<1>1. <<>> \in P
  <2> DEFINE f == [i \in 0 .. 0 |-> <<>>]
  <2>1. f = Remains(f, <<>>, S) /\ <<>> \in Seq(T)
    BY DEF Remains
  <2> QED BY <2>1
<1>2. ASSUME NEW s \in Seq(T) \cap P, NEW e \in T PROVE Append(s, e) \in P
  <2>1. PICK f : f = Remains(f, s, S)
    OBVIOUS
  <2> DEFINE t == Append(s, e)
             n == Len(s)
             g == [i \in 0 .. n + 1 |->
                     IF i = n + 1 THEN IF e \in S THEN Append(f[n], e) ELSE f[n] ELSE f[i]]
  <2>2. n \in Nat /\ t \in Seq(T) /\ Len(t) = n + 1 /\ t[n + 1] = e
        /\ \A i \in 1 .. n : t[i] = s[i]
    OBVIOUS
  <2>3. \A i \in 0 .. n : f[i] = IF i = 0 THEN <<>>
                                 ELSE IF s[i] \in S THEN Append(f[i - 1], s[i]) ELSE f[i - 1]
    BY <2>1, Zenon DEF Remains
  <2> HIDE DEF t, n
  <2>4. ASSUME NEW i \in 0 .. n + 1
        PROVE  g[i] = IF i = 0 THEN <<>>
                      ELSE IF t[i] \in S THEN Append(g[i - 1], t[i]) ELSE g[i - 1]
    <3>1. CASE i = n + 1
      <4>1. g[i - 1] = f[n] /\ i # 0 /\ t[i] = e
        BY <2>2, <3>1
      <4> QED BY <3>1, <4>1
    <3>2. CASE i # n + 1
      <4>1. i \in 0 .. n /\ g[i] = f[i] /\ (i # 0 => g[i - 1] = f[i - 1] /\ t[i] = s[i])
        BY <2>2, <3>2
      <4> QED BY <2>3, <4>1
    <3> QED BY <3>1, <3>2
  <2>5. g = Remains(g, t, S)
    <3>1. g = [i \in 0 .. n + 1 |-> IF i = 0 THEN <<>>
                      ELSE IF t[i] \in S THEN Append(g[i - 1], t[i]) ELSE g[i - 1]]
      BY <2>4
    <3> HIDE DEF g
    <3> QED BY <2>2, <3>1, Zenon DEF Remains
  <2> HIDE DEF g
  <2> QED BY <2>2, <2>5 DEF t
<1>3. Seq(T) \subseteq P
  <2> HIDE DEF P
  <2> QED BY <1>1, <1>2, SeqInduction
<1> QED BY <1>3

(* ... and gives Only. *)
LEMMA OnlyIsLast ==
  ASSUME NEW T, NEW S, NEW s \in Seq(T)
  PROVE  \E f : f = Remains(f, s, S) /\ Only(s, S) = f[Len(s)]
<1> DEFINE f == CHOOSE f : f = Remains(f, s, S)
<1>1. f = Remains(f, s, S)
  BY RemainsExists
<1>2. Only(s, S) = f[Len(s)]
  BY DEF Only, Remains
<1> HIDE DEF f
<1> QED BY <1>1, <1>2

-----------------------------------------------------------------------------
(* Nothing remains of nothing.                                              *)
LEMMA OnlyEmpty == ASSUME NEW S PROVE Only(<<>>, S) = <<>>
<1>1. <<>> \in Seq({})
  OBVIOUS
<1>2. PICK f : f = Remains(f, <<>>, S) /\ Only(<<>>, S) = f[Len(<<>>)]
  BY <1>1, OnlyIsLast
<1>3. f[0] = <<>>
  <2>1. f = [i \in 0 .. 0 |-> f[i]] /\ 0 \in 0 .. 0
    BY <1>2 DEF Remains
  <2> QED BY <1>2, <2>1 DEF Remains
<1> QED BY <1>2, <1>3

(* The recursion, in terms of Append. *)
LEMMA OnlyAppend ==
  ASSUME NEW T, NEW S, NEW s \in Seq(T), NEW e \in T
  PROVE  Only(Append(s, e), S) = IF e \in S THEN Append(Only(s, S), e) ELSE Only(s, S)
<1> DEFINE t == Append(s, e)
           n == Len(s)
<1>1. /\ n \in Nat /\ t \in Seq(T) /\ Len(t) = n + 1 /\ t[n + 1] = e
      /\ \A i \in 1 .. n : t[i] = s[i]
  OBVIOUS
<1>2. PICK f : f = Remains(f, s, S) /\ Only(s, S) = f[n]
  BY OnlyIsLast
<1>3. PICK g : g = Remains(g, t, S) /\ Only(t, S) = g[n + 1]
  BY <1>1, OnlyIsLast
<1> HIDE DEF t, n
<1>4. \A i \in 0 .. n : f[i] = IF i = 0 THEN <<>>
                               ELSE IF s[i] \in S THEN Append(f[i - 1], s[i]) ELSE f[i - 1]
  BY <1>2, Zenon DEF Remains, n
<1>5. \A i \in 0 .. n + 1 : g[i] = IF i = 0 THEN <<>>
                               ELSE IF t[i] \in S THEN Append(g[i - 1], t[i]) ELSE g[i - 1]
  <2>1. \A i \in 0 .. Len(t) : g[i] = IF i = 0 THEN <<>>
                               ELSE IF t[i] \in S THEN Append(g[i - 1], t[i]) ELSE g[i - 1]
    BY <1>3, Zenon DEF Remains
  <2> QED BY <1>1, <2>1
<1>6. \A i \in 0 .. n : g[i] = f[i]
  <2> DEFINE P == {i \in Nat : i <= n => g[i] = f[i]}
  <2>1. 0 \in P
    BY <1>1, <1>4, <1>5
  <2>2. ASSUME NEW i \in P \cap Nat PROVE i + 1 \in P
    <3> SUFFICES ASSUME i + 1 <= n PROVE g[i + 1] = f[i + 1]
      OBVIOUS
    <3>1. /\ i + 1 \in 0 .. n /\ i + 1 \in 0 .. n + 1 /\ i + 1 # 0 /\ (i + 1) - 1 = i
          /\ g[i] = f[i] /\ t[i + 1] = s[i + 1]
      BY <1>1
    <3> QED BY <1>4, <1>5, <3>1
  <2>3. Nat \subseteq P
    <3> HIDE DEF P
    <3> QED BY <2>1, <2>2, NatSetInduction
  <2> QED BY <1>1, <2>3
<1>7. g[n + 1] = IF e \in S THEN Append(f[n], e) ELSE f[n]
  <2>1. n + 1 \in 0 .. n + 1 /\ n + 1 # 0 /\ (n + 1) - 1 = n /\ n \in 0 .. n
    BY <1>1
  <2> QED BY <1>1, <1>5, <1>6, <2>1
<1> QED BY <1>2, <1>3, <1>7 DEF t, n

-----------------------------------------------------------------------------
(* What is kept is in order of s among the members of S, and no longer than s. *)
LEMMA OnlyType ==
  ASSUME NEW T, NEW S
  PROVE  \A s \in Seq(T) : /\ Only(s, S) \in Seq(T \cap S)
                           /\ Len(Only(s, S)) <= Len(s)
<1> DEFINE P == {s \in Seq(T) : Only(s, S) \in Seq(T \cap S) /\ Len(Only(s, S)) <= Len(s)}
<1>1. <<>> \in P
  <2> DEFINE none == Only(<<>>, S)
  <2>1. none = <<>>
    BY OnlyEmpty
  <2> HIDE DEF none
  <2>2. none \in Seq(T \cap S) /\ Len(none) <= Len(<<>>) /\ <<>> \in Seq(T)
    BY <2>1
  <2> QED BY <2>2 DEF none
<1>2. ASSUME NEW s \in Seq(T) \cap P, NEW e \in T PROVE Append(s, e) \in P
  <2> DEFINE o == Only(s, S)
  <2>1. Only(Append(s, e), S) = IF e \in S THEN Append(o, e) ELSE o
    BY OnlyAppend
  <2>2. o \in Seq(T \cap S) /\ Len(o) <= Len(s) /\ s \in Seq(T)
    OBVIOUS
  <2> HIDE DEF o
  <2>3. Append(s, e) \in Seq(T) /\ Len(Append(s, e)) = Len(s) + 1
    BY <2>2
  <2>4. CASE e \in S
    <3>1. Append(o, e) \in Seq(T \cap S) /\ Len(Append(o, e)) = Len(o) + 1
      BY <2>2, <2>4
    <3> QED BY <2>1, <2>2, <2>3, <2>4, <3>1
  <2>5. CASE e \notin S
    <3>1. Len(s) <= Len(s) + 1 /\ Len(o) <= Len(s) + 1
      BY <2>2
    <3> QED BY <2>1, <2>2, <2>3, <2>5, <3>1
  <2> QED BY <2>4, <2>5
<1>3. Seq(T) \subseteq P
  <2> HIDE DEF P
  <2> QED BY <1>1, <1>2, SeqInduction
<1> QED BY <1>3

(* A sequence of members of S is kept whole. *)
LEMMA OnlyAll ==
  ASSUME NEW S
  PROVE  \A s \in Seq(S) : Only(s, S) = s
<1> DEFINE P == {s \in Seq(S) : Only(s, S) = s}
<1>1. <<>> \in P
  <2>1. <<>> \in Seq(S) /\ Only(<<>>, S) = <<>>
    BY OnlyEmpty
  <2> QED BY <2>1
<1>2. ASSUME NEW s \in Seq(S) \cap P, NEW e \in S PROVE Append(s, e) \in P
  BY OnlyAppend
<1>3. Seq(S) \subseteq P
  <2> HIDE DEF P
  <2> QED BY <1>1, <1>2, SeqInduction
<1> QED BY <1>3

(* Nothing of a sequence without a member of S is kept. *)
LEMMA OnlyNone ==
  ASSUME NEW T, NEW S, T \cap S = {}
  PROVE  \A s \in Seq(T) : Only(s, S) = <<>>
<1> DEFINE P == {s \in Seq(T) : Only(s, S) = <<>>}
<1>1. <<>> \in P
  BY OnlyEmpty
<1>2. ASSUME NEW s \in Seq(T) \cap P, NEW e \in T PROVE Append(s, e) \in P
  BY OnlyAppend
<1>3. Seq(T) \subseteq P
  <2> HIDE DEF P
  <2> QED BY <1>1, <1>2, SeqInduction
<1> QED BY <1>3

(* Appending to the second of two sequences appends to both.                *)
LEMMA ConcatAppend ==
  ASSUME NEW T, NEW a \in Seq(T), NEW b \in Seq(T), NEW e \in T
  PROVE  a \o Append(b, e) = Append(a \o b, e)
<1>1. <<e>> \in Seq(T) /\ a \o b \in Seq(T)
  OBVIOUS
<1>2. Append(b, e) = b \o <<e>> /\ Append(a \o b, e) = (a \o b) \o <<e>>
  BY <1>1, AppendIsConcat
<1> QED BY <1>1, <1>2, ConcatAssociative

(* Filtering distributes over concatenation. *)
LEMMA OnlyConcat ==
  ASSUME NEW T, NEW S, NEW s \in Seq(T)
  PROVE  \A t \in Seq(T) : Only(s \o t, S) = Only(s, S) \o Only(t, S)
<1> DEFINE P == {t \in Seq(T) : Only(s \o t, S) = Only(s, S) \o Only(t, S)}
<1>0. Only(s, S) \in Seq(T \cap S)
  BY OnlyType
<1>1. <<>> \in P
  <2>1. s \o <<>> = s /\ Only(s, S) \o <<>> = Only(s, S) /\ <<>> \in Seq(T)
    BY <1>0
  <2> QED BY <2>1, OnlyEmpty
<1>2. ASSUME NEW t \in Seq(T) \cap P, NEW e \in T PROVE Append(t, e) \in P
  <2>1. s \o Append(t, e) = Append(s \o t, e) /\ s \o t \in Seq(T)
    OBVIOUS
  <2> DEFINE a == Only(s, S)
             b == Only(t, S)
  <2>2. Only(Append(s \o t, e), S) = IF e \in S THEN Append(a \o b, e) ELSE a \o b
    <3>1. Only(s \o t, S) = a \o b
      OBVIOUS
    <3>2. Only(Append(s \o t, e), S) = IF e \in S THEN Append(Only(s \o t, S), e)
                                     ELSE Only(s \o t, S)
      <4> DEFINE u == s \o t
      <4>1. u \in Seq(T)
        BY <2>1
      <4> HIDE DEF u, a, b, P
      <4>2. Only(Append(u, e), S) = IF e \in S THEN Append(Only(u, S), e) ELSE Only(u, S)
        BY <4>1, OnlyAppend
      <4> QED BY <4>2 DEF u
    <3> HIDE DEF a, b
    <3> QED BY <3>1, <3>2
  <2>3. Only(Append(t, e), S) = IF e \in S THEN Append(b, e) ELSE b
    BY OnlyAppend
  <2>4. a \in Seq(T \cap S) /\ b \in Seq(T \cap S) /\ Append(t, e) \in Seq(T)
    BY OnlyType
  <2> HIDE DEF a, b
  <2>5. ASSUME e \in S PROVE Append(a \o b, e) = a \o Append(b, e)
    <3> DEFINE U == T \cap S
    <3>1. a \in Seq(U) /\ b \in Seq(U) /\ e \in U
      BY <2>4, <2>5
    <3> HIDE DEF P, U
    <3>2. \A x \in Seq(U), y \in Seq(U), z \in U : x \o Append(y, z) = Append(x \o y, z)
      BY ConcatAppend
    <3> QED BY <3>1, <3>2
  <2>6. Only(s \o Append(t, e), S) = a \o Only(Append(t, e), S)
    BY <2>1, <2>2, <2>3, <2>5
  <2> QED BY <2>4, <2>6 DEF a
<1>3. Seq(T) \subseteq P
  <2> HIDE DEF P
  <2> QED BY <1>1, <1>2, SeqInduction
<1> QED BY <1>3

(* What is in front is kept or not. *)
LEMMA OnlyCons ==
  ASSUME NEW T, NEW S, NEW e \in T, NEW s \in Seq(T)
  PROVE  Only(<<e>> \o s, S) = IF e \in S THEN <<e>> \o Only(s, S) ELSE Only(s, S)
<1>1. <<e>> = Append(<<>>, e) /\ <<>> \in Seq(T) /\ <<e>> \in Seq(T)
  OBVIOUS
<1>2. Only(<<e>>, S) = IF e \in S THEN <<e>> ELSE <<>>
  <2> DEFINE none == <<>>
  <2>1. none \in Seq(T) /\ <<e>> = Append(none, e) /\ Only(none, S) = none
    BY OnlyEmpty
  <2> HIDE DEF none
  <2>2. Only(Append(none, e), S) = IF e \in S THEN Append(Only(none, S), e) ELSE Only(none, S)
    BY <2>1, OnlyAppend
  <2>3. Only(<<e>>, S) = IF e \in S THEN <<e>> ELSE none
    BY <2>1, <2>2
  <2> QED BY <2>3 DEF none
<1>3. Only(<<e>> \o s, S) = Only(<<e>>, S) \o Only(s, S)
  BY <1>1, OnlyConcat
<1>4. Only(s, S) \in Seq(T \cap S)
  BY OnlyType
<1>5. <<>> \o Only(s, S) = Only(s, S)
  BY <1>4, ConcatEmptySeq
<1> QED BY <1>2, <1>3, <1>5

-----------------------------------------------------------------------------
(* The members of a sequence and of what is appended to it.                 *)
LEMMA ToSetAppend ==
  ASSUME NEW T, NEW s \in Seq(T), NEW e \in T
  PROVE  ToSet(Append(s, e)) = ToSet(s) \cup {e}
<1> DEFINE t == Append(s, e)
<1>1. /\ DOMAIN t = 1 .. Len(s) + 1 /\ DOMAIN s = 1 .. Len(s) /\ Len(s) \in Nat
      /\ t[Len(s) + 1] = e /\ \A i \in 1 .. Len(s) : t[i] = s[i]
  OBVIOUS
<1> HIDE DEF t
<1>2. ToSet(t) \subseteq ToSet(s) \cup {e}
  BY <1>1 DEF ToSet
<1>3. ToSet(s) \cup {e} \subseteq ToSet(t)
  <2>1. e \in ToSet(t)
    BY <1>1 DEF ToSet
  <2>2. ASSUME NEW i \in DOMAIN s PROVE s[i] \in ToSet(t)
    BY <1>1 DEF ToSet
  <2> QED BY <2>1, <2>2 DEF ToSet
<1> QED BY <1>2, <1>3 DEF t

(* The members of two sequences, one after the other.                       *)
LEMMA ToSetConcat ==
  ASSUME NEW T, NEW s \in Seq(T), NEW t \in Seq(T)
  PROVE  ToSet(s \o t) = ToSet(s) \cup ToSet(t)
<1> DEFINE u == s \o t
<1>1. /\ DOMAIN u = 1 .. Len(s) + Len(t) /\ Len(s) \in Nat /\ Len(t) \in Nat
      /\ DOMAIN s = 1 .. Len(s) /\ DOMAIN t = 1 .. Len(t)
      /\ \A i \in 1 .. Len(s) : u[i] = s[i]
      /\ \A i \in 1 .. Len(t) : u[Len(s) + i] = t[i]
  OBVIOUS
<1> HIDE DEF u
<1>2. ASSUME NEW i \in DOMAIN u PROVE u[i] \in ToSet(s) \cup ToSet(t)
  <2>1. CASE i <= Len(s)
    BY <1>1, <2>1 DEF ToSet
  <2>2. CASE i > Len(s)
    <3>1. i - Len(s) \in 1 .. Len(t) /\ Len(s) + (i - Len(s)) = i
      BY <1>1, <2>2
    <3>2. u[i] = t[i - Len(s)]
      BY <1>1, <3>1
    <3> QED BY <1>1, <3>1, <3>2 DEF ToSet
  <2> QED BY <1>1, <2>1, <2>2
<1>3. ASSUME NEW i \in DOMAIN s PROVE s[i] \in ToSet(u)
  BY <1>1 DEF ToSet
<1>4. ASSUME NEW i \in DOMAIN t PROVE t[i] \in ToSet(u)
  <2>1. Len(s) + i \in DOMAIN u /\ u[Len(s) + i] = t[i]
    BY <1>1
  <2> QED BY <2>1 DEF ToSet
<1> QED BY <1>2, <1>3, <1>4 DEF ToSet, u

(* A member is kept if and only if it is in S. *)
LEMMA OnlyRange ==
  ASSUME NEW T, NEW S
  PROVE  \A s \in Seq(T) : ToSet(Only(s, S)) = ToSet(s) \cap S
<1> DEFINE P == {s \in Seq(T) : ToSet(Only(s, S)) = ToSet(s) \cap S}
<1>1. <<>> \in P
  <2>1. ToSet(<<>>) = {}
    BY DEF ToSet
  <2> QED BY <2>1, OnlyEmpty
<1>2. ASSUME NEW s \in Seq(T) \cap P, NEW e \in T PROVE Append(s, e) \in P
  <2>1. Only(Append(s, e), S) = IF e \in S THEN Append(Only(s, S), e) ELSE Only(s, S)
    BY OnlyAppend
  <2>2. Only(s, S) \in Seq(T \cap S)
    BY OnlyType
  <2>3. ToSet(Append(s, e)) = ToSet(s) \cup {e}
    BY ToSetAppend
  <2>4. e \in S => ToSet(Append(Only(s, S), e)) = ToSet(Only(s, S)) \cup {e}
    BY <2>2, ToSetAppend
  <2>5. ToSet(Only(s, S)) = ToSet(s) \cap S
    OBVIOUS
  <2>6. ToSet(Only(Append(s, e), S)) = ToSet(Append(s, e)) \cap S
    <3>1. CASE e \in S
      BY <2>1, <2>3, <2>4, <2>5, <3>1
    <3>2. CASE e \notin S
      BY <2>1, <2>3, <2>5, <3>2
    <3> QED BY <3>1, <3>2
  <2> QED BY <2>6
<1>3. Seq(T) \subseteq P
  <2> HIDE DEF P
  <2> QED BY <1>1, <1>2, SeqInduction
<1> QED BY <1>3
=============================================================================
