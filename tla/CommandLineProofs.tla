------------------------- MODULE CommandLineProofs -------------------------
(***************************************************************************)
(* Theorems of CommandLine, for arguments of any length and any number of  *)
(* them.                                                                   *)
(***************************************************************************)
EXTENDS CommandLine, FilteringProofs

(***************************************************************************)
(* Reading, character by character                                         *)
(***************************************************************************)
(* What has been read at each place of s. *)
Places(f, s) ==
  [i \in 0 .. Len(s) |-> IF i = 0 THEN Begun ELSE Read(f[i - 1], s[i])]

(* The function that After is defined by exists ... *)
LEMMA PlacesExist ==
  ASSUME NEW T
  PROVE  \A s \in Seq(T) : \E f : f = Places(f, s)
<1> DEFINE P == {s \in Seq(T) : \E f : f = Places(f, s)}
<1>1. <<>> \in P
  <2> DEFINE f == [i \in 0 .. 0 |-> Begun]
  <2>1. f = Places(f, <<>>) /\ <<>> \in Seq(T)
    BY DEF Places
  <2> QED BY <2>1
<1>2. ASSUME NEW s \in Seq(T) \cap P, NEW e \in T PROVE Append(s, e) \in P
  <2>1. PICK f : f = Places(f, s)
    OBVIOUS
  <2> DEFINE t == Append(s, e)
             n == Len(s)
             g == [i \in 0 .. n + 1 |-> IF i = n + 1 THEN Read(f[n], e) ELSE f[i]]
  <2>2. n \in Nat /\ t \in Seq(T) /\ Len(t) = n + 1 /\ t[n + 1] = e
        /\ \A i \in 1 .. n : t[i] = s[i]
    OBVIOUS
  <2>3. \A i \in 0 .. n : f[i] = IF i = 0 THEN Begun ELSE Read(f[i - 1], s[i])
    BY <2>1, Zenon DEF Places
  <2> HIDE DEF t, n
  <2>4. ASSUME NEW i \in 0 .. n + 1
        PROVE  g[i] = IF i = 0 THEN Begun ELSE Read(g[i - 1], t[i])
    <3>1. CASE i = n + 1
      <4>1. g[i - 1] = f[n] /\ i # 0 /\ t[i] = e
        BY <2>2, <3>1
      <4> QED BY <3>1, <4>1
    <3>2. CASE i # n + 1
      <4>1. i \in 0 .. n /\ g[i] = f[i] /\ (i # 0 => g[i - 1] = f[i - 1] /\ t[i] = s[i])
        BY <2>2, <3>2
      <4> QED BY <2>3, <4>1
    <3> QED BY <3>1, <3>2
  <2>5. g = Places(g, t)
    <3>1. g = [i \in 0 .. n + 1 |-> IF i = 0 THEN Begun ELSE Read(g[i - 1], t[i])]
      BY <2>4
    <3> HIDE DEF g
    <3> QED BY <2>2, <3>1, Zenon DEF Places
  <2> HIDE DEF g
  <2> QED BY <2>2, <2>5 DEF t
<1>3. Seq(T) \subseteq P
  <2> HIDE DEF P
  <2> QED BY <1>1, <1>2, SeqInduction
<1> QED BY <1>3

(* ... and gives After. *)
LEMMA AfterIsLast ==
  ASSUME NEW T, NEW s \in Seq(T)
  PROVE  \E f : f = Places(f, s) /\ After(s) = f[Len(s)]
<1> DEFINE f == CHOOSE f : f = Places(f, s)
<1>1. f = Places(f, s)
  BY PlacesExist
<1>2. After(s) = f[Len(s)]
  BY DEF After, Places
<1> HIDE DEF f
<1> QED BY <1>1, <1>2

(* Before the first character nothing has been read.                        *)
LEMMA AfterEmpty == After(<<>>) = Begun
<1>1. <<>> \in Seq({})
  OBVIOUS
<1>2. PICK f : f = Places(f, <<>>) /\ After(<<>>) = f[Len(<<>>)]
  BY <1>1, AfterIsLast
<1>3. f[0] = Begun
  <2>1. f = [i \in 0 .. 0 |-> f[i]] /\ 0 \in 0 .. 0
    BY <1>2 DEF Places
  <2> QED BY <1>2, <2>1 DEF Places
<1> QED BY <1>2, <1>3

(* The recursion, in terms of Append. *)
LEMMA AfterAppend ==
  ASSUME NEW T, NEW s \in Seq(T), NEW e \in T
  PROVE  After(Append(s, e)) = Read(After(s), e)
<1> DEFINE t == Append(s, e)
           n == Len(s)
<1>1. /\ n \in Nat /\ t \in Seq(T) /\ Len(t) = n + 1 /\ t[n + 1] = e
      /\ \A i \in 1 .. n : t[i] = s[i]
  OBVIOUS
<1>2. PICK f : f = Places(f, s) /\ After(s) = f[n]
  BY AfterIsLast
<1>3. PICK g : g = Places(g, t) /\ After(t) = g[n + 1]
  BY <1>1, AfterIsLast
<1> HIDE DEF t, n
<1>4. \A i \in 0 .. n : f[i] = IF i = 0 THEN Begun ELSE Read(f[i - 1], s[i])
  BY <1>2, Zenon DEF Places, n
<1>5. \A i \in 0 .. n + 1 : g[i] = IF i = 0 THEN Begun ELSE Read(g[i - 1], t[i])
  <2>1. \A i \in 0 .. Len(t) : g[i] = IF i = 0 THEN Begun ELSE Read(g[i - 1], t[i])
    BY <1>3, Zenon DEF Places
  <2> QED BY <1>1, <2>1
<1>6. \A i \in 0 .. n : g[i] = f[i]
  <2> DEFINE P == {i \in Nat : i <= n => g[i] = f[i]}
  <2>1. 0 \in P
    BY <1>1, <1>4, <1>5
  <2>2. ASSUME NEW i \in P \cap Nat PROVE i + 1 \in P
    <3> SUFFICES ASSUME i + 1 <= n PROVE g[i + 1] = f[i + 1]
      OBVIOUS
    <3>1. /\ i + 1 \in 0 .. n /\ i + 1 \in 0 .. n + 1 /\ i + 1 # 0 /\ (i + 1) - 1 = i
          /\ g[i] = f[i] /\ t[i + 1] = s[i + 1]
      BY <1>1
    <3> QED BY <1>4, <1>5, <3>1
  <2>3. Nat \subseteq P
    <3> HIDE DEF P
    <3> QED BY <2>1, <2>2, NatSetInduction
  <2> QED BY <1>1, <2>3
<1>7. g[n + 1] = Read(f[n], e)
  <2>1. n + 1 \in 0 .. n + 1 /\ n + 1 # 0 /\ (n + 1) - 1 = n /\ n \in 0 .. n
    BY <1>1
  <2> QED BY <1>1, <1>5, <1>6, <2>1
<1> QED BY <1>2, <1>3, <1>7 DEF t, n

-----------------------------------------------------------------------------
(***************************************************************************)
(* Joining sequences                                                       *)
(***************************************************************************)
(* The first i sequences of ss, joined. *)
Joins(f, ss) ==
  [i \in 1 .. Len(ss) |-> IF i = 1 THEN ss[i] ELSE f[i - 1] \o ss[i]]

(* The function that FlattenSeq is defined by exists ... *)
LEMMA JoinsExist ==
  ASSUME NEW T
  PROVE  \A ss \in Seq(T) : \E f : f = Joins(f, ss)
<1> DEFINE P == {s \in Seq(T) : \E f : f = Joins(f, s)}
<1>1. <<>> \in P
  <2> DEFINE f == [i \in 1 .. 0 |-> <<>>]
  <2>1. f = Joins(f, <<>>) /\ <<>> \in Seq(T)
    BY DEF Joins
  <2> QED BY <2>1
<1>2. ASSUME NEW s \in Seq(T) \cap P, NEW e \in T PROVE Append(s, e) \in P
  <2>1. PICK f : f = Joins(f, s)
    OBVIOUS
  <2> DEFINE t == Append(s, e)
             n == Len(s)
             g == [i \in 1 .. n + 1 |->
                     IF i = n + 1 THEN IF n = 0 THEN e ELSE f[n] \o e ELSE f[i]]
  <2>2. n \in Nat /\ t \in Seq(T) /\ Len(t) = n + 1 /\ t[n + 1] = e
        /\ \A i \in 1 .. n : t[i] = s[i]
    OBVIOUS
  <2>3. \A i \in 1 .. n : f[i] = IF i = 1 THEN s[i] ELSE f[i - 1] \o s[i]
    BY <2>1, Zenon DEF Joins
  <2> HIDE DEF t, n
  <2>4. ASSUME NEW i \in 1 .. n + 1
        PROVE  g[i] = IF i = 1 THEN t[i] ELSE g[i - 1] \o t[i]
    <3>1. CASE i = n + 1
      <4>1. i = 1 <=> n = 0
        BY <2>2, <3>1
      <4>2. t[i] = e /\ g[i] = (IF n = 0 THEN e ELSE f[n] \o e)
        BY <2>2, <3>1
      <4>3. n # 0 => g[i - 1] = f[n]
        BY <2>2, <3>1
      <4> QED BY ONLY <4>1, <4>2, <4>3
    <3>2. CASE i # n + 1
      <4>1. i \in 1 .. n /\ g[i] = f[i] /\ t[i] = s[i]
        BY <2>2, <3>2
      <4>2. i # 1 => g[i - 1] = f[i - 1]
        BY <2>2, <4>1
      <4> HIDE DEF g
      <4> QED BY <2>3, <4>1, <4>2
    <3> QED BY <3>1, <3>2
  <2>5. g = Joins(g, t)
    <3>1. g = [i \in 1 .. n + 1 |-> IF i = 1 THEN t[i] ELSE g[i - 1] \o t[i]]
      BY <2>4
    <3> HIDE DEF g
    <3> QED BY <2>2, <3>1, Zenon DEF Joins
  <2> HIDE DEF g
  <2> QED BY <2>2, <2>5 DEF t
<1>3. Seq(T) \subseteq P
  <2> HIDE DEF P
  <2> QED BY <1>1, <1>2, SeqInduction
<1> QED BY <1>3

(* ... and gives FlattenSeq. *)
LEMMA FlattenIsLast ==
  ASSUME NEW T, NEW ss \in Seq(T), ss # <<>>
  PROVE  \E f : f = Joins(f, ss) /\ FlattenSeq(ss) = f[Len(ss)]
<1> DEFINE f == CHOOSE f : f = Joins(f, ss)
<1>1. f = Joins(f, ss)
  BY JoinsExist
<1>2. FlattenSeq(ss) = f[Len(ss)]
  BY DEF FlattenSeq, Joins
<1> HIDE DEF f
<1> QED BY <1>1, <1>2

(* Nothing joined is nothing. *)
LEMMA FlattenEmpty == FlattenSeq(<<>>) = <<>>
  BY DEF FlattenSeq

(* One sequence more. *)
LEMMA FlattenAppend ==
  ASSUME NEW T, NEW ss \in Seq(Seq(T)), NEW e \in Seq(T)
  PROVE  FlattenSeq(Append(ss, e)) = FlattenSeq(ss) \o e
<1> DEFINE t == Append(ss, e)
           n == Len(ss)
<1>1. /\ n \in Nat /\ t \in Seq(Seq(T)) /\ Len(t) = n + 1 /\ t[n + 1] = e /\ t # <<>>
      /\ \A i \in 1 .. n : t[i] = ss[i]
      /\ ss = <<>> <=> n = 0
  <2> DEFINE U == Seq(T)
  <2>1. ss \in Seq(U) /\ e \in U
    OBVIOUS
  <2> HIDE DEF U
  <2>2. /\ n \in Nat /\ t \in Seq(U) /\ Len(t) = n + 1 /\ t[n + 1] = e /\ t # <<>>
        /\ \A i \in 1 .. n : t[i] = ss[i]
    BY <2>1
  <2>3. ss = <<>> <=> n = 0
    BY <2>1, EmptySeq
  <2> QED BY <2>2, <2>3 DEF U
<1>3. PICK g : g = Joins(g, t) /\ FlattenSeq(t) = g[n + 1]
  <2> HIDE DEF t, n
  <2> QED BY <1>1, FlattenIsLast
<1>5. \A i \in 1 .. n + 1 : g[i] = IF i = 1 THEN t[i] ELSE g[i - 1] \o t[i]
  <2> HIDE DEF t, n
  <2>1. \A i \in 1 .. Len(t) : g[i] = IF i = 1 THEN t[i] ELSE g[i - 1] \o t[i]
    BY <1>3, Zenon DEF Joins
  <2> QED BY <1>1, <2>1
<1>2. CASE ss = <<>>
  <2>1. g[1] = e
    BY <1>1, <1>2, <1>5
  <2>2. <<>> \o e = e
    BY ConcatEmptySeq
  <2> QED BY <1>1, <1>2, <1>3, <2>1, <2>2, FlattenEmpty
<1>4. CASE ss # <<>>
  <2> HIDE DEF t
  <2>1. PICK f : f = Joins(f, ss) /\ FlattenSeq(ss) = f[n]
    BY <1>4, FlattenIsLast
  <2> HIDE DEF n
  <2>2. \A i \in 1 .. n : f[i] = IF i = 1 THEN ss[i] ELSE f[i - 1] \o ss[i]
    BY <2>1, Zenon DEF Joins, n
  <2>3. \A i \in 1 .. n : g[i] = f[i]
    <3> DEFINE P == {i \in Nat : i \in 1 .. n => g[i] = f[i]}
    <3>1. 0 \in P
      BY <1>1
    <3>2. ASSUME NEW i \in P \cap Nat PROVE i + 1 \in P
      <4> SUFFICES ASSUME i + 1 <= n PROVE g[i + 1] = f[i + 1]
        OBVIOUS
      <4>1. /\ i + 1 \in 1 .. n /\ i + 1 \in 1 .. n + 1 /\ (i + 1) - 1 = i
            /\ t[i + 1] = ss[i + 1] /\ (i + 1 # 1 => g[i] = f[i])
        BY <1>1
      <4> QED BY <1>5, <2>2, <4>1
    <3>3. Nat \subseteq P
      <4> HIDE DEF P
      <4> QED BY <3>1, <3>2, NatSetInduction
    <3> QED BY <1>1, <3>3
  <2>4. n + 1 \in 1 .. n + 1 /\ n + 1 # 1 /\ (n + 1) - 1 = n /\ n \in 1 .. n
    BY <1>1, <1>4
  <2>5. g[n + 1] = f[n] \o e
    BY <1>1, <1>5, <2>3, <2>4
  <2> QED BY <1>3, <2>1, <2>5 DEF t
<1> QED BY <1>2, <1>4

(* What is joined is of the elements of what it is made of.                 *)
LEMMA FlattenType ==
  ASSUME NEW T
  PROVE  \A ss \in Seq(Seq(T)) : FlattenSeq(ss) \in Seq(T)
<1> DEFINE P == {ss \in Seq(Seq(T)) : FlattenSeq(ss) \in Seq(T)}
<1>1. <<>> \in P
  <2>1. <<>> \in Seq(T) /\ <<>> \in Seq(Seq(T))
    OBVIOUS
  <2> QED BY <2>1, FlattenEmpty
<1>2. ASSUME NEW ss \in Seq(Seq(T)) \cap P, NEW e \in Seq(T) PROVE Append(ss, e) \in P
  <2>1. FlattenSeq(Append(ss, e)) = FlattenSeq(ss) \o e /\ FlattenSeq(ss) \in Seq(T)
    BY FlattenAppend
  <2>2. FlattenSeq(ss) \o e \in Seq(T)
    BY <2>1, ConcatProperties
  <2>3. Append(ss, e) \in Seq(Seq(T))
    OBVIOUS
  <2> QED BY <2>1, <2>2, <2>3
<1>3. Seq(Seq(T)) \subseteq P
  <2> HIDE DEF P
  <2> QED BY <1>1, <1>2, SeqInduction
<1> QED BY <1>3

-----------------------------------------------------------------------------
(***************************************************************************)
(* One character                                                           *)
(***************************************************************************)
Texts == Seq(Characters)

State == [args : Seq(Texts), arg : Texts, slashes : Nat,
          open : BOOLEAN, quoted : BOOLEAN, closed : BOOLEAN]

(* No argument is open. *)
Between(args) == [Begun EXCEPT !.args = args, !.open = FALSE]

(* The open argument is p so far, if any is open. *)
Reads(r, args, p, quoted) ==
  /\ r \in State
  /\ r.args = args /\ Held(r) = p /\ r.quoted = quoted
  /\ r.open <=> (p # <<>> \/ quoted)
  /\ ~r.closed
  /\ r.slashes # 0 => p # <<>> /\ Last(p) = Backslash

(* Backslashes at the end of a text. *)
LEMMA SlashesAre ==
  /\ Slashes(0) = <<>>
  /\ \A n \in Nat : Slashes(n) \in Texts /\ Len(Slashes(n)) = n
  /\ \A p \in Texts, n \in Nat :
       p \o Slashes(n + 1) = Append(p \o Slashes(n), Backslash)
<1>1. ASSUME NEW n \in Nat PROVE Slashes(n) \in Texts /\ Len(Slashes(n)) = n
  BY DEF Slashes, Texts, Characters
<1>2. Slashes(0) = <<>>
  BY DEF Slashes
<1>3. ASSUME NEW p \in Texts, NEW n \in Nat
      PROVE  p \o Slashes(n + 1) = Append(p \o Slashes(n), Backslash)
  BY DEF Slashes, Texts, Characters
<1> QED BY <1>1, <1>2, <1>3

(* What a sequence with one element more ends in. *)
LEMMA LastOfAppend ==
  ASSUME NEW T, NEW p \in Seq(T), NEW c \in T
  PROVE  Append(p, c) \in Seq(T) /\ Append(p, c) # <<>> /\ Last(Append(p, c)) = c
  BY DEF Last

(* A sequence that is another one but for its last element. *)
LEMMA AppendIs ==
  ASSUME NEW S, NEW f \in Seq(S), NEW g \in Seq(S), NEW k \in Nat,
         Len(f) = k + 1, Len(g) = k, \A i \in 1 .. k : f[i] = g[i]
  PROVE  f = Append(g, f[k + 1])
<1>1. f[k + 1] \in S
  OBVIOUS
<1> DEFINE h == Append(g, f[k + 1])
<1>2. /\ h \in Seq(S) /\ Len(h) = k + 1 /\ h[k + 1] = f[k + 1]
      /\ \A i \in 1 .. k : h[i] = g[i]
  BY <1>1, AppendProperties
<1> HIDE DEF h
<1>3. \A i \in 1 .. k + 1 : f[i] = h[i]
  BY <1>2
<1>4. f = h
  BY <1>2, <1>3, SeqEqual
<1> QED BY <1>4 DEF h

(* A state after any character is one.                                      *)
LEMMA ReadType ==
  ASSUME NEW r \in State, NEW c \in Characters
  PROVE  Read(r, c) \in State /\ Ended(r) \in State
<1>1. Held(r) \in Texts /\ r.arg \o Slashes(r.slashes \div 2) \in Texts
  <2>1. r.slashes \div 2 \in Nat /\ r.slashes \in Nat /\ r.arg \in Texts
    BY DEF State
  <2>2. Slashes(r.slashes \div 2) \in Texts /\ Slashes(r.slashes) \in Texts
    BY <2>1, SlashesAre
  <2> QED BY <2>1, <2>2, ConcatProperties DEF Held, Texts
<1>2. ASSUME NEW p \in Texts PROVE Goes(r, p) \in State /\ Append(p, c) \in Texts
  <2>1. Append(p, c) \in Texts
    BY DEF Texts
  <2> HIDE DEF Texts
  <2>2. Goes(r, p) \in State
    BY DEF Goes, State
  <2> QED BY <2>1, <2>2
<1>3. Ended(r) \in State
  <2>1. Append(r.args, Held(r)) \in Seq(Texts)
    BY <1>1 DEF State
  <2>2. <<>> \in Texts
    BY DEF Texts
  <2> HIDE DEF Texts
  <2> QED BY <2>1, <2>2 DEF Ended, Begun, State
<1>4. Append(r.arg \o Slashes(r.slashes \div 2), Quote) \in Texts
  BY <1>1 DEF Texts, Characters
<1>5. Mark(r) \in State
  <2> DEFINE pairs == r.arg \o Slashes(r.slashes \div 2)
  <2>1. Goes(r, pairs) \in State /\ Goes(r, Append(pairs, Quote)) \in State
    BY <1>1, <1>2, <1>4
  <2> HIDE DEF pairs
  <2> QED BY <2>1 DEF Mark, State, pairs
<1>6. InName(r, c) \in State
  BY <1>2 DEF InName, State
<1>7. [Goes(r, r.arg) EXCEPT !.slashes = r.slashes + 1] \in State
  BY <1>2 DEF State
<1>8. Goes(r, Append(Held(r), c)) \in State
  BY <1>1, <1>2
<1> QED BY <1>3, <1>5, <1>6, <1>7, <1>8 DEF Read

(* What Goes and Held are, field by field. *)
LEMMA GoesIs ==
  ASSUME NEW r \in State, NEW p \in Texts
  PROVE  /\ Goes(r, p) \in State /\ Held(Goes(r, p)) = p
         /\ Goes(r, p).args = r.args /\ Goes(r, p).arg = p /\ Goes(r, p).slashes = 0
         /\ Goes(r, p).open /\ Goes(r, p).quoted = r.quoted /\ ~Goes(r, p).closed
<1>1. /\ Goes(r, p) \in State
      /\ Goes(r, p).args = r.args /\ Goes(r, p).arg = p /\ Goes(r, p).slashes = 0
      /\ Goes(r, p).open /\ Goes(r, p).quoted = r.quoted /\ ~Goes(r, p).closed
  <2> HIDE DEF Texts
  <2> QED BY DEF Goes, State
<1>2. p \o <<>> = p
  BY ConcatEmptySeq DEF Texts
<1> QED BY <1>1, <1>2, SlashesAre DEF Held

(* The open argument becomes p. *)
LEMMA GoesReads ==
  ASSUME NEW r \in State, NEW p \in Texts, p # <<>>
  PROVE  Reads(Goes(r, p), r.args, p, r.quoted)
<1> DEFINE g == Goes(r, p)
<1>1. /\ g \in State /\ Held(g) = p /\ g.args = r.args /\ g.slashes = 0
      /\ g.open /\ g.quoted = r.quoted /\ ~g.closed
  BY GoesIs
<1> HIDE DEF g
<1>2. Reads(g, r.args, p, r.quoted)
  BY <1>1 DEF Reads
<1> QED BY <1>2 DEF g

(* A character without a meaning of its own goes to the open argument. *)
LEMMA ReadChar ==
  ASSUME NEW r, NEW args, args # <<>>, NEW p \in Texts, NEW quoted \in BOOLEAN,
         NEW c \in Characters \ {Quote, Backslash}, Blank(c) => quoted,
         Reads(r, args, p, quoted)
  PROVE  Reads(Read(r, c), args, Append(p, c), quoted)
<1>1. Read(r, c) = Goes(r, Append(p, c))
  BY DEF Read, Reads
<1>2. Append(p, c) \in Texts /\ Append(p, c) # <<>>
  BY LastOfAppend DEF Texts
<1>3. r \in State /\ r.args = args /\ r.quoted = quoted
  BY DEF Reads
<1> QED BY <1>1, <1>2, <1>3, GoesReads

(* A backslash is held back, and held. *)
LEMMA ReadSlash ==
  ASSUME NEW r, NEW args, args # <<>>, NEW p \in Texts, NEW quoted \in BOOLEAN,
         Reads(r, args, p, quoted)
  PROVE  /\ Reads(Read(r, Backslash), args, Append(p, Backslash), quoted)
         /\ Read(r, Backslash).arg = r.arg
         /\ Read(r, Backslash).slashes = r.slashes + 1
<1> DEFINE g == Goes(r, r.arg)
           h == [g EXCEPT !.slashes = r.slashes + 1]
<1>1. Read(r, Backslash) = h
  BY DEF Read, Reads, Blank, Quote, Backslash, Space, Tab
<1>2. r \in State /\ r.arg \in Texts /\ r.slashes \in Nat
  BY DEF Reads, State
<1>3. /\ g \in State /\ g.args = args /\ g.arg = r.arg
      /\ g.open /\ g.quoted = quoted /\ ~g.closed
  BY <1>2, GoesIs DEF Reads
<1>4. /\ h \in State /\ h.args = args /\ h.arg = r.arg /\ h.slashes = r.slashes + 1
      /\ h.open /\ h.quoted = quoted /\ ~h.closed
  <2> HIDE DEF g, Texts
  <2> QED BY <1>2, <1>3 DEF State
<1>5. Append(p, Backslash) # <<>> /\ Last(Append(p, Backslash)) = Backslash
  BY LastOfAppend DEF Texts, Characters
<1>6. Held(h) = Append(p, Backslash)
  <2>1. Held(h) = r.arg \o Slashes(r.slashes + 1) /\ p = r.arg \o Slashes(r.slashes)
    BY <1>4 DEF Held, Reads
  <2> HIDE DEF h
  <2> QED BY <1>2, <2>1, SlashesAre
<1> HIDE DEF h
<1> QED BY <1>1, <1>4, <1>5, <1>6 DEF Reads

(* A quotation mark with a backslash of its own in front is a character. *)
LEMMA ReadEscapedQuote ==
  ASSUME NEW r, NEW args, args # <<>>, NEW p \in Texts, NEW quoted \in BOOLEAN,
         Reads(r, args, p, quoted), p = <<>> \/ Last(p) # Backslash
  PROVE  Reads(Read(Read(r, Backslash), Quote), args, Append(p, Quote), quoted)
<1> DEFINE s == Read(r, Backslash)
<1>1. r.slashes = 0 /\ r.arg = p
  <2>1. r \in State /\ r.slashes = 0 /\ p = r.arg \o Slashes(r.slashes)
    BY DEF Reads, Held
  <2>2. r.arg \o <<>> = r.arg
    BY <2>1, ConcatEmptySeq DEF State, Texts
  <2> QED BY <2>1, <2>2, SlashesAre
<1>2. Reads(s, args, Append(p, Backslash), quoted) /\ s.arg = p /\ s.slashes = 1
  <2>1. /\ Reads(s, args, Append(p, Backslash), quoted)
        /\ s.arg = r.arg /\ s.slashes = r.slashes + 1
    BY ReadSlash
  <2> HIDE DEF s
  <2> QED BY <1>1, <2>1
<1> HIDE DEF s
<1>3. Append(p, Quote) \in Texts /\ Append(p, Quote) # <<>>
  BY LastOfAppend DEF Texts, Characters
<1>4. Mark(s) = Goes(s, Append(p, Quote))
  <2>1. 1 \div 2 = 0 /\ 1 % 2 = 1
    OBVIOUS
  <2>2. p \o <<>> = p
    BY ConcatEmptySeq DEF Texts
  <2> QED BY <1>2, <2>1, <2>2, SlashesAre DEF Mark
<1>5. Read(s, Quote) = Goes(s, Append(p, Quote))
  BY <1>2, <1>4 DEF Read, Reads, Blank, Quote, Space, Tab
<1>6. s \in State /\ s.args = args /\ s.quoted = quoted
  BY <1>2 DEF Reads
<1> QED BY <1>3, <1>5, <1>6, GoesReads DEF s

-----------------------------------------------------------------------------
(***************************************************************************)
(* One argument                                                            *)
(***************************************************************************)
(* An argument without the quotation marks around it. *)
TextOf(p) == FlattenSeq([i \in DOMAIN p |-> Escaped(p[i])])

(* A text that is read back as it is, within quotation marks or not. *)
Sound(p, quoted) ==
  /\ \A i \in DOMAIN p : Blank(p[i]) => quoted
  /\ \A i \in 1 .. (Len(p) - 1) : ~(p[i] = Backslash /\ p[i + 1] = Quote)

(* The text of an argument grows with it. *)
LEMMA TextOfGrows ==
  /\ TextOf(<<>>) = <<>>
  /\ \A p \in Texts, c \in Characters : TextOf(Append(p, c)) = TextOf(p) \o Escaped(c)
  /\ \A p \in Texts : TextOf(p) \in Texts
  /\ \A c \in Characters : Escaped(c) \in Texts
<1>1. ASSUME NEW c \in Characters PROVE Escaped(c) \in Texts
  <2>1. Backslash \in Characters /\ Quote \in Characters
    BY DEF Characters
  <2> HIDE DEF Characters, Backslash, Quote
  <2>2. <<c>> \in Seq(Characters) /\ <<Backslash, Quote>> \in Seq(Characters)
    BY <2>1
  <2> QED BY <2>2 DEF Escaped, Texts
<1>2. TextOf(<<>>) = <<>>
  <2>1. [i \in DOMAIN <<>> |-> Escaped(<<>>[i])] = <<>>
    OBVIOUS
  <2> QED BY <2>1, FlattenEmpty DEF TextOf
<1>3. ASSUME NEW p \in Texts
      PROVE  [i \in DOMAIN p |-> Escaped(p[i])] \in Seq(Texts)
  <2>1. Len(p) \in Nat /\ DOMAIN p = 1 .. Len(p) /\ \A i \in 1 .. Len(p) : p[i] \in Characters
    BY DEF Texts
  <2>2. \A i \in 1 .. Len(p) : Escaped(p[i]) \in Texts
    BY <1>1, <2>1
  <2> HIDE DEF Texts
  <2> QED BY <2>1, <2>2
<1>4. ASSUME NEW p \in Texts, NEW c \in Characters
      PROVE  TextOf(Append(p, c)) = TextOf(p) \o Escaped(c)
  <2> DEFINE t == Append(p, c)
             n == Len(p)
             e == [i \in DOMAIN p |-> Escaped(p[i])]
             g == [i \in DOMAIN t |-> Escaped(t[i])]
  <2>1. /\ n \in Nat /\ DOMAIN p = 1 .. n /\ DOMAIN t = 1 .. n + 1
        /\ t[n + 1] = c /\ \A i \in 1 .. n : t[i] = p[i]
    BY DEF Texts
  <2>2. e \in Seq(Texts) /\ Escaped(c) \in Texts
    BY <1>1, <1>3
  <2>3. DOMAIN e = 1 .. n /\ DOMAIN g = 1 .. n + 1 /\ g[n + 1] = Escaped(c)
        /\ \A i \in 1 .. n : g[i] = e[i]
    BY <2>1
  <2>7. g \in Seq(Texts)
    <3>1. t \in Texts
      BY DEF Texts
    <3> HIDE DEF t
    <3> QED BY <1>3, <3>1
  <2> HIDE DEF e, g, t, Texts
  <2>5. g = Append(e, Escaped(c))
    <3>1. Len(e) = n
      BY <2>1, <2>2, <2>3
    <3>2. g \in Seq(Texts) /\ Len(g) = n + 1
      BY <2>1, <2>3, <2>7
    <3> QED BY <2>1, <2>2, <2>3, <3>1, <3>2, AppendIs
  <2>6. FlattenSeq(Append(e, Escaped(c))) = FlattenSeq(e) \o Escaped(c)
    BY <2>2, FlattenAppend DEF Texts
  <2> QED BY <2>5, <2>6 DEF TextOf, e, g, t
<1>5. ASSUME NEW p \in Texts PROVE TextOf(p) \in Texts
  BY <1>3, FlattenType DEF TextOf, Texts
<1> QED BY <1>1, <1>2, <1>4, <1>5

(* What an argument's part is, its beginning is. *)
LEMMA SoundPrefix ==
  ASSUME NEW p \in Texts, NEW c \in Characters, NEW quoted \in BOOLEAN,
         Sound(Append(p, c), quoted)
  PROVE  /\ Sound(p, quoted) /\ (Blank(c) => quoted)
         /\ c = Quote => p = <<>> \/ Last(p) # Backslash
<1> DEFINE t == Append(p, c)
           n == Len(p)
<1>1. /\ n \in Nat /\ DOMAIN p = 1 .. n /\ DOMAIN t = 1 .. n + 1 /\ Len(t) = n + 1
      /\ t[n + 1] = c /\ \A i \in 1 .. n : t[i] = p[i]
      /\ p = <<>> <=> n = 0
  BY DEF Texts
<1>2. /\ \A i \in 1 .. n + 1 : Blank(t[i]) => quoted
      /\ \A i \in 1 .. n : ~(t[i] = Backslash /\ t[i + 1] = Quote)
  <2>1. (n + 1) - 1 = n
    BY <1>1
  <2> HIDE DEF t, n
  <2>2. /\ \A i \in DOMAIN t : Blank(t[i]) => quoted
        /\ \A i \in 1 .. (Len(t) - 1) : ~(t[i] = Backslash /\ t[i + 1] = Quote)
    BY DEF Sound, t
  <2> QED BY <1>1, <2>1, <2>2
<1> HIDE DEF t
<1>3. \A i \in DOMAIN p : Blank(p[i]) => quoted
  BY <1>1, <1>2
<1>4. \A i \in 1 .. (Len(p) - 1) : ~(p[i] = Backslash /\ p[i + 1] = Quote)
  BY <1>1, <1>2
<1>5. Blank(c) => quoted
  BY <1>1, <1>2
<1>6. c = Quote => p = <<>> \/ Last(p) # Backslash
  BY <1>1, <1>2 DEF Last
<1> QED BY <1>3, <1>4, <1>5, <1>6 DEF Sound

(* The text of a sound argument is read as that argument. *)
LEMMA ReadText ==
  ASSUME NEW x \in Texts, NEW args, args # <<>>, NEW quoted \in BOOLEAN,
         Reads(After(x), args, <<>>, quoted)
  PROVE  \A p \in Texts :
           Sound(p, quoted) => Reads(After(x \o TextOf(p)), args, p, quoted)
<1> DEFINE P == {p \in Texts :
                   Sound(p, quoted) => Reads(After(x \o TextOf(p)), args, p, quoted)}
<1>1. <<>> \in P
  <2>1. x \o <<>> = x /\ <<>> \in Texts
    BY ConcatEmptySeq DEF Texts
  <2> QED BY <2>1, TextOfGrows
<1>2. ASSUME NEW p \in Texts \cap P, NEW c \in Characters PROVE Append(p, c) \in P
  <2>1. Append(p, c) \in Texts
    BY DEF Texts
  <2> SUFFICES ASSUME Sound(Append(p, c), quoted)
               PROVE  Reads(After(x \o TextOf(Append(p, c))), args, Append(p, c), quoted)
    BY <2>1
  <2> DEFINE y == x \o TextOf(p)
  <2>2. /\ Sound(p, quoted) /\ (Blank(c) => quoted)
        /\ c = Quote => p = <<>> \/ Last(p) # Backslash
    BY SoundPrefix
  <2>3. Reads(After(y), args, p, quoted)
    BY <2>2
  <2>4. y \in Texts /\ TextOf(p) \in Texts /\ Escaped(c) \in Texts
    <3>1. TextOf(p) \in Texts /\ Escaped(c) \in Texts
      BY TextOfGrows
    <3> QED BY <3>1, ConcatProperties DEF Texts
  <2>5. x \o TextOf(Append(p, c)) = y \o Escaped(c)
    <3>1. (x \o TextOf(p)) \o Escaped(c) = x \o (TextOf(p) \o Escaped(c))
      BY <2>4, ConcatAssociative DEF Texts
    <3> QED BY <3>1, TextOfGrows
  <2> HIDE DEF y, P
  <2>6. ASSUME NEW d \in Characters
        PROVE  /\ y \o <<d>> = Append(y, d) /\ Append(y, d) \in Texts
               /\ After(Append(y, d)) = Read(After(y), d)
    <3>1. After(Append(y, d)) = Read(After(y), d)
      BY <2>4, AfterAppend DEF Texts
    <3>2. y \o <<d>> = Append(y, d) /\ Append(y, d) \in Texts
      BY <2>4 DEF Texts
    <3> QED BY <3>1, <3>2
  <2>7. CASE c = Quote
    <3>1. Backslash \in Characters /\ Quote \in Characters
      BY DEF Characters
    <3>2. After(Append(Append(y, Backslash), Quote)) = Read(Read(After(y), Backslash), Quote)
      <4>1. Append(y, Backslash) \in Texts
        BY <2>6, <3>1
      <4>2. After(Append(Append(y, Backslash), Quote)) = Read(After(Append(y, Backslash)), Quote)
        BY <3>1, <4>1, AfterAppend DEF Texts
      <4> QED BY <2>6, <3>1, <4>2
    <3>3. y \o Escaped(c) = Append(Append(y, Backslash), Quote)
      BY <2>4, <2>7, <3>1 DEF Escaped, Texts
    <3> QED BY <2>2, <2>3, <2>5, <2>7, <3>2, <3>3, ReadEscapedQuote
  <2>8. CASE c = Backslash
    <3>1. Escaped(c) = <<c>>
      BY <2>8 DEF Escaped, Quote, Backslash
    <3> QED BY <2>3, <2>5, <2>6, <2>8, <3>1, ReadSlash
  <2>9. CASE c # Quote /\ c # Backslash
    <3>1. Escaped(c) = <<c>>
      BY <2>9 DEF Escaped
    <3>2. Reads(Read(After(y), c), args, Append(p, c), quoted)
      BY <2>2, <2>3, <2>9, ReadChar
    <3> QED BY <2>5, <2>6, <3>1, <3>2
  <2> QED BY <2>7, <2>8, <2>9
<1>3. Texts \subseteq P
  <2> HIDE DEF P
  <2> QED BY <1>1, <1>2, SeqInduction DEF Texts
<1> QED BY <1>3

(* What Argument is, and that it is a text. *)
LEMMA ArgumentIs ==
  ASSUME NEW a \in Texts, NEW x \in Texts
  PROVE  /\ Argument(a) \in Texts
         /\ ~Quoted(a) => Argument(a) = TextOf(a)
         /\ Quoted(a) =>
              x \o Argument(a) = Append(Append(x, Quote) \o TextOf(a), Quote)
<1> DEFINE t == TextOf(a)
           q == <<Quote>>
<1>1. t \in Texts
  BY TextOfGrows
<1>2. q \in Texts
  BY DEF Texts, Characters
<1>3. Argument(a) = IF Quoted(a) THEN (q \o t) \o q ELSE t
  BY DEF Argument, TextOf
<1>4. q \o t \in Texts /\ (q \o t) \o q \in Texts /\ x \o q \in Texts /\ (x \o q) \o t \in Texts
  <2>1. q \o t \in Texts /\ x \o q \in Texts
    BY <1>1, <1>2, ConcatProperties DEF Texts
  <2> QED BY <1>1, <1>2, <2>1, ConcatProperties DEF Texts
<1> HIDE DEF t, q
<1>5. x \o ((q \o t) \o q) = ((x \o q) \o t) \o q
  <2>1. x \o ((q \o t) \o q) = (x \o (q \o t)) \o q
    <3> DEFINE m == q \o t
    <3>1. x \in Seq(Characters) /\ m \in Seq(Characters) /\ q \in Seq(Characters)
      BY <1>2, <1>4 DEF Texts
    <3> HIDE DEF m
    <3>2. x \o (m \o q) = (x \o m) \o q
      BY ONLY <3>1, ConcatAssociative
    <3> QED BY <3>2 DEF m
  <2>2. x \o (q \o t) = (x \o q) \o t
    BY <1>1, <1>2, ConcatAssociative DEF Texts
  <2> QED BY <2>1, <2>2
<1>6. x \o q = Append(x, Quote) /\ ((x \o q) \o t) \o q = Append((x \o q) \o t, Quote)
  <2>1. Quote \in Characters
    BY DEF Characters
  <2> QED BY <1>4, <2>1, AppendIsConcat DEF q, Texts
<1> QED BY <1>1, <1>3, <1>4, <1>5, <1>6 DEF t

(* A quotation mark with no backslash in front begins or ends a quoted part. *)
LEMMA MarkIs ==
  ASSUME NEW r \in State, r.slashes = 0, ~r.closed
  PROVE  Mark(r) =
           [Goes(r, r.arg) EXCEPT !.quoted = ~Goes(r, r.arg).quoted, !.closed = r.quoted]
<1> DEFINE pairs == r.arg \o Slashes(r.slashes \div 2)
<1>1. pairs = r.arg /\ ~(r.slashes % 2 = 1)
  <2>1. 0 % 2 = 0 /\ 0 \div 2 = 0
    OBVIOUS
  <2>2. r.arg \o <<>> = r.arg
    BY ConcatEmptySeq DEF State, Texts
  <2>3. r.slashes % 2 = 0 /\ r.slashes \div 2 = 0
    BY ONLY <2>1, r.slashes = 0
  <2>4. Slashes(r.slashes \div 2) = <<>>
    BY ONLY <2>3, SlashesAre
  <2>5. ~(r.slashes % 2 = 1)
    BY ONLY <2>3
  <2> QED BY ONLY <2>2, <2>4, <2>5
<1>2. Mark(r) =
        IF r.slashes % 2 = 1 THEN Goes(r, Append(pairs, Quote))
        ELSE IF r.closed THEN [Goes(r, Append(pairs, Quote)) EXCEPT !.quoted = TRUE]
        ELSE [Goes(r, pairs) EXCEPT !.quoted = ~Goes(r, pairs).quoted, !.closed = r.quoted]
  BY Zenon DEF Mark
<1> HIDE DEF pairs
<1> QED BY ONLY <1>1, <1>2, ~r.closed, Zenon

(* The state r of the reader ends an argument a after args. *)
Takes(r, args, a) ==
  r \in State /\ ~r.quoted /\ Ended(r) = Between(Append(args, a))

(* An argument that is not fragile is read back as it was given. *)
LEMMA ReadArgument ==
  ASSUME NEW args \in Seq(Texts), args # <<>>, NEW a \in Texts, ~Fragile(a),
         NEW x \in Texts, After(x) = Between(args)
  PROVE  Takes(After(x \o Argument(a)), args, a)
<1> DEFINE b == Between(args)
<1>1. /\ b \in State /\ b.args = args /\ b.arg = <<>> /\ b.slashes = 0
      /\ ~b.open /\ ~b.quoted /\ ~b.closed
  <2>1. <<>> \in Texts
    BY DEF Texts
  <2> HIDE DEF Texts
  <2> QED BY <2>1 DEF Between, Begun, State
<1>2. Held(b) = <<>> /\ <<>> \in Texts
  <2>1. <<>> \in Seq(Characters)
    OBVIOUS
  <2>2. <<>> \o <<>> = <<>>
    BY <2>1, ConcatEmptySeq
  <2> HIDE DEF b
  <2> QED BY <1>1, <2>1, <2>2, SlashesAre DEF Held, Texts
<1> HIDE DEF b
<1>3. Sound(a, Quoted(a)) /\ a # <<>>
  <2>1. DOMAIN a = 1 .. Len(a)
    BY DEF Texts
  <2> QED BY <2>1 DEF Fragile, Sound, Quoted, Contains, Blank
<1>4. CASE ~Quoted(a)
  <2>1. Reads(b, args, <<>>, FALSE)
    BY <1>1, <1>2 DEF Reads
  <2> DEFINE r == After(x \o Argument(a))
  <2>2. Reads(r, args, a, FALSE)
    <3>1. Argument(a) = TextOf(a) /\ Quoted(a) = FALSE
      BY <1>4, ArgumentIs DEF Quoted, Contains
    <3>2. Reads(After(x), args, <<>>, FALSE)
      BY <2>1 DEF b
    <3>3. Sound(a, FALSE)
      BY <1>3, <3>1
    <3> QED BY <3>1, <3>2, <3>3, ReadText
  <2> HIDE DEF r
  <2>3. Takes(r, args, a)
    BY <1>3, <2>2 DEF Reads, Takes, Ended, Between
  <2> QED BY <2>3 DEF r
<1>5. CASE Quoted(a)
  <2> DEFINE y == Append(x, Quote)
             z == y \o TextOf(a)
             r == After(z)
  <2>1. Quote \in Characters /\ y \in Texts
    BY DEF Characters, Texts
  <2>2. z \in Texts
    BY <2>1, TextOfGrows, ConcatProperties DEF Texts
  <2>3. After(y) = Read(b, Quote) /\ After(Append(z, Quote)) = Read(r, Quote)
    <3> HIDE DEF z, y
    <3>1. After(Append(x, Quote)) = Read(After(x), Quote)
      BY <2>1, AfterAppend DEF Texts
    <3>2. After(Append(z, Quote)) = Read(After(z), Quote)
      BY <2>1, <2>2, AfterAppend DEF Texts
    <3> QED BY <3>1, <3>2 DEF y, b
  <2>4. Reads(Read(b, Quote), args, <<>>, TRUE)
    <3> DEFINE g == Goes(b, <<>>)
               h == [g EXCEPT !.quoted = TRUE, !.closed = FALSE]
    <3>1. /\ g \in State /\ g.args = args /\ g.arg = <<>> /\ g.slashes = 0
          /\ g.open /\ Held(g) = <<>>
      BY <1>1, <1>2, GoesIs
    <3>2. Mark(b) = h
      <4>1. g.quoted = FALSE /\ b.quoted = FALSE
        BY <1>1, <1>2, GoesIs DEF State
      <4>2. Mark(b) = [g EXCEPT !.quoted = ~g.quoted, !.closed = b.quoted]
        BY <1>1, MarkIs
      <4> HIDE DEF g
      <4>3. (~g.quoted) = TRUE
        BY <4>1
      <4> QED BY <4>1, <4>2, <4>3
    <3>3. Read(b, Quote) = h
      BY <1>1, <3>2 DEF Read, Blank, Quote, Space, Tab
    <3> HIDE DEF g, Texts
    <3>4. h \in State /\ h.args = args /\ h.arg = <<>> /\ h.slashes = 0
          /\ h.open /\ h.quoted = TRUE /\ ~h.closed
      BY <3>1 DEF State
    <3>5. Held(h) = Held(g)
      BY <3>1, <3>4 DEF Held
    <3> HIDE DEF h
    <3> QED BY <3>1, <3>3, <3>4, <3>5 DEF Reads
  <2>5. Reads(r, args, a, TRUE)
    <3>1. Quoted(a) = TRUE
      BY <1>5 DEF Quoted, Contains
    <3>2. Sound(a, TRUE)
      BY <1>3, <3>1
    <3>3. Reads(After(y), args, <<>>, TRUE)
      BY <2>3, <2>4
    <3> HIDE DEF y
    <3> QED BY <2>1, <3>2, <3>3, ReadText
  <2>6. Last(a) # Backslash
    BY <1>5 DEF Fragile, Quoted
  <2> HIDE DEF r, z
  <2>7. r \in State /\ r.slashes = 0 /\ r.arg = a
    <3>1. r \in State /\ r.slashes = 0 /\ a = r.arg \o Slashes(r.slashes)
      BY <2>5, <2>6 DEF Reads, Held
    <3>2. r.arg \o <<>> = r.arg
      BY <3>1, ConcatEmptySeq DEF State, Texts
    <3> QED BY <3>1, <3>2, SlashesAre
  <2>8. Takes(Read(r, Quote), args, a)
    <3> DEFINE g == Goes(r, a)
               h == [g EXCEPT !.quoted = FALSE, !.closed = TRUE]
    <3>1. /\ g \in State /\ g.args = args /\ g.arg = a /\ g.slashes = 0
          /\ g.open /\ Held(g) = a /\ g.quoted = TRUE
      BY <2>5, <2>7, GoesIs DEF Reads
    <3>2. Mark(r) = h
      <4>1. r.quoted = TRUE /\ ~r.closed
        BY <2>5 DEF Reads
      <4>2. Mark(r) = [g EXCEPT !.quoted = ~g.quoted, !.closed = r.quoted]
        <5>1. r.arg = a /\ r.slashes = 0 /\ ~r.closed /\ r \in State
          BY <2>7, <4>1
        <5> QED BY <5>1, MarkIs
      <4> HIDE DEF g
      <4>3. (~g.quoted) = FALSE
        BY <4>1, <3>1
      <4> QED BY <4>1, <4>2, <4>3
    <3>3. Read(r, Quote) = h
      BY <2>5, <3>2 DEF Read, Reads, Blank, Quote, Space, Tab
    <3> HIDE DEF g, Texts
    <3>4. h \in State /\ h.args = args /\ h.arg = a /\ h.slashes = 0
          /\ h.open /\ h.quoted = FALSE
      BY <3>1 DEF State
    <3>5. Held(h) = a
      BY <3>1, <3>4 DEF Held
    <3> HIDE DEF h
    <3> QED BY <3>3, <3>4, <3>5 DEF Takes, Ended, Between
  <2> QED BY <1>5, <2>3, <2>8, ArgumentIs DEF r, z
<1> QED BY <1>4, <1>5

-----------------------------------------------------------------------------
(***************************************************************************)
(* The program's name                                                      *)
(***************************************************************************)
(* The name is p so far. *)
Names(r, p, quoted) ==
  /\ r \in State
  /\ r.args = <<>> /\ r.arg = p /\ r.slashes = 0 /\ r.open /\ r.quoted = quoted

(* A program's name: no quotation marks, no tabs. *)
IsName(p) == \A i \in DOMAIN p : p[i] # Quote /\ p[i] # Tab

(* Quotation marks begin and end a quoted part of the name. *)
LEMMA NameMark ==
  ASSUME NEW r, NEW p \in Texts, NEW quoted \in BOOLEAN, Names(r, p, quoted)
  PROVE  Names(Read(r, Quote), p, ~quoted)
<1>1. Read(r, Quote) = [r EXCEPT !.quoted = ~r.quoted]
  BY DEF Read, Names, InName, Blank, Quote, Space, Tab
<1>2. r.quoted = quoted /\ (~r.quoted) = (~quoted) /\ (~quoted) \in BOOLEAN
  BY DEF Names
<1>3. Read(r, Quote) = [r EXCEPT !.quoted = ~quoted]
  BY <1>1, <1>2
<1> DEFINE n == ~quoted
<1> HIDE DEF n, Texts
<1>4. n \in BOOLEAN
  BY DEF n
<1>5. Names([r EXCEPT !.quoted = n], p, n)
  BY <1>4 DEF Names, State
<1> QED BY <1>3, <1>5 DEF n

(* The text of a name is read as that name. *)
LEMMA NameText ==
  ASSUME NEW x \in Texts, NEW quoted \in BOOLEAN, Names(After(x), <<>>, quoted)
  PROVE  \A p \in Texts :
           /\ \A i \in DOMAIN p : p[i] # Quote /\ (Blank(p[i]) => quoted)
           => Names(After(x \o TextOf(p)), p, quoted)
<1> DEFINE Good(p) == \A i \in DOMAIN p : p[i] # Quote /\ (Blank(p[i]) => quoted)
           P == {p \in Texts : Good(p) => Names(After(x \o TextOf(p)), p, quoted)}
<1>1. <<>> \in P
  <2>1. x \o <<>> = x /\ <<>> \in Texts
    BY ConcatEmptySeq DEF Texts
  <2> QED BY <2>1, TextOfGrows
<1>2. ASSUME NEW p \in Texts \cap P, NEW c \in Characters PROVE Append(p, c) \in P
  <2>1. Append(p, c) \in Texts
    BY DEF Texts
  <2> SUFFICES ASSUME Good(Append(p, c))
               PROVE  Names(After(x \o TextOf(Append(p, c))), Append(p, c), quoted)
    BY <2>1
  <2> DEFINE y == x \o TextOf(p)
             t == Append(p, c)
  <2>2. c # Quote /\ (Blank(c) => quoted) /\ Good(p)
    <3>1. /\ Len(p) + 1 \in DOMAIN t /\ t[Len(p) + 1] = c
          /\ \A i \in DOMAIN p : i \in DOMAIN t /\ t[i] = p[i]
      BY DEF Texts
    <3>2. \A i \in DOMAIN t : t[i] # Quote /\ (Blank(t[i]) => quoted)
      OBVIOUS
    <3> HIDE DEF t
    <3> QED BY <3>1, <3>2
  <2>3. Names(After(y), p, quoted)
    BY <2>2
  <2>4. TextOf(p) \in Texts /\ Escaped(c) = <<c>> /\ <<c>> \in Texts
    BY <2>2, TextOfGrows DEF Escaped, Texts
  <2>5. y \in Texts
    BY <2>4, ConcatProperties DEF Texts
  <2>6. x \o TextOf(Append(p, c)) = Append(y, c)
    <3>1. (x \o TextOf(p)) \o <<c>> = x \o (TextOf(p) \o <<c>>)
      BY <2>4, ConcatAssociative DEF Texts
    <3>2. TextOf(Append(p, c)) = TextOf(p) \o <<c>>
      BY <2>4, TextOfGrows
    <3> HIDE DEF y
    <3>3. Append(y, c) = y \o <<c>>
      BY <2>5, AppendIsConcat DEF Texts
    <3> QED BY <3>1, <3>2, <3>3 DEF y
  <2> HIDE DEF y, P, t
  <2>7. After(Append(y, c)) = Read(After(y), c)
    BY <2>5, AfterAppend DEF Texts
  <2> DEFINE r == After(y)
  <2>8. Read(r, c) = Goes(r, Append(p, c))
    <3> HIDE DEF r
    <3>1. Names(r, p, quoted)
      BY <2>3 DEF r
    <3> QED BY <2>2, <3>1 DEF Read, Names, InName
  <2>9. Names(Goes(r, Append(p, c)), Append(p, c), quoted)
    <3> HIDE DEF r
    <3>1. Names(r, p, quoted)
      BY <2>3 DEF r
    <3> QED BY <2>1, <3>1, GoesIs DEF Names
  <2> QED BY <2>6, <2>7, <2>8, <2>9
<1>3. Texts \subseteq P
  <2> HIDE DEF P
  <2> QED BY <1>1, <1>2, SeqInduction DEF Texts
<1> QED BY <1>3

(* The program's name is read as it was given. *)
LEMMA ReadProgram ==
  ASSUME NEW a \in Texts, IsName(a)
  PROVE  Takes(After(Argument(a)), <<>>, a)
<1>1. <<>> \in Texts /\ <<>> \o Argument(a) = Argument(a)
  <2>1. <<>> \in Texts
    BY DEF Texts
  <2>2. Argument(a) \in Texts
    BY <2>1, ArgumentIs
  <2> QED BY <2>1, <2>2, ConcatEmptySeq DEF Texts
<1>2. Names(After(<<>>), <<>>, FALSE)
  <2>1. Begun \in State
    <3> HIDE DEF Texts
    <3> QED BY <1>1 DEF Begun, State
  <2>2. Names(Begun, <<>>, FALSE)
    <3> HIDE DEF State
    <3> QED BY <2>1 DEF Begun, Names
  <2> QED BY <2>2, AfterEmpty
<1>3. \A i \in DOMAIN a : a[i] # Quote /\ (Blank(a[i]) => Quoted(a))
  <2>1. DOMAIN a = 1 .. Len(a)
    BY DEF Texts
  <2> QED BY <2>1 DEF IsName, Blank, Quoted, Contains
<1>4. ASSUME NEW r, Names(r, a, FALSE) PROVE Takes(r, <<>>, a)
  <2>1. r.arg = a /\ a \o <<>> = a
    BY <1>4, ConcatEmptySeq DEF Names, Texts
  <2>2. Held(r) = a
    BY <1>4, <2>1, SlashesAre DEF Held, Names
  <2>3. r.args = <<>> /\ r.open /\ ~r.quoted /\ r \in State
    BY <1>4 DEF Names
  <2> QED BY <2>2, <2>3 DEF Takes, Ended, Between
<1>5. CASE ~Quoted(a)
  <2>1. Argument(a) = TextOf(a) /\ Quoted(a) = FALSE
    BY <1>1, <1>5, ArgumentIs DEF Quoted, Contains
  <2>2. Names(After(<<>> \o TextOf(a)), a, FALSE)
    BY <1>1, <1>2, <1>3, <2>1, NameText
  <2> QED BY <1>1, <1>4, <2>1, <2>2
<1>6. CASE Quoted(a)
  <2> DEFINE y == Append(<<>>, Quote)
             z == y \o TextOf(a)
  <2>1. Quote \in Characters /\ y \in Texts
    BY DEF Characters, Texts
  <2> HIDE DEF Quote
  <2>2. z \in Texts
    BY <2>1, TextOfGrows, ConcatProperties DEF Texts
  <2>3. After(y) = Read(After(<<>>), Quote)
    BY <1>1, <2>1, AfterAppend DEF Texts
  <2>4. After(Append(z, Quote)) = Read(After(z), Quote)
    <3> HIDE DEF z
    <3> QED BY <2>1, <2>2, AfterAppend DEF Texts
  <2>5. Names(After(y), <<>>, TRUE)
    <3>1. Names(Read(After(<<>>), Quote), <<>>, ~FALSE)
      BY <1>1, <1>2, NameMark
    <3> QED BY <2>3, <3>1
  <2>6. Argument(a) = Append(z, Quote)
    BY <1>1, <1>6, ArgumentIs
  <2> HIDE DEF y
  <2>7. Names(After(z), a, TRUE)
    BY <1>3, <1>6, <2>1, <2>5, NameText
  <2> HIDE DEF z
  <2>8. Names(Read(After(z), Quote), a, ~TRUE)
    BY <2>7, NameMark
  <2> QED BY <1>4, <2>4, <2>6, <2>8
<1> QED BY <1>5, <1>6

(* The name has been read. *)
HasName(r, name) == r \in State /\ r.args # <<>> /\ r.args[1] = name

(* Once it has been read, nothing changes it. *)
LEMMA KeepsName ==
  ASSUME NEW x \in Texts, NEW name, HasName(After(x), name)
  PROVE  \A y \in Texts : /\ HasName(After(x \o y), name)
                          /\ HasName(Ended(After(x \o y)), name)
<1> DEFINE Keeps(r) == HasName(r, name)
           P == {y \in Texts : Keeps(After(x \o y))}
<1> USE DEF HasName
<1>1. <<>> \in P
  BY ConcatEmptySeq DEF Texts
<1>2. ASSUME NEW r, Keeps(r) PROVE Keeps(Ended(r))
  <2>1. Held(r) \in Texts /\ Ended(r) \in State
    <3>1. Space \in Characters /\ r.arg \in Texts /\ r.slashes \in Nat
      BY <1>2 DEF Characters, State
    <3>2. Ended(r) \in State
      BY <1>2, <3>1, ReadType
    <3> QED BY <3>1, <3>2, SlashesAre, ConcatProperties DEF Held, Texts
  <2>2. Ended(r).args = IF r.open THEN Append(r.args, Held(r)) ELSE r.args
    BY DEF Ended, Begun
  <2>3. Append(r.args, Held(r)) # <<>> /\ Append(r.args, Held(r))[1] = r.args[1]
    <3>1. r.args \in Seq(Texts) /\ r.args # <<>>
      BY <1>2 DEF State
    <3>2. Len(r.args) >= 1
      BY <3>1, EmptySeq, LenProperties
    <3> HIDE DEF Texts
    <3> QED BY <2>1, <3>1, <3>2
  <2> QED BY <1>2, <2>1, <2>2, <2>3
<1>3. ASSUME NEW r, Keeps(r), NEW c \in Characters PROVE Keeps(Read(r, c))
  <2>1. Read(r, c) \in State
    BY <1>3, ReadType
  <2>2. ASSUME NEW p PROVE Goes(r, p).args = r.args
    BY <1>3 DEF Goes, State
  <2>3. Mark(r).args = r.args
    BY <1>3 DEF Mark, Goes, State
  <2>4. [Goes(r, r.arg) EXCEPT !.slashes = r.slashes + 1].args = r.args
    BY <1>3 DEF Goes, State
  <2>5. Read(r, c) = Ended(r) \/ Read(r, c).args = r.args
    BY <1>3, <2>2, <2>3, <2>4 DEF Read
  <2> QED BY <1>2, <1>3, <2>1, <2>5
<1>4. ASSUME NEW y \in Texts \cap P, NEW c \in Characters PROVE Append(y, c) \in P
  <2>1. x \o Append(y, c) = Append(x \o y, c) /\ x \o y \in Texts
    BY ConcatAppend, ConcatProperties DEF Texts
  <2>2. After(Append(x \o y, c)) = Read(After(x \o y), c)
    BY <2>1, AfterAppend DEF Texts
  <2>3. Append(y, c) \in Texts
    BY DEF Texts
  <2>4. Keeps(After(x \o y))
    OBVIOUS
  <2> HIDE DEF Keeps
  <2> QED BY <1>3, <2>1, <2>2, <2>3, <2>4
<1>5. Texts \subseteq P
  <2> HIDE DEF P, Keeps
  <2> QED BY <1>1, <1>4, SeqInduction DEF Texts
<1> QED BY <1>2, <1>5

-----------------------------------------------------------------------------
(***************************************************************************)
(* The whole line                                                          *)
(***************************************************************************)
(* The first k arguments, each followed by a blank, and their line. *)
Parts(a, k) == [i \in 1 .. k |-> Argument(a[i]) \o <<Space>>]
Beginning(a, k) == FlattenSeq(Parts(a, k))

(* What Build makes of the arguments a. *)
Line(a) ==
  FlattenSeq([i \in DOMAIN a |->
                Argument(a[i]) \o (IF i < Len(a) THEN <<Space>> ELSE <<Nul>>)])

(* An argument and what follows it. *)
LEMMA PartType ==
  ASSUME NEW p \in Texts
  PROVE  /\ Argument(p) \in Texts /\ Argument(p) \o <<Space>> \in Texts
         /\ Argument(p) \o <<Space>> \in Seq(Characters \cup {Nul})
         /\ Argument(p) \o <<Nul>> \in Seq(Characters \cup {Nul})
<1>1. <<>> \in Texts
  BY DEF Texts
<1>2. Argument(p) \in Texts
  BY <1>1, ArgumentIs
<1> DEFINE g == Argument(p)
           C == Characters
           D == Characters \cup {Nul}
<1>3. Space \in C /\ Space \in D /\ Nul \in D /\ C \subseteq D
  BY DEF Characters
<1>4. g \in Seq(C) /\ g \in Texts
  BY <1>2 DEF Texts
<1> HIDE DEF g, C, D
<1>5. g \in Seq(D)
  BY <1>3, <1>4
<1>6. <<Space>> \in Seq(C) /\ <<Space>> \in Seq(D) /\ <<Nul>> \in Seq(D)
  BY <1>3
<1>7. g \o <<Space>> \in Seq(C) /\ g \o <<Space>> \in Seq(D) /\ g \o <<Nul>> \in Seq(D)
  BY <1>4, <1>5, <1>6, ConcatProperties
<1> QED BY <1>4, <1>7 DEF g, C, D, Texts

(* The beginning grows by an argument. *)
LEMMA BeginningGrows ==
  ASSUME NEW a \in Seq(Texts)
  PROVE  /\ Beginning(a, 0) = <<>>
         /\ \A k \in 0 .. Len(a) : Beginning(a, k) \in Texts
         /\ \A k \in 0 .. (Len(a) - 1) :
              Beginning(a, k + 1) = Beginning(a, k) \o (Argument(a[k + 1]) \o <<Space>>)
<1>1. ASSUME NEW k \in 0 .. Len(a)
      PROVE  /\ Parts(a, k) \in Seq(Texts) /\ Len(Parts(a, k)) = k
             /\ \A i \in 1 .. k : Parts(a, k)[i] = Argument(a[i]) \o <<Space>>
  <2>1. \A i \in 1 .. k : a[i] \in Texts
    <3> HIDE DEF Texts
    <3> QED OBVIOUS
  <2>2. \A i \in 1 .. k : Argument(a[i]) \o <<Space>> \in Texts
    BY <2>1, PartType
  <2> HIDE DEF Texts
  <2> QED BY <2>2 DEF Parts
<1>2. ASSUME NEW k \in 0 .. Len(a) PROVE Beginning(a, k) \in Texts
  BY <1>1, FlattenType DEF Beginning, Texts
<1>3. ASSUME NEW k \in 0 .. (Len(a) - 1)
      PROVE  Beginning(a, k + 1) = Beginning(a, k) \o (Argument(a[k + 1]) \o <<Space>>)
  <2>1. k \in 0 .. Len(a) /\ k + 1 \in 0 .. Len(a) /\ k \in Nat
    OBVIOUS
  <2> DEFINE f == Parts(a, k + 1)
             g == Parts(a, k)
  <2>2. /\ f \in Seq(Texts) /\ g \in Seq(Texts) /\ Len(f) = k + 1 /\ Len(g) = k
        /\ f[k + 1] = Argument(a[k + 1]) \o <<Space>>
        /\ \A i \in 1 .. k : f[i] = g[i]
    <3>1. /\ f \in Seq(Texts) /\ Len(f) = k + 1
          /\ \A i \in 1 .. k + 1 : f[i] = Argument(a[i]) \o <<Space>>
      BY <1>1, <2>1
    <3>2. /\ g \in Seq(Texts) /\ Len(g) = k
          /\ \A i \in 1 .. k : g[i] = Argument(a[i]) \o <<Space>>
      BY <1>1, <2>1
    <3>3. k + 1 \in 1 .. k + 1 /\ \A i \in 1 .. k : i \in 1 .. k + 1
      BY <2>1
    <3> HIDE DEF f, g, Texts
    <3> QED BY <3>1, <3>2, <3>3
  <2> HIDE DEF f, g
  <2>3. f = Append(g, f[k + 1])
    BY <2>1, <2>2, AppendIs
  <2>4. f[k + 1] \in Texts
    <3>1. k + 1 \in 1 .. Len(f) /\ f \in Seq(Texts)
      BY <2>1, <2>2
    <3> HIDE DEF Texts
    <3> QED BY ONLY <3>1, ElementOfSeq
  <2>5. FlattenSeq(Append(g, f[k + 1])) = FlattenSeq(g) \o f[k + 1]
    BY <2>2, <2>4, FlattenAppend DEF Texts
  <2> QED BY <2>2, <2>3, <2>5 DEF Beginning, f, g
<1>4. Beginning(a, 0) = <<>>
  <2>1. Parts(a, 0) = <<>>
    BY DEF Parts
  <2> QED BY <2>1, FlattenEmpty DEF Beginning
<1> QED BY <1>2, <1>3, <1>4

(* The line is the beginning, the last argument and the terminator. *)
LEMMA LineIs ==
  ASSUME NEW a \in Seq(Texts), a # <<>>
  PROVE  /\ Len(a) \in Nat \ {0}
         /\ SubSeq(Line(a), 1, Len(Line(a)) - 1) =
              Beginning(a, Len(a) - 1) \o Argument(a[Len(a)])
<1> DEFINE n == Len(a)
           D == Characters \cup {Nul}
<1>1. n \in Nat /\ n # 0 /\ n - 1 \in 0 .. n /\ n - 1 \in Nat /\ (n - 1) + 1 = n /\ DOMAIN a = 1 .. n
  <2> HIDE DEF Texts
  <2> QED BY EmptySeq, LenProperties
<1>2. \A i \in 1 .. n : a[i] \in Texts
  <2> HIDE DEF Texts
  <2> QED OBVIOUS
<1> DEFINE f == [i \in DOMAIN a |->
                   Argument(a[i]) \o (IF i < Len(a) THEN <<Space>> ELSE <<Nul>>)]
           g == Parts(a, n - 1)
<1>3. /\ f \in Seq(Seq(D)) /\ Len(f) = n /\ f[n] = Argument(a[n]) \o <<Nul>>
      /\ \A i \in 1 .. (n - 1) : f[i] = Argument(a[i]) \o <<Space>>
  <2>1. \A i \in 1 .. n : Argument(a[i]) \o (IF i < n THEN <<Space>> ELSE <<Nul>>) \in Seq(D)
    BY <1>2, PartType
  <2> DEFINE S == Seq(D)
  <2>2. f = [i \in 1 .. n |-> f[i]] /\ \A i \in 1 .. n : f[i] \in S
    <3>1. \A i \in 1 .. n :
            f[i] = Argument(a[i]) \o (IF i < n THEN <<Space>> ELSE <<Nul>>)
      BY <1>1
    <3>2. f = [i \in 1 .. n |-> f[i]]
      BY <1>1
    <3> HIDE DEF f, n
    <3> QED BY <2>1, <3>1, <3>2
  <2>3. f[n] = Argument(a[n]) \o <<Nul>>
    BY <1>1
  <2>4. \A i \in 1 .. (n - 1) : f[i] = Argument(a[i]) \o <<Space>>
    BY <1>1
  <2> HIDE DEF f, S, n
  <2>5. f \in Seq(S) /\ Len(f) = n
    BY <1>1, <2>2
  <2> QED BY <2>3, <2>4, <2>5 DEF S
<1>4. /\ g \in Seq(Seq(D)) /\ Len(g) = n - 1
      /\ \A i \in 1 .. (n - 1) : g[i] = Argument(a[i]) \o <<Space>>
  <2>1. \A i \in 1 .. (n - 1) : Argument(a[i]) \o <<Space>> \in Seq(D)
    BY <1>1, <1>2, PartType
  <2> DEFINE S == Seq(D)
  <2> HIDE DEF S, n
  <2>2. \A i \in 1 .. (n - 1) : Argument(a[i]) \o <<Space>> \in S
    BY <2>1 DEF S
  <2>3. g \in Seq(S) /\ Len(g) = n - 1
        /\ \A i \in 1 .. (n - 1) : g[i] = Argument(a[i]) \o <<Space>>
    BY <1>1, <2>2 DEF Parts
  <2> QED BY <2>3 DEF S
<1> DEFINE last == Argument(a[n])
           b == Beginning(a, n - 1)
<1>5. Line(a) = b \o (last \o <<Nul>>)
  <2>1. f \in Seq(Seq(D)) /\ g \in Seq(Seq(D)) /\ Len(f) = (n - 1) + 1 /\ Len(g) = n - 1
        /\ \A i \in 1 .. (n - 1) : f[i] = g[i]
    BY <1>1, <1>3, <1>4
  <2>2. n \in 1 .. n
    BY <1>1
  <2> DEFINE k == n - 1
  <2>3. k \in Nat /\ k + 1 = n
    BY <1>1
  <2>4. FlattenSeq(f) = Line(a) /\ FlattenSeq(g) = b
    BY DEF Line, Beginning
  <2> HIDE DEF f, g, k, n, D, b
  <2>5. f = Append(g, f[k + 1])
    BY <2>1, <2>3, AppendIs DEF k
  <2>6. last \o <<Nul>> \in Seq(D)
    BY <1>2, <2>2, PartType DEF D
  <2>7. FlattenSeq(Append(g, last \o <<Nul>>)) = FlattenSeq(g) \o (last \o <<Nul>>)
    BY <2>1, <2>6, FlattenAppend
  <2> QED BY <1>3, <2>3, <2>4, <2>5, <2>7
<1>6. b \in Texts /\ last \in Texts
  <2>1. n \in 1 .. n
    BY <1>1
  <2> QED BY <1>1, <1>2, <2>1, BeginningGrows, PartType
<1> HIDE DEF b, last, n, D
<1>7. b \in Seq(D) /\ last \in Seq(D) /\ <<Nul>> \in Seq(D) /\ b \o last \in Seq(D)
  <2>1. Nul \in D /\ Characters \subseteq D
    BY DEF D
  <2>2. b \in Seq(Characters) /\ last \in Seq(Characters)
    BY <1>6 DEF Texts
  <2> HIDE DEF Characters, Nul
  <2>3. b \in Seq(D) /\ last \in Seq(D) /\ <<Nul>> \in Seq(D)
    BY <2>1, <2>2
  <2> QED BY <2>3, ConcatProperties
<1>8. Line(a) = (b \o last) \o <<Nul>>
  BY <1>5, <1>7, ConcatAssociative
<1> DEFINE c == b \o last
<1>9. SubSeq(c \o <<Nul>>, 1, Len(c \o <<Nul>>) - 1) = c
  <2>1. c \in Seq(D) /\ Nul \in D
    BY <1>7 DEF D
  <2> HIDE DEF c, D, Nul
  <2>2. c \o <<Nul>> = Append(c, Nul)
    BY <2>1, AppendIsConcat
  <2> DEFINE s == Append(c, Nul)
             u == SubSeq(s, 1, Len(c))
  <2>3. s \in Seq(D) /\ Len(s) = Len(c) + 1 /\ Len(c) \in Nat /\ Len(s) - 1 = Len(c)
        /\ \A i \in 1 .. Len(c) : s[i] = c[i]
    BY <2>1
  <2> HIDE DEF s
  <2>4. u \in Seq(D) /\ Len(u) = Len(c) /\ \A i \in 1 .. Len(c) : u[i] = s[i]
    BY <2>3
  <2> HIDE DEF u
  <2>5. u = c
    BY <2>1, <2>3, <2>4, SeqEqual
  <2> QED BY <2>2, <2>3, <2>5 DEF u, s
<1> QED BY <1>1, <1>8, <1>9 DEF n, b, last

(* A blank outside quotation marks ends the argument. *)
LEMMA BlankEnds ==
  ASSUME NEW z \in Texts, NEW args, NEW p, Takes(After(z), args, p)
  PROVE  After(z \o <<Space>>) = Between(Append(args, p))
<1>1. Space \in Characters
  BY DEF Characters
<1>2. z \o <<Space>> = Append(z, Space)
  BY <1>1, AppendIsConcat DEF Texts
<1>3. After(Append(z, Space)) = Read(After(z), Space)
  BY <1>1, AfterAppend DEF Texts
<1> DEFINE r == After(z)
<1> HIDE DEF r
<1>4. Read(r, Space) = Ended(r)
  BY DEF Read, Takes, Blank, r
<1> QED BY <1>2, <1>3, <1>4 DEF Takes, r

(* An argument and its blank, after what was read before. *)
LEMMA ReadPart ==
  ASSUME NEW a \in Seq(Texts), NEW k \in 0 .. (Len(a) - 1)
  PROVE  /\ a[k + 1] \in Texts /\ Beginning(a, k) \in Texts /\ Argument(a[k + 1]) \in Texts
         /\ Beginning(a, k) \o Argument(a[k + 1]) \in Texts
         /\ Beginning(a, k + 1) = (Beginning(a, k) \o Argument(a[k + 1])) \o <<Space>>
<1> DEFINE b == Beginning(a, k)
           g == Argument(a[k + 1])
<1>1. a[k + 1] \in Texts
  <2>1. k + 1 \in 1 .. Len(a)
    BY LenProperties
  <2> HIDE DEF Texts
  <2> QED BY ONLY <2>1, a \in Seq(Texts), ElementOfSeq
<1>2. b \in Texts /\ Beginning(a, k + 1) = b \o (g \o <<Space>>)
  <2>1. k \in 0 .. Len(a)
    BY LenProperties
  <2> QED BY <2>1, BeginningGrows
<1>3. g \in Texts
  BY <1>1, PartType
<1> HIDE DEF b, g
<1>4. <<Space>> \in Texts
  BY DEF Texts, Characters
<1>5. b \o g \in Texts
  BY <1>2, <1>3, ConcatProperties DEF Texts
<1>6. (b \o g) \o <<Space>> = b \o (g \o <<Space>>)
  <2> DEFINE q == <<Space>>
  <2>1. b \in Seq(Characters) /\ g \in Seq(Characters) /\ q \in Seq(Characters)
    BY <1>2, <1>3, <1>4 DEF Texts
  <2> HIDE DEF q
  <2>2. (b \o g) \o q = b \o (g \o q)
    BY ONLY <2>1, ConcatAssociative
  <2> QED BY <2>2 DEF q
<1> QED BY <1>1, <1>2, <1>3, <1>5, <1>6 DEF b, g

(* The first argument and its blank. *)
LEMMA ReadFirst ==
  ASSUME NEW a \in Seq(Texts), a # <<>>, IsName(a[1])
  PROVE  /\ a[1] \in Texts /\ Takes(After(Beginning(a, 0) \o Argument(a[1])), <<>>, a[1])
         /\ Len(a) # 1 => After(Beginning(a, 1)) = Between(<<a[1]>>)
<1>1. 0 \in 0 .. (Len(a) - 1) /\ Len(a) \in Nat \ {0} /\ 0 + 1 = 1
  <2> HIDE DEF Texts
  <2> QED BY EmptySeq, LenProperties
<1>2. /\ a[1] \in Texts /\ Argument(a[1]) \in Texts
      /\ Beginning(a, 0) \o Argument(a[1]) \in Texts
      /\ Beginning(a, 1) = (Beginning(a, 0) \o Argument(a[1])) \o <<Space>>
  BY <1>1, ReadPart
<1>3. Beginning(a, 0) \o Argument(a[1]) = Argument(a[1])
  <2>1. Beginning(a, 0) = <<>>
    BY BeginningGrows
  <2> QED BY <1>2, <2>1, ConcatEmptySeq DEF Texts
<1>4. Takes(After(Argument(a[1])), <<>>, a[1])
  BY <1>2, ReadProgram
<1>5. After(Argument(a[1]) \o <<Space>>) = Between(Append(<<>>, a[1]))
  BY <1>2, <1>4, BlankEnds
<1>6. Append(<<>>, a[1]) = <<a[1]>>
  OBVIOUS
<1> QED BY <1>2, <1>3, <1>4, <1>5, <1>6

(* The first k + 1 arguments are the first k and one more. *)
LEMMA FirstOnes ==
  ASSUME NEW S, NEW a \in Seq(S), NEW k \in 0 .. (Len(a) - 1)
  PROVE  /\ SubSeq(a, 1, k) \in Seq(S) /\ Len(SubSeq(a, 1, k)) = k
         /\ Append(SubSeq(a, 1, k), a[k + 1]) = SubSeq(a, 1, k + 1)
         /\ SubSeq(a, 1, Len(a)) = a
<1> DEFINE f == SubSeq(a, 1, k + 1)
           g == SubSeq(a, 1, k)
           h == SubSeq(a, 1, Len(a))
<1>1. Len(a) \in Nat /\ k \in Nat /\ k + 1 <= Len(a)
  BY LenProperties
<1>2. /\ f \in Seq(S) /\ Len(f) = k + 1 /\ \A i \in 1 .. k + 1 : f[i] = a[i]
      /\ g \in Seq(S) /\ Len(g) = k /\ \A i \in 1 .. k : g[i] = a[i]
  BY <1>1
<1>3. h \in Seq(S) /\ Len(h) = Len(a) /\ \A i \in 1 .. Len(a) : h[i] = a[i]
  BY <1>1
<1> HIDE DEF f, g, h
<1>4. f = Append(g, f[k + 1])
  BY <1>1, <1>2, AppendIs
<1>5. h = a
  BY <1>3, SeqEqual
<1>6. f[k + 1] = a[k + 1]
  BY <1>1, <1>2
<1> QED BY <1>2, <1>4, <1>5, <1>6 DEF f, g, h

(* What has been read when k arguments, none of them fragile, have been. *)
LEMMA ReadBeginning ==
  ASSUME NEW a \in Seq(Texts), a # <<>>, IsName(a[1]),
         \A i \in 2 .. Len(a) : ~Fragile(a[i])
  PROVE  \A k \in 1 .. (Len(a) - 1) : After(Beginning(a, k)) = Between(SubSeq(a, 1, k))
<1> DEFINE n == Len(a)
           P == {k \in Nat : k \in 1 .. (n - 1) =>
                                After(Beginning(a, k)) = Between(SubSeq(a, 1, k))}
<1>1. n \in Nat
  BY LenProperties
<1> HIDE DEF n
<1>2. 0 \in P
  BY <1>1
<1>3. ASSUME NEW k \in P \cap Nat PROVE k + 1 \in P
  <2> SUFFICES ASSUME k + 1 \in 1 .. (n - 1)
               PROVE  After(Beginning(a, k + 1)) = Between(SubSeq(a, 1, k + 1))
    OBVIOUS
  <2>1. k \in 0 .. (Len(a) - 1) /\ k \in Nat /\ k + 1 <= n - 1 /\ k + 1 \in 1 .. Len(a)
    BY <1>1 DEF n
  <2>2. Append(SubSeq(a, 1, k), a[k + 1]) = SubSeq(a, 1, k + 1)
        /\ SubSeq(a, 1, k) \in Seq(Texts) /\ Len(SubSeq(a, 1, k)) = k
    BY <2>1, FirstOnes
  <2>3. CASE k = 0
    <3>1. n # 1
      BY <1>1, <2>1
    <3>2. After(Beginning(a, 1)) = Between(<<a[1]>>)
      BY <3>1, ReadFirst DEF n
    <3>3. SubSeq(a, 1, 0) = <<>> /\ Append(<<>>, a[1]) = <<a[1]>> /\ 0 + 1 = 1
      OBVIOUS
    <3> QED BY <2>2, <2>3, <3>2, <3>3
  <2>4. CASE k # 0
    <3>1. k \in 1 .. (n - 1) /\ k + 1 \in 2 .. Len(a)
      BY <1>1, <2>1, <2>4 DEF n
    <3> DEFINE s == SubSeq(a, 1, k)
               z == Beginning(a, k) \o Argument(a[k + 1])
    <3>2. After(Beginning(a, k)) = Between(s)
      BY <3>1
    <3>3. s \in Seq(Texts) /\ s # <<>>
      <4>1. s \in Seq(Texts) /\ Len(s) # 0
        BY <2>2, <2>4
      <4> HIDE DEF s, Texts
      <4> QED BY <4>1, EmptySeq
    <3>4. /\ a[k + 1] \in Texts /\ Beginning(a, k) \in Texts /\ z \in Texts
          /\ Beginning(a, k + 1) = z \o <<Space>>
      BY <2>1, ReadPart
    <3>5. ~Fragile(a[k + 1])
      BY <3>1
    <3> HIDE DEF s
    <3>6. Takes(After(z), s, a[k + 1])
      BY <3>2, <3>3, <3>4, <3>5, ReadArgument
    <3> HIDE DEF z
    <3>7. After(z \o <<Space>>) = Between(Append(s, a[k + 1]))
      BY <3>4, <3>6, BlankEnds
    <3> QED BY <2>2, <3>4, <3>7 DEF s
  <2> QED BY <2>3, <2>4
<1>4. Nat \subseteq P
  <2> HIDE DEF P
  <2> QED BY <1>2, <1>3, NatSetInduction
<1> QED BY <1>1, <1>4 DEF n

(* What has been read when k arguments have been, whatever they are. *)
LEMMA ReadNameFirst ==
  ASSUME NEW a \in Seq(Texts), a # <<>>, IsName(a[1])
  PROVE  \A k \in 1 .. (Len(a) - 1) : HasName(After(Beginning(a, k)), a[1])
<1> DEFINE n == Len(a)
           P == {k \in Nat : k \in 1 .. (n - 1) => HasName(After(Beginning(a, k)), a[1])}
<1>1. n \in Nat
  BY LenProperties
<1> HIDE DEF n
<1>2. 0 \in P
  BY <1>1
<1>3. ASSUME NEW k \in P \cap Nat PROVE k + 1 \in P
  <2> SUFFICES ASSUME k + 1 \in 1 .. (n - 1)
               PROVE  HasName(After(Beginning(a, k + 1)), a[1])
    OBVIOUS
  <2>1. k \in 0 .. (Len(a) - 1) /\ k \in Nat /\ k + 1 <= n - 1
    BY <1>1 DEF n
  <2>2. CASE k = 0
    <3>1. n # 1
      BY <1>1, <2>1
    <3>2. After(Beginning(a, 1)) = Between(<<a[1]>>) /\ a[1] \in Texts
      BY <3>1, ReadFirst DEF n
    <3> DEFINE p == a[1]
    <3> HIDE DEF p, Texts
    <3>3. p \in Texts => /\ <<p>> \in Seq(Texts) /\ <<p>> # <<>> /\ <<p>>[1] = p
      OBVIOUS
    <3>4. <<>> \in Texts
      BY DEF Texts
    <3>5. p \in Texts => HasName(Between(<<p>>), p)
      BY <3>3, <3>4 DEF HasName, Between, Begun, State
    <3> QED BY <2>2, <3>2, <3>5 DEF p
  <2>3. CASE k # 0
    <3>1. k \in 1 .. (n - 1)
      BY <1>1, <2>1, <2>3
    <3> DEFINE x == Beginning(a, k)
               y == Argument(a[k + 1]) \o <<Space>>
    <3>2. x \in Texts /\ a[k + 1] \in Texts
      BY <2>1, ReadPart
    <3>3. y \in Texts
      BY <3>2, PartType
    <3>4. Beginning(a, k + 1) = x \o y
      BY <2>1, BeginningGrows
    <3>5. HasName(After(x), a[1])
      BY <3>1
    <3> HIDE DEF x, y
    <3> QED BY <3>2, <3>3, <3>4, <3>5, KeepsName
  <2> QED BY <2>2, <2>3
<1>4. Nat \subseteq P
  <2> HIDE DEF P
  <2> QED BY <1>2, <1>3, NatSetInduction
<1> QED BY <1>1, <1>4 DEF n

-----------------------------------------------------------------------------
(***************************************************************************)
(* The properties                                                          *)
(***************************************************************************)
(* The arguments are texts, the first one a name; the command line, when   *)
(* there is one, is what wmain makes of them.                              *)
Assembled ==
  /\ argv \in Seq(Texts) /\ argv # <<>> /\ IsName(argv[1])
  /\ command_line # <<>> => command_line = Line(argv)

(* Arguments that winc is started with are texts, its program's name is one. *)
LEMMA AssembledInit == Init => Assembled
<1> SUFFICES ASSUME Init PROVE Assembled
  OBVIOUS
<1>1. PICK p \in Programs, args \in SeqOf(Strings, MaxArgs) : argv = <<p>> \o args
  BY DEF Init
<1>2. \A S, n : SeqOf(S, n) \subseteq Seq(S)
  BY DEF SeqOf
<1>3. p \in Texts /\ IsName(p)
  <2>1. p \in Seq({Space, Backslash, Other})
    BY <1>2 DEF Programs
  <2>2. \A i \in DOMAIN p : p[i] \in {Space, Backslash, Other}
    BY <2>1
  <2>3. IsName(p)
    BY <2>2 DEF IsName, Quote, Tab, Space, Backslash, Other
  <2>4. {Space, Backslash, Other} \subseteq Characters
    BY DEF Characters
  <2> DEFINE C == {Space, Backslash, Other}
  <2> HIDE DEF C, Characters
  <2>5. C \subseteq Characters /\ p \in Seq(C)
    BY <2>1, <2>4 DEF C
  <2>6. p \in Seq(Characters)
    BY <2>5
  <2> QED BY <2>3, <2>6 DEF Texts
<1>4. args \in Seq(Texts)
  <2>1. args \in Seq(Strings) /\ Strings \subseteq Texts
    BY <1>2 DEF Strings, Texts
  <2> HIDE DEF Strings, Texts
  <2> QED BY <2>1
<1>5. argv \in Seq(Texts) /\ argv # <<>> /\ argv[1] = p
  <2> HIDE DEF Texts, Programs, Strings
  <2>1. <<p>> \in Seq(Texts) /\ Len(<<p>>) = 1 /\ <<p>>[1] = p
    BY <1>3
  <2> DEFINE q == <<p>>
  <2> HIDE DEF q
  <2>2. q \in Seq(Texts) /\ Len(q) = 1 /\ q[1] = p /\ argv = q \o args
    BY <1>1, <2>1 DEF q
  <2>3. /\ q \o args \in Seq(Texts) /\ Len(q \o args) = 1 + Len(args) /\ Len(args) \in Nat
        /\ (q \o args)[1] = p
    BY <1>4, <2>2, ConcatProperties, LenProperties
  <2> QED BY <2>2, <2>3
<1> QED BY <1>3, <1>5 DEF Assembled, Init

(* Building the line is the only step that changes anything. *)
LEMMA AssembledNext == Assembled /\ [Next]_vars => Assembled'
<1> SUFFICES ASSUME Assembled, [Next]_vars PROVE Assembled'
  OBVIOUS
<1> HIDE DEF Texts
<1>1. CASE Build
  <2>1. command_line' = Line(argv) /\ argv' = argv
    BY <1>1 DEF Build, Line, Terminator
  <2> QED BY <2>1 DEF Assembled
<1>2. CASE UNCHANGED vars
  BY <1>2 DEF Assembled, vars
<1> QED BY <1>1, <1>2 DEF Next, Spawned

(* What the two states say of the line, they say of what is read from it. *)
LEMMA AssembledArrive == Assembled => ArgumentsArrive
<1> SUFFICES ASSUME Assembled, command_line # <<>>
             PROVE  /\ Parsed[1] = argv[1]
                    /\ (\A i \in 2 .. Len(argv) : ~Fragile(argv[i])) => Parsed = argv
  BY DEF ArgumentsArrive
<1> DEFINE n == Len(argv)
           k == n - 1
           x == Beginning(argv, k)
           last == argv[n]
<1>1. argv \in Seq(Texts) /\ argv # <<>> /\ IsName(argv[1]) /\ command_line = Line(argv)
  BY DEF Assembled
<1>2. n \in Nat \ {0} /\ k \in Nat /\ k + 1 = n /\ k \in 0 .. (n - 1) /\ n \in 1 .. n
  <2>1. n \in Nat \ {0}
    BY <1>1, LineIs
  <2> HIDE DEF n
  <2> QED BY <2>1
<1>3. Text = x \o Argument(last)
  BY <1>1, LineIs DEF Text
<1>4. last \in Texts /\ x \in Texts /\ Argument(last) \in Texts
  BY <1>1, <1>2, ReadPart
<1> HIDE DEF x, last
<1>5. ASSUME Takes(After(Text), SubSeq(argv, 1, k), last) PROVE Parsed = argv
  <2>1. Ended(After(Text)) = Between(Append(SubSeq(argv, 1, k), last))
    BY <1>5 DEF Takes
  <2>2. Append(SubSeq(argv, 1, k), last) = argv
    <3>1. Append(SubSeq(argv, 1, k), argv[k + 1]) = SubSeq(argv, 1, k + 1)
          /\ SubSeq(argv, 1, n) = argv
      BY <1>1, <1>2, FirstOnes
    <3> QED BY <1>2, <3>1 DEF last
  <2> HIDE DEF Texts
  <2> QED BY <2>1, <2>2 DEF Parsed, Between, Begun
<1>6. CASE n = 1
  <2>1. Takes(After(Beginning(argv, 0) \o Argument(argv[1])), <<>>, argv[1])
    BY <1>1, ReadFirst
  <2>2. k = 0 /\ SubSeq(argv, 1, 0) = <<>> /\ x = Beginning(argv, 0) /\ last = argv[1]
    BY <1>6 DEF x, last
  <2>3. Parsed = argv
    BY <1>3, <1>5, <2>1, <2>2
  <2> QED BY <2>3
<1>7. CASE n # 1
  <2>1. k \in 1 .. (n - 1)
    <3> HIDE DEF n
    <3> QED BY <1>2, <1>7
  <2>2. Parsed[1] = argv[1]
    <3>1. HasName(After(x), argv[1])
      BY <1>1, <2>1, ReadNameFirst DEF x
    <3>2. HasName(Ended(After(x \o Argument(last))), argv[1])
      BY <1>4, <3>1, KeepsName
    <3> QED BY <1>3, <3>2 DEF HasName, Parsed
  <2>3. ASSUME \A i \in 2 .. n : ~Fragile(argv[i]) PROVE Parsed = argv
    <3> DEFINE s == SubSeq(argv, 1, k)
    <3>1. After(x) = Between(s)
      BY <1>1, <2>1, <2>3, ReadBeginning DEF x
    <3>2. s \in Seq(Texts) /\ Len(s) = k
      BY <1>1, <1>2, FirstOnes
    <3>3. ~Fragile(last)
      <4>1. n \in 2 .. n
        <5> HIDE DEF n
        <5> QED BY <1>2, <1>7
      <4> QED BY <2>3, <4>1 DEF last
    <3>4. s # <<>>
      <4> HIDE DEF s, Texts
      <4>1. Len(s) # 0
        BY <2>1, <3>2
      <4> QED BY <3>2, <4>1, EmptySeq
    <3> HIDE DEF s
    <3>5. Takes(After(x \o Argument(last)), s, last)
      BY <1>4, <3>1, <3>2, <3>3, <3>4, ReadArgument
    <3> QED BY <1>3, <1>5, <3>5 DEF s
  <2> QED BY <2>2, <2>3
<1> QED BY <1>6, <1>7

(* The process gets exactly the arguments that winc was given, however     *)
(* long and however many they are, unless one of them is fragile; its      *)
(* program's name it gets whatever they are.                               *)
THEOREM ArgumentsIntact == Spec => []ArgumentsArrive
<1>1. Assembled /\ [Next]_vars => Assembled'
  BY AssembledNext
<1> QED BY <1>1, AssembledInit, AssembledArrive, PTL DEF Spec
=============================================================================
