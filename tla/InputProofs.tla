----------------------------- MODULE InputProofs -----------------------------
(***************************************************************************)
(* Proofs about Input: however the bytes of a socket arrive, each line is  *)
(* interpreted once and in order, and its tokens are those that one pass   *)
(* over its characters would find.                                         *)
(***************************************************************************)
EXTENDS Input, FiniteSetTheorems, SequenceTheorems, WellFoundedInduction, TLAPS

(***************************************************************************)
(* Numbers, sets of them, and functions defined by recursion.              *)
(***************************************************************************)

(* A set of numbers has a least one. *)
LEMMA LeastNumber ==
    ASSUME NEW S \in SUBSET Nat, S # {}
    PROVE  \E m \in S : \A k \in S : m <= k
  <1> DEFINE R == OpToRel(<, Nat)
  <1>1. IsWellFoundedOn(R, Nat)
    BY NatLessThanWellFounded
  <1>2. PICK m \in S : \A k \in S : <<k, m>> \notin R
    <2> HIDE DEF R
    <2> QED BY <1>1, WFMin
  <1>3. \A k \in S : ~ (k < m)
    BY <1>2 DEF OpToRel
  <1> QED BY <1>3

(* A set that goes on from each of its numbers to the next has them all.   *)
LEMMA AllNumbers ==
    ASSUME NEW S \in SUBSET Nat, 0 \in S, \A n \in S : n + 1 \in S
    PROVE  S = Nat
  <1>1. SUFFICES ASSUME Nat \ S # {} PROVE FALSE
    OBVIOUS
  <1>2. PICK m \in Nat \ S : \A k \in Nat \ S : m <= k
    BY <1>1, LeastNumber
  <1>3. m # 0 /\ m \in Nat
    BY <1>2
  <1>4. m - 1 \in Nat /\ (m - 1) + 1 = m /\ ~ (m <= m - 1)
    BY <1>3
  <1>5. m - 1 \in S
    BY <1>2, <1>4
  <1> QED BY <1>2, <1>4, <1>5

(* A recursion over finitely many stages: the value at j is given, or      *)
(* comes from the value at a place of an earlier stage.                    *)
Recursion(N, D, S, B, mu, succ, base, step) ==
    /\ N \in Nat /\ B \in SUBSET D /\ mu \in [D -> 0..N]
    /\ succ \in [D \ B -> D] /\ base \in [B -> S] /\ step \in [(D \ B) \X S -> S]
    /\ \A j \in D \ B : mu[succ[j]] < mu[j]

(* It defines a function. *)
LEMMA RecursionExists ==
    ASSUME NEW N, NEW D, NEW S, NEW B, NEW mu, NEW succ, NEW base, NEW step,
           Recursion(N, D, S, B, mu, succ, base, step)
    PROVE  \E f \in [D -> S] :
              \A j \in D : f[j] = IF j \in B THEN base[j] ELSE step[<<j, f[succ[j]]>>]
  <1>0. /\ N \in Nat /\ B \in SUBSET D /\ mu \in [D -> 0..N]
        /\ succ \in [D \ B -> D] /\ base \in [B -> S] /\ step \in [(D \ B) \X S -> S]
        /\ \A j \in D \ B : mu[succ[j]] < mu[j]
    BY DEF Recursion
  <1> USE <1>0
  <1> DEFINE Below(n) == {j \in D : mu[j] < n}
             Fits(f, n) == \A j \in Below(n) :
                              f[j] = IF j \in B THEN base[j] ELSE step[<<j, f[succ[j]]>>]
             T == {n \in Nat : \E f \in [Below(n) -> S] : Fits(f, n)}
  <1>1. 0 \in T
    <2>1. Below(0) = {}
      OBVIOUS
    <2>2. [j \in {} |-> 0] \in [Below(0) -> S]
      BY <2>1
    <2>3. Fits([j \in {} |-> 0], 0)
      BY <2>1
    <2> QED BY <2>2, <2>3
  <1>2. ASSUME NEW n \in T PROVE n + 1 \in T
    <2>1. PICK f \in [Below(n) -> S] : Fits(f, n)
      OBVIOUS
    <2> DEFINE g == [j \in Below(n + 1) |-> IF j \in B THEN base[j] ELSE step[<<j, f[succ[j]]>>]]
    <2>2. n \in Nat /\ n + 1 \in Nat
      OBVIOUS
    <2>3. \A j \in Below(n + 1) : j \notin B => succ[j] \in Below(n)
      <3>1. SUFFICES ASSUME NEW j \in Below(n + 1), j \notin B PROVE succ[j] \in Below(n)
        OBVIOUS
      <3>2. mu[j] \in Nat /\ mu[j] < n + 1 /\ mu[succ[j]] \in Nat /\ mu[succ[j]] < mu[j]
        BY <3>1
      <3> QED BY <2>2, <3>1, <3>2
    <2>4. g \in [Below(n + 1) -> S]
      <3>1. ASSUME NEW j \in Below(n + 1)
            PROVE  (IF j \in B THEN base[j] ELSE step[<<j, f[succ[j]]>>]) \in S
        <4>1. CASE j \in B
          BY <4>1
        <4>2. CASE j \notin B
          <5>1. f[succ[j]] \in S /\ j \in D \ B
            BY <2>3, <4>2
          <5>2. <<j, f[succ[j]]>> \in (D \ B) \X S
            BY <5>1
          <5> QED BY <4>2, <5>2
        <4> QED BY <4>1, <4>2
      <3> HIDE DEF Below
      <3> QED BY <3>1
    <2>5. \A j \in Below(n) : j \in Below(n + 1) /\ g[j] = f[j]
      <3>1. ASSUME NEW j \in Below(n) PROVE j \in Below(n + 1) /\ g[j] = f[j]
        <4>1. mu[j] \in Nat /\ mu[j] < n
          OBVIOUS
        <4>2. j \in Below(n + 1)
          BY <2>2, <4>1
        <4>3. f[j] = IF j \in B THEN base[j] ELSE step[<<j, f[succ[j]]>>]
          BY <2>1
        <4> HIDE DEF Below
        <4> QED BY <4>2, <4>3
      <3> QED BY <3>1
    <2>6. Fits(g, n + 1)
      <3>1. ASSUME NEW j \in Below(n + 1)
            PROVE  g[j] = IF j \in B THEN base[j] ELSE step[<<j, g[succ[j]]>>]
        <4>1. j \notin B => g[succ[j]] = f[succ[j]]
          BY <2>3, <2>5
        <4>2. g[j] = IF j \in B THEN base[j] ELSE step[<<j, f[succ[j]]>>]
          OBVIOUS
        <4> HIDE DEF g, Below
        <4> QED BY <4>1, <4>2
      <3> QED BY <3>1
    <2> HIDE DEF Below, g, Fits
    <2> QED BY <2>2, <2>4, <2>6
  <1>3. N + 1 \in T
    <2>1. T \in SUBSET Nat
      OBVIOUS
    <2> HIDE DEF T
    <2>2. T = Nat
      BY <1>1, <1>2, <2>1, AllNumbers
    <2> QED BY <2>2
  <1>4. Below(N + 1) = D
    OBVIOUS
  <1>5. PICK f \in [Below(N + 1) -> S] : Fits(f, N + 1)
    BY <1>3
  <1> HIDE DEF Below
  <1> QED BY <1>4, <1>5

(* What holds of the places where the recursion ends, and of a place if it *)
(* holds of the place that its value comes from, holds of all.             *)
LEMMA StageInduction ==
    ASSUME NEW N, NEW D, NEW S, NEW B, NEW mu, NEW succ, NEW base, NEW step,
           Recursion(N, D, S, B, mu, succ, base, step),
           NEW T, B \subseteq T, \A j \in D \ B : succ[j] \in T => j \in T
    PROVE  D \subseteq T
  <1>0. /\ N \in Nat /\ mu \in [D -> 0..N] /\ succ \in [D \ B -> D]
        /\ \A j \in D \ B : mu[succ[j]] < mu[j]
    BY DEF Recursion
  <1> DEFINE M == {n \in Nat : \E j \in D \ T : mu[j] = n}
  <1>1. SUFFICES ASSUME NEW k \in D \ T PROVE FALSE
    OBVIOUS
  <1>2. M \in SUBSET Nat /\ M # {}
    <2>1. mu[k] \in Nat
      BY <1>0
    <2>2. mu[k] \in M
      BY <2>1
    <2> QED BY <2>2
  <1>3. PICK m \in M : \A n \in M : m <= n
    <2> HIDE DEF M
    <2> QED BY <1>2, LeastNumber
  <1>4. PICK j \in D \ T : mu[j] = m
    BY <1>3
  <1>5. j \in D \ B /\ succ[j] \in D /\ succ[j] \notin T
    BY <1>0
  <1>6. mu[succ[j]] \in M
    <2>1. mu[succ[j]] \in Nat
      BY <1>0, <1>5
    <2> QED BY <1>5, <2>1
  <1>7. m <= mu[succ[j]] /\ mu[succ[j]] < m /\ mu[succ[j]] \in Nat /\ m \in Nat
    BY <1>0, <1>3, <1>4, <1>5, <1>6
  <1> QED BY <1>7

(* Least picks the least number of a set. *)
LEMMA LeastFacts ==
    ASSUME NEW S \in SUBSET Nat, S # {}
    PROVE  Least(S) \in S /\ \A j \in S : Least(S) <= j
  BY LeastNumber DEF Least

(* ... and there is only one. *)
LEMMA LeastIs ==
    ASSUME NEW S \in SUBSET Nat, NEW m \in S, \A j \in S : m <= j
    PROVE  Least(S) = m
  <1>1. Least(S) \in S /\ \A j \in S : Least(S) <= j
    BY LeastFacts
  <1>2. Least(S) <= m /\ m <= Least(S) /\ m \in Nat /\ Least(S) \in Nat
    BY <1>1
  <1> QED BY <1>2

-----------------------------------------------------------------------------
(***************************************************************************)
(* The characters of a line, and the functions that read it.               *)
(***************************************************************************)

(* Quotes are not blanks or backslashes, and escapes stand for characters. *)
LEMMA CharFacts ==
    /\ \A q \in Quotes : q \notin Blank /\ q # Backslash /\ q \notin DOMAIN Escapes /\ q \in Char
    /\ Backslash \notin DOMAIN Escapes /\ Backslash \notin Quotes /\ Space \notin Quotes
    /\ \A c \in Char : Meaning(c) \in Char
    /\ Backslash \in Char /\ Space \in Char
  BY InputAssumption DEF Blank, Meaning, Char

(* A line is a function of its places. *)
LEMMA LineFacts ==
    ASSUME NEW l \in Seq(Char)
    PROVE  Len(l) \in Nat /\ \A i \in 1..Len(l) : l[i] \in Char
  BY LenProperties, ElementOfSeq

(* What SkipWspc passes over is blank, and what follows is not. *)
LEMMA SkipFacts ==
    ASSUME NEW l \in Seq(Char), NEW p \in 1..(Len(l) + 1)
    PROVE  /\ SkipWspc(l, p) \in p..(Len(l) + 1)
           /\ SkipWspc(l, p) <= Len(l) => l[SkipWspc(l, p)] \notin Blank
           /\ \A j \in p..(SkipWspc(l, p) - 1) : j <= Len(l) /\ l[j] \in Blank
  <1> DEFINE S == {j \in p..(Len(l) + 1) : j > Len(l) \/ l[j] \notin Blank}
  <1>0. Len(l) \in Nat /\ p \in Nat /\ p <= Len(l) + 1
    BY LineFacts
  <1>1. S \in SUBSET Nat /\ Len(l) + 1 \in S
    BY <1>0
  <1>2. SkipWspc(l, p) = Least(S)
    BY DEF SkipWspc
  <1>3. Least(S) \in S /\ \A j \in S : Least(S) <= j
    <2> HIDE DEF S
    <2> QED BY <1>1, LeastFacts
  <1>4. \A j \in p..(Least(S) - 1) : j <= Len(l) /\ l[j] \in Blank
    <2>1. SUFFICES ASSUME NEW j \in p..(Least(S) - 1) PROVE j <= Len(l) /\ l[j] \in Blank
      OBVIOUS
    <2>2. Least(S) \in Nat /\ Least(S) <= Len(l) + 1
      BY <1>0, <1>3
    <2>3. j \in Nat /\ ~ (Least(S) <= j) /\ j \in p..(Len(l) + 1)
      BY <1>0, <2>1, <2>2
    <2>4. j \notin S
      BY <1>3, <2>3
    <2> QED BY <1>0, <2>3, <2>4
  <1> QED BY <1>0, <1>2, <1>3, <1>4

(* Starting at a blank that it passes over, SkipWspc ends at the same place. *)
LEMMA SkipFrom ==
    ASSUME NEW l \in Seq(Char), NEW p \in 1..(Len(l) + 1), NEW r \in p..SkipWspc(l, p)
    PROVE  r \in 1..(Len(l) + 1) /\ SkipWspc(l, r) = SkipWspc(l, p)
  <1>0. Len(l) \in Nat /\ SkipWspc(l, p) \in p..(Len(l) + 1) /\ p \in Nat
    BY LineFacts, SkipFacts
  <1>1. r \in 1..(Len(l) + 1)
    BY <1>0
  <1> DEFINE i == SkipWspc(l, p)
             k == SkipWspc(l, r)
  <1>2. i \in Nat /\ i <= Len(l) + 1 /\ r <= i /\ r \in Nat /\ p <= r
    BY <1>0
  <1>3. k \in r..(Len(l) + 1) /\ (k <= Len(l) => l[k] \notin Blank)
        /\ \A j \in r..(k - 1) : j <= Len(l) /\ l[j] \in Blank
    BY <1>1, SkipFacts
  <1>4. (i <= Len(l) => l[i] \notin Blank) /\ \A j \in p..(i - 1) : j <= Len(l) /\ l[j] \in Blank
    BY SkipFacts
  <1> HIDE DEF i, k
  <1>5. ~ (i < k)
    <2>1. SUFFICES ASSUME i < k PROVE FALSE
      OBVIOUS
    <2>2. i \in r..(k - 1)
      BY <1>0, <1>2, <1>3, <2>1
    <2> QED BY <1>3, <1>4, <2>2
  <1>6. ~ (k < i)
    <2>1. SUFFICES ASSUME k < i PROVE FALSE
      OBVIOUS
    <2>2. k \in p..(i - 1)
      BY <1>0, <1>2, <1>3, <2>1
    <2> QED BY <1>3, <1>4, <2>2
  <1>7. i = k
    BY <1>0, <1>2, <1>3, <1>5, <1>6
  <1> QED BY <1>1, <1>7 DEF i, k

(* The function that the loop of next_token over a quoted token computes:  *)
(* which characters a backslash escapes.                                   *)
IsEscaping(f, l, i) ==
    f = [j \in i..(Len(l) + 1) |-> j > i /\ l[j - 1] = Backslash /\ ~f[j - 1]]
Escaping(l, i) == CHOOSE f : IsEscaping(f, l, i)

(* There is one. *)
LEMMA EscapingFacts ==
    ASSUME NEW l \in Seq(Char), NEW i \in 1..(Len(l) + 1)
    PROVE  /\ \A j \in i..(Len(l) + 1) : Escaping(l, i)[j] \in BOOLEAN
           /\ ~Escaping(l, i)[i]
           /\ \A j \in i..Len(l) : Escaping(l, i)[j + 1] <=> l[j] = Backslash /\ ~Escaping(l, i)[j]
           /\ QuotedEnd(l, i) = Least({j \in (i + 1)..(Len(l) + 1) :
                                  j > Len(l) \/ (l[j] = l[i] /\ ~Escaping(l, i)[j])})
  <1> DEFINE D == i..(Len(l) + 1)
  <1>0. Len(l) \in Nat /\ i \in Nat /\ i <= Len(l) + 1 /\ i \in D
    BY LineFacts
  <1>1. \E f \in [D -> BOOLEAN] :
           \A j \in D : f[j] = IF j \in {i} THEN FALSE ELSE l[j - 1] = Backslash /\ ~f[j - 1]
    <2> DEFINE mu == [j \in D |-> j - i]
               succ == [j \in D \ {i} |-> j - 1]
               base == [j \in {i} |-> FALSE]
               step == [x \in (D \ {i}) \X BOOLEAN |-> l[x[1] - 1] = Backslash /\ ~x[2]]
               N == Len(l) + 1
    <2>1. N \in Nat /\ {i} \in SUBSET D
      BY <1>0
    <2>2. mu \in [D -> 0..N]
      BY <1>0
    <2>3. succ \in [D \ {i} -> D]
      BY <1>0
    <2>4. base \in [{i} -> BOOLEAN]
      OBVIOUS
    <2>5. step \in [(D \ {i}) \X BOOLEAN -> BOOLEAN]
      OBVIOUS
    <2>6. \A j \in D \ {i} : mu[succ[j]] < mu[j]
      BY <1>0
    <2>7. \A j \in D \ {i} : succ[j] = j - 1
      OBVIOUS
    <2>8. \A j \in D \ {i}, b \in BOOLEAN : step[<<j, b>>] = (l[j - 1] = Backslash /\ ~b)
      OBVIOUS
    <2>9. base[i] = FALSE
      OBVIOUS
    <2> HIDE DEF mu, succ, base, step, N, D
    <2>10. \E f \in [D -> BOOLEAN] :
             \A j \in D : f[j] = IF j \in {i} THEN base[j] ELSE step[<<j, f[succ[j]]>>]
      <3>1. Recursion(N, D, BOOLEAN, {i}, mu, succ, base, step)
        BY <2>1, <2>2, <2>3, <2>4, <2>5, <2>6 DEF Recursion
      <3> QED BY <3>1, RecursionExists
    <2>11. PICK f \in [D -> BOOLEAN] :
             \A j \in D : f[j] = IF j \in {i} THEN base[j] ELSE step[<<j, f[succ[j]]>>]
      BY <2>10
    <2>12. ASSUME NEW j \in D
           PROVE  f[j] = IF j \in {i} THEN FALSE ELSE l[j - 1] = Backslash /\ ~f[j - 1]
      <3>1. CASE j = i
        BY <2>9, <2>11, <3>1
      <3>2. CASE j # i
        <4>1. j \in D \ {i} /\ f[j] = step[<<j, f[succ[j]]>>] /\ succ[j] = j - 1
          BY <2>7, <2>11, <3>2
        <4>2. f[j - 1] \in BOOLEAN
          BY <2>3, <4>1
        <4> QED BY <2>8, <4>1, <4>2
      <3> QED BY <3>1, <3>2
    <2> QED BY <2>12
  <1>2. PICK f \in [D -> BOOLEAN] :
           \A j \in D : f[j] = IF j \in {i} THEN FALSE ELSE l[j - 1] = Backslash /\ ~f[j - 1]
    BY <1>1
  <1>3. IsEscaping(f, l, i)
    <2>1. f = [j \in D |-> f[j]]
      OBVIOUS
    <2>2. ASSUME NEW j \in D PROVE f[j] = (j > i /\ l[j - 1] = Backslash /\ ~f[j - 1])
      <3>1. j = i \/ j > i
        BY <1>0
      <3>2. CASE j = i
        <4>1. ~ (j > i)
          BY <1>0, <3>2
        <4>2. f[j] = FALSE
          BY <1>2, <3>2
        <4> QED BY <4>1, <4>2, Zenon
      <3>3. CASE j > i
        <4>1. j \notin {i}
          BY <1>0, <3>3
        <4> QED BY <1>2, <3>3, <4>1
      <3> QED BY <3>1, <3>2, <3>3
    <2> QED BY <2>1, <2>2, Zenon DEF IsEscaping
  <1>4. IsEscaping(Escaping(l, i), l, i)
    BY <1>3 DEF Escaping
  <1> DEFINE e == Escaping(l, i)
  <1>5. \A j \in D : e[j] = (j > i /\ l[j - 1] = Backslash /\ ~e[j - 1])
    BY <1>4, Zenon DEF IsEscaping
  <1>6. QuotedEnd(l, i) = Least({j \in (i + 1)..(Len(l) + 1) : j > Len(l) \/ (l[j] = l[i] /\ ~e[j])})
    BY DEF QuotedEnd, Escaping, IsEscaping
  <1> HIDE DEF e
  <1>7. ~e[i]
    <2>1. ~ (i > i)
      BY <1>0
    <2> QED BY <1>0, <1>5, <2>1, Zenon
  <1>8. ASSUME NEW j \in i..Len(l) PROVE e[j + 1] <=> l[j] = Backslash /\ ~e[j]
    <2>1. j + 1 \in D /\ j + 1 > i /\ (j + 1) - 1 = j
      BY <1>0
    <2> QED BY <1>5, <2>1
  <1>9. \A j \in i..(Len(l) + 1) : e[j] \in BOOLEAN
    BY <1>5
  <1> QED BY <1>6, <1>7, <1>8, <1>9 DEF e

(* A quoted token ends at the first quote of its kind that is not escaped. *)
LEMMA QuotedEndFacts ==
    ASSUME NEW l \in Seq(Char), NEW i \in 1..Len(l)
    PROVE  /\ QuotedEnd(l, i) \in (i + 1)..(Len(l) + 1)
           /\ QuotedEnd(l, i) <= Len(l) =>
                l[QuotedEnd(l, i)] = l[i] /\ ~Escaping(l, i)[QuotedEnd(l, i)]
           /\ \A j \in (i + 1)..(QuotedEnd(l, i) - 1) :
                j <= Len(l) /\ (l[j] = l[i] => Escaping(l, i)[j])
  <1> DEFINE S == {j \in (i + 1)..(Len(l) + 1) : j > Len(l) \/ (l[j] = l[i] /\ ~Escaping(l, i)[j])}
  <1>0. Len(l) \in Nat /\ i \in Nat /\ 1 <= i /\ i <= Len(l)
    BY LineFacts
  <1>1. S \in SUBSET Nat /\ Len(l) + 1 \in S
    BY <1>0
  <1>2. QuotedEnd(l, i) = Least(S)
    <2>1. i \in 1..(Len(l) + 1)
      BY <1>0
    <2> QED BY <2>1, EscapingFacts
  <1>3. Least(S) \in S /\ \A j \in S : Least(S) <= j
    <2> HIDE DEF S
    <2> QED BY <1>1, LeastFacts
  <1>4. \A j \in (i + 1)..(Least(S) - 1) : j <= Len(l) /\ (l[j] = l[i] => Escaping(l, i)[j])
    <2>1. SUFFICES ASSUME NEW j \in (i + 1)..(Least(S) - 1)
                   PROVE  j <= Len(l) /\ (l[j] = l[i] => Escaping(l, i)[j])
      OBVIOUS
    <2>2. Least(S) \in Nat /\ Least(S) <= Len(l) + 1
      BY <1>0, <1>3
    <2>3. j \in Nat /\ ~ (Least(S) <= j) /\ j \in (i + 1)..(Len(l) + 1) /\ j <= Len(l)
      BY <1>0, <2>1, <2>2
    <2>4. j \notin S
      BY <1>3, <2>3
    <2> QED BY <2>3, <2>4
  <1>5. Least(S) \in Nat /\ Least(S) <= Len(l) =>
          l[Least(S)] = l[i] /\ ~Escaping(l, i)[Least(S)]
    BY <1>0, <1>3
  <1> QED BY <1>0, <1>1, <1>2, <1>3, <1>4, <1>5

(* The function that the loop of unescape_token computes. *)
IsReading(f, l, i, e) ==
    f = [j \in i..(e + 1) |->
            IF j >= e THEN [text |-> << >>, stop |-> j]
            ELSE IF l[j] # Backslash
            THEN [f[j + 1] EXCEPT !.text = <<l[j]>> \o @]
            ELSE [f[j + 2] EXCEPT !.text = <<Meaning(l[j + 1])>> \o @]]
Reader(l, i, e) == CHOOSE f : IsReading(f, l, i, e)

(* There is one, and what it takes from a token are characters. *)
LEMMA ReaderFacts ==
    ASSUME NEW l \in Seq(Char), NEW i \in 1..Len(l), NEW e \in i..Len(l)
    PROVE  /\ Unescaped(l, i, e) = Reader(l, i, e)[i]
           /\ \A j \in i..(e + 1) :
                /\ Reader(l, i, e)[j].text \in Seq(Char)
                /\ j >= e => Reader(l, i, e)[j].text = << >>
                /\ j < e /\ l[j] # Backslash =>
                     Reader(l, i, e)[j].text = <<l[j]>> \o Reader(l, i, e)[j + 1].text
                /\ j < e /\ l[j] = Backslash =>
                     Reader(l, i, e)[j].text = <<Meaning(l[j + 1])>> \o Reader(l, i, e)[j + 2].text
  <1> DEFINE D == i..(e + 1)
             S == [text : Seq(Char), stop : Int]
             B == {j \in D : j >= e}
             Taken(j) == IF l[j] # Backslash THEN l[j] ELSE Meaning(l[j + 1])
             On(j) == IF l[j] # Backslash THEN j + 1 ELSE j + 2
  <1>0. Len(l) \in Nat /\ i \in Nat /\ e \in Nat /\ 1 <= i /\ i <= e /\ e <= Len(l)
    BY LineFacts
  <1>1. \A j \in D \ B : On(j) \in D /\ On(j) > j /\ Taken(j) \in Char
    <2>1. SUFFICES ASSUME NEW j \in D \ B PROVE On(j) \in D /\ On(j) > j /\ Taken(j) \in Char
      OBVIOUS
    <2>2. j \in Nat /\ i <= j /\ j < e
      BY <1>0
    <2>3. j \in 1..Len(l) /\ j + 1 \in 1..Len(l)
      BY <1>0, <2>2
    <2>4. l[j] \in Char /\ Meaning(l[j + 1]) \in Char
      BY <2>3, LineFacts, CharFacts
    <2> QED BY <1>0, <2>2, <2>4
  <1> DEFINE mu == [j \in D |-> e + 1 - j]
             succ == [j \in D \ B |-> On(j)]
             base == [j \in B |-> [text |-> << >>, stop |-> j]]
             step == [x \in (D \ B) \X S |-> [x[2] EXCEPT !.text = <<Taken(x[1])>> \o @]]
             N == e + 1
  <1>a. \A j \in D \ B, x \in S : [x EXCEPT !.text = <<Taken(j)>> \o @] \in S
    <2>1. SUFFICES ASSUME NEW j \in D \ B, NEW x \in S
                   PROVE  [x EXCEPT !.text = <<Taken(j)>> \o @] \in S
      OBVIOUS
    <2>2. <<Taken(j)>> \in Seq(Char) /\ x.text \in Seq(Char)
      <3> HIDE DEF D, B, Taken
      <3> QED BY <1>1
    <2>3. <<Taken(j)>> \o x.text \in Seq(Char)
      BY <2>2, ConcatProperties
    <2> HIDE DEF Taken
    <2> QED BY <2>3
  <1>b. \A j \in B : [text |-> << >>, stop |-> j] \in S
    <2>1. << >> \in Seq(Char)
      BY EmptySeq
    <2>2. \A j \in B : j \in Int
      BY <1>0
    <2> HIDE DEF B
    <2> QED BY <2>1, <2>2
  <1>2. Recursion(N, D, S, B, mu, succ, base, step)
    <2>1. N \in Nat /\ B \in SUBSET D
      BY <1>0
    <2>2. mu \in [D -> 0..N]
      BY <1>0
    <2>3. succ \in [D \ B -> D]
      <3> HIDE DEF D, B, On
      <3> QED BY <1>1
    <2>4. base \in [B -> S]
      <3> HIDE DEF B, S
      <3> QED BY <1>b
    <2>5. step \in [(D \ B) \X S -> S]
      <3> HIDE DEF D, B, S, Taken
      <3> QED BY <1>a
    <2>6. \A j \in D \ B : mu[succ[j]] < mu[j]
      <3>1. SUFFICES ASSUME NEW j \in D \ B PROVE mu[succ[j]] < mu[j]
        OBVIOUS
      <3>2. On(j) \in D /\ On(j) > j /\ succ[j] = On(j) /\ j \in D
        BY <1>1
      <3> HIDE DEF On, succ
      <3> QED BY <1>0, <3>2
    <2> HIDE DEF mu, succ, base, step, N, D, B, S, On, Taken
    <2> QED BY <2>1, <2>2, <2>3, <2>4, <2>5, <2>6 DEF Recursion
  <1>3. PICK f \in [D -> S] :
           \A j \in D : f[j] = IF j \in B THEN [text |-> << >>, stop |-> j]
                               ELSE [f[On(j)] EXCEPT !.text = <<Taken(j)>> \o @]
    <2>1. \A j \in D \ B : succ[j] = On(j)
      OBVIOUS
    <2>2. \A j \in D \ B, x \in S : step[<<j, x>>] = [x EXCEPT !.text = <<Taken(j)>> \o @]
      <3> HIDE DEF D, B, S, Taken
      <3> QED OBVIOUS
    <2>3. \A j \in B : base[j] = [text |-> << >>, stop |-> j]
      OBVIOUS
    <2> HIDE DEF mu, succ, base, step, N, D, B, S, On, Taken
    <2>4. PICK f \in [D -> S] :
             \A j \in D : f[j] = IF j \in B THEN base[j] ELSE step[<<j, f[succ[j]]>>]
      BY <1>2, RecursionExists
    <2>5. ASSUME NEW j \in D
          PROVE  f[j] = IF j \in B THEN [text |-> << >>, stop |-> j]
                        ELSE [f[On(j)] EXCEPT !.text = <<Taken(j)>> \o @]
      <3>1. CASE j \in B
        BY <2>3, <2>4, <3>1
      <3>2. CASE j \notin B
        <4>1. j \in D \ B /\ f[j] = step[<<j, f[On(j)]>>]
          BY <2>1, <2>4, <3>2
        <4>2. f[On(j)] \in S
          BY <1>1, <4>1
        <4> QED BY <2>2, <3>2, <4>1, <4>2
      <3> QED BY <3>1, <3>2
    <2> QED BY <2>5
  <1>4. IsReading(f, l, i, e)
    <2>1. f = [j \in D |-> f[j]]
      OBVIOUS
    <2>2. ASSUME NEW j \in D
          PROVE  f[j] = IF j >= e THEN [text |-> << >>, stop |-> j]
                        ELSE IF l[j] # Backslash
                        THEN [f[j + 1] EXCEPT !.text = <<l[j]>> \o @]
                        ELSE [f[j + 2] EXCEPT !.text = <<Meaning(l[j + 1])>> \o @]
      <3>1. f[j] = IF j >= e THEN [text |-> << >>, stop |-> j]
                   ELSE [f[On(j)] EXCEPT !.text = <<Taken(j)>> \o @]
        <4>1. j \in B <=> j >= e
          OBVIOUS
        <4> HIDE DEF B, D, On, Taken
        <4> QED BY <1>3, <4>1
      <3>2. CASE l[j] # Backslash
        BY <3>1, <3>2
      <3>3. CASE l[j] = Backslash
        BY <3>1, <3>3
      <3> QED BY <3>2, <3>3
    <2> QED BY <2>1, <2>2, Zenon DEF IsReading
  <1> DEFINE g == Reader(l, i, e)
  <1>5. IsReading(g, l, i, e)
    BY <1>4 DEF Reader
  <1>6. Unescaped(l, i, e) = g[i]
    BY DEF Unescaped, Reader, IsReading
  <1> HIDE DEF g
  <1>7. \A j \in D : g[j] = IF j >= e THEN [text |-> << >>, stop |-> j]
                            ELSE IF l[j] # Backslash
                            THEN [g[j + 1] EXCEPT !.text = <<l[j]>> \o @]
                            ELSE [g[j + 2] EXCEPT !.text = <<Meaning(l[j + 1])>> \o @]
    BY <1>5, Zenon DEF IsReading
  <1>8. \A j \in D : g[j] = IF j \in B THEN [text |-> << >>, stop |-> j]
                            ELSE [g[On(j)] EXCEPT !.text = <<Taken(j)>> \o @]
    <2>1. SUFFICES ASSUME NEW j \in D
                   PROVE  g[j] = IF j \in B THEN [text |-> << >>, stop |-> j]
                                 ELSE [g[On(j)] EXCEPT !.text = <<Taken(j)>> \o @]
      OBVIOUS
    <2>2. CASE j >= e
      <3>1. j \in B
        BY <2>2
      <3> HIDE DEF B, D
      <3> QED BY <1>7, <2>2, <3>1
    <2>3. CASE ~(j >= e)
      <3>1. j \notin B
        BY <2>3
      <3>2. CASE l[j] # Backslash
        <4>1. On(j) = j + 1 /\ Taken(j) = l[j]
          BY <3>2
        <4> HIDE DEF B, D, On, Taken
        <4> QED BY <1>7, <2>3, <3>1, <3>2, <4>1
      <3>3. CASE l[j] = Backslash
        <4>1. On(j) = j + 2 /\ Taken(j) = Meaning(l[j + 1])
          BY <3>3
        <4> HIDE DEF B, D, On, Taken
        <4> QED BY <1>7, <2>3, <3>1, <3>3, <4>1
      <3> QED BY <3>2, <3>3
    <2> QED BY <2>2, <2>3
  <1>9. \A j \in D : g[j] \in S
    <2> DEFINE T == {j \in D : g[j] \in S}
    <2> HIDE DEF S
    <2>1. B \subseteq T
      BY <1>8, <1>b
    <2>2. \A j \in D \ B : succ[j] \in T => j \in T
      <3>1. \A j \in D \ B : succ[j] = On(j)
        OBVIOUS
      <3>2. SUFFICES ASSUME NEW j \in D \ B, succ[j] \in T PROVE j \in T
        OBVIOUS
      <3>3. succ[j] = On(j) /\ j \in D /\ j \notin B
        BY <3>1
      <3> HIDE DEF D, B, succ, On, Taken
      <3>4. g[On(j)] \in S
        BY <3>2, <3>3
      <3>5. g[j] = [g[On(j)] EXCEPT !.text = <<Taken(j)>> \o @]
        BY <1>8, <3>3
      <3>6. g[j] \in S
        BY <1>a, <3>2, <3>4, <3>5
      <3> QED BY <3>3, <3>6
    <2> HIDE DEF T, D, B, mu, succ, base, step, N
    <2>3. D \subseteq T
      BY <1>2, <2>1, <2>2, StageInduction
    <2> QED BY <2>3 DEF T
  <1>10. ASSUME NEW j \in D
         PROVE  /\ g[j].text \in Seq(Char)
                /\ j >= e => g[j].text = << >>
                /\ j < e /\ l[j] # Backslash => g[j].text = <<l[j]>> \o g[j + 1].text
                /\ j < e /\ l[j] = Backslash => g[j].text = <<Meaning(l[j + 1])>> \o g[j + 2].text
    <2>1. g[j].text \in Seq(Char)
      BY <1>9
    <2>2. ASSUME j >= e PROVE g[j].text = << >>
      <3>1. j \in B
        BY <2>2
      <3>2. g[j] = [text |-> << >>, stop |-> j]
        <4> HIDE DEF B, D
        <4> QED BY <1>8, <3>1
      <3> QED BY <3>2
    <2>3. ASSUME j < e PROVE g[On(j)].text \in Seq(Char) /\ g[j].text = <<Taken(j)>> \o g[On(j)].text
      <3>1. j \in D \ B
        BY <1>0, <2>3
      <3>2. g[On(j)] \in S
        <4> HIDE DEF D, B, On, S
        <4> QED BY <1>1, <1>9, <3>1
      <3>3. g[j] = [g[On(j)] EXCEPT !.text = <<Taken(j)>> \o @]
        <4> HIDE DEF D, B, On, Taken
        <4> QED BY <1>8, <3>1
      <3> HIDE DEF On, Taken, D, B
      <3> QED BY <3>2, <3>3
    <2>4. ASSUME j < e, l[j] # Backslash PROVE g[j].text = <<l[j]>> \o g[j + 1].text
      <3>1. On(j) = j + 1 /\ Taken(j) = l[j]
        BY <2>4
      <3> HIDE DEF On, Taken
      <3> QED BY <2>3, <2>4, <3>1
    <2>5. ASSUME j < e, l[j] = Backslash
          PROVE  g[j].text = <<Meaning(l[j + 1])>> \o g[j + 2].text
      <3>1. On(j) = j + 2 /\ Taken(j) = Meaning(l[j + 1])
        BY <2>5
      <3> HIDE DEF On, Taken
      <3> QED BY <2>3, <2>5, <3>1
    <2> QED BY <2>1, <2>2, <2>4, <2>5
  <1> QED BY <1>6, <1>10 DEF g

(* What next_token can find. *)
Kinds == {"end", "plain", "open", "quoted"}
Found == [kind : Kinds, text : Seq(Char), from : Nat, next : Nat]

(* Where a plain token ends: PlainEnd(l, i) is the w of NextToken. *)
PlainEnd(l, i) == Least({j \in i..(Len(l) + 1) : j > Len(l) \/ l[j] \in Blank})

(* It has no blank in it, and a blank or nothing follows it. *)
LEMMA PlainEndFacts ==
    ASSUME NEW l \in Seq(Char), NEW i \in 1..Len(l), l[i] \notin Blank
    PROVE  /\ PlainEnd(l, i) \in (i + 1)..(Len(l) + 1)
           /\ PlainEnd(l, i) <= Len(l) => l[PlainEnd(l, i)] \in Blank
           /\ \A j \in i..(PlainEnd(l, i) - 1) : j <= Len(l) /\ l[j] \notin Blank
  <1> DEFINE S == {j \in i..(Len(l) + 1) : j > Len(l) \/ l[j] \in Blank}
             w == PlainEnd(l, i)
  <1>0. Len(l) \in Nat /\ i \in Nat /\ 1 <= i /\ i <= Len(l)
    BY LineFacts
  <1>1. S \in SUBSET Nat /\ Len(l) + 1 \in S
    BY <1>0
  <1>2. w = Least(S)
    BY DEF PlainEnd
  <1>3. w \in S /\ \A j \in S : w <= j
    <2> HIDE DEF S, w
    <2> QED BY <1>1, <1>2, LeastFacts
  <1> HIDE DEF w
  <1>4. \A j \in i..(w - 1) : j <= Len(l) /\ l[j] \notin Blank
    <2>1. SUFFICES ASSUME NEW j \in i..(w - 1) PROVE j <= Len(l) /\ l[j] \notin Blank
      OBVIOUS
    <2>2. w \in Nat /\ w <= Len(l) + 1
      BY <1>0, <1>3
    <2>3. j \in Nat /\ ~ (w <= j) /\ j \in i..(Len(l) + 1) /\ j <= Len(l)
      BY <1>0, <2>1, <2>2
    <2>4. j \notin S
      BY <1>3, <2>3
    <2> QED BY <2>3, <2>4
  <1>5. w \in i..(Len(l) + 1) /\ w # i /\ (w <= Len(l) => l[w] \in Blank)
    BY <1>0, <1>3
  <1>6. w \in (i + 1)..(Len(l) + 1)
    BY <1>0, <1>5
  <1> QED BY <1>4, <1>5, <1>6 DEF w

(* The four tokens there are. *)
LEMMA NextTokenCases ==
    ASSUME NEW l \in Seq(Char), NEW p \in 1..(Len(l) + 1)
    PROVE  /\ SkipWspc(l, p) > Len(l) =>
                NextToken(l, p) = [kind |-> "end", text |-> << >>,
                                   from |-> SkipWspc(l, p), next |-> SkipWspc(l, p)]
           /\ SkipWspc(l, p) <= Len(l) /\ l[SkipWspc(l, p)] \notin Quotes =>
                NextToken(l, p) =
                  [kind |-> "plain",
                   text |-> SubSeq(l, SkipWspc(l, p), PlainEnd(l, SkipWspc(l, p)) - 1),
                   from |-> SkipWspc(l, p), next |-> PlainEnd(l, SkipWspc(l, p))]
           /\ /\ SkipWspc(l, p) <= Len(l) /\ l[SkipWspc(l, p)] \in Quotes
              /\ QuotedEnd(l, SkipWspc(l, p)) > Len(l)
              => NextToken(l, p) = [kind |-> "open", text |-> << >>, from |-> SkipWspc(l, p),
                                    next |-> QuotedEnd(l, SkipWspc(l, p))]
           /\ /\ SkipWspc(l, p) <= Len(l) /\ l[SkipWspc(l, p)] \in Quotes
              /\ QuotedEnd(l, SkipWspc(l, p)) <= Len(l)
              => NextToken(l, p) =
                   [kind |-> "quoted",
                    text |-> Unescaped(l, SkipWspc(l, p) + 1, QuotedEnd(l, SkipWspc(l, p))).text,
                    from |-> SkipWspc(l, p), next |-> QuotedEnd(l, SkipWspc(l, p)) + 1]
  <1> DEFINE i == SkipWspc(l, p)
             q == QuotedEnd(l, i)
  <1>0. Len(l) \in Nat /\ i \in 1..(Len(l) + 1)
    BY LineFacts, SkipFacts
  <1>1. i <= Len(l) => q \in Nat
    <2>1. SUFFICES ASSUME i <= Len(l) PROVE q \in Nat
      OBVIOUS
    <2>2. i \in 1..Len(l)
      BY <1>0, <2>1
    <2>3. q \in (i + 1)..(Len(l) + 1)
      BY <2>2, QuotedEndFacts
    <2> QED BY <1>0, <2>2, <2>3
  <1> DEFINE w == PlainEnd(l, i)
             text == Unescaped(l, i + 1, q).text
  <1>2. NextToken(l, p) =
          CASE i > Len(l) -> [kind |-> "end", text |-> << >>, from |-> i, next |-> i]
            [] i <= Len(l) /\ l[i] \notin Quotes ->
                 [kind |-> "plain", text |-> SubSeq(l, i, w - 1), from |-> i, next |-> w]
            [] i <= Len(l) /\ l[i] \in Quotes /\ q > Len(l) ->
                 [kind |-> "open", text |-> << >>, from |-> i, next |-> q]
            [] OTHER -> [kind |-> "quoted", text |-> text, from |-> i, next |-> q + 1]
    BY DEF NextToken, PlainEnd
  <1> HIDE DEF i, q, w, text
  <1>3. i > Len(l) => NextToken(l, p) = [kind |-> "end", text |-> << >>, from |-> i, next |-> i]
    BY <1>0, <1>2
  <1>4. i <= Len(l) /\ l[i] \notin Quotes =>
          NextToken(l, p) = [kind |-> "plain", text |-> SubSeq(l, i, w - 1), from |-> i, next |-> w]
    BY <1>0, <1>2
  <1>5. i <= Len(l) /\ l[i] \in Quotes /\ q > Len(l) =>
          NextToken(l, p) = [kind |-> "open", text |-> << >>, from |-> i, next |-> q]
    BY <1>0, <1>2
  <1>6. i <= Len(l) /\ l[i] \in Quotes /\ q <= Len(l) =>
          NextToken(l, p) = [kind |-> "quoted", text |-> text, from |-> i, next |-> q + 1]
    BY <1>0, <1>1, <1>2
  <1> QED BY <1>3, <1>4, <1>5, <1>6 DEF i, q, w, text

(* A token is found in the line, after the place where it was looked for.  *)
LEMMA NextTokenFacts ==
    ASSUME NEW l \in Seq(Char), NEW p \in 1..(Len(l) + 1)
    PROVE  /\ NextToken(l, p) \in Found
           /\ NextToken(l, p).next \in 1..(Len(l) + 1)
           /\ NextToken(l, p).kind = "end" <=> SkipWspc(l, p) > Len(l)
           /\ NextToken(l, p).kind # "end" => NextToken(l, p).next > p
  <1> DEFINE i == SkipWspc(l, p)
             q == QuotedEnd(l, i)
             t == NextToken(l, p)
             w == PlainEnd(l, i)
             text == Unescaped(l, i + 1, q).text
  <1>0. Len(l) \in Nat /\ i \in 1..(Len(l) + 1) /\ p \in Nat /\ p <= i /\ i \in Nat
        /\ (i <= Len(l) => l[i] \notin Blank)
    BY LineFacts, SkipFacts
  <1>1. i <= Len(l) => q \in (i + 1)..(Len(l) + 1)
    <2>1. SUFFICES ASSUME i <= Len(l) PROVE q \in (i + 1)..(Len(l) + 1)
      OBVIOUS
    <2>2. i \in 1..Len(l)
      BY <1>0, <2>1
    <2> QED BY <2>2, QuotedEndFacts
  <1>2. i <= Len(l) => w \in (i + 1)..(Len(l) + 1)
    <2>1. SUFFICES ASSUME i <= Len(l) PROVE w \in (i + 1)..(Len(l) + 1)
      OBVIOUS
    <2>2. i \in 1..Len(l) /\ l[i] \notin Blank
      BY <1>0, <2>1
    <2> QED BY <2>2, PlainEndFacts
  <1>3. << >> \in Seq(Char)
    BY EmptySeq
  <1>4. i <= Len(l) => SubSeq(l, i, w - 1) \in Seq(Char)
    <2>1. SUFFICES ASSUME i <= Len(l) PROVE SubSeq(l, i, w - 1) \in Seq(Char)
      OBVIOUS
    <2> HIDE DEF w, i
    <2>2. i \in Int /\ w - 1 \in Int /\ \A j \in i..(w - 1) : j \in 1..Len(l)
      BY <1>0, <1>2, <2>1
    <2>3. \A j \in i..(w - 1) : l[j] \in Char
      BY <2>2, LineFacts
    <2> QED BY <2>2, <2>3, SubSeqProperties
  <1>5. i <= Len(l) /\ q <= Len(l) => text \in Seq(Char)
    <2>1. SUFFICES ASSUME i <= Len(l), q <= Len(l) PROVE text \in Seq(Char)
      OBVIOUS
    <2> DEFINE r == Reader(l, i + 1, q)
    <2>2. i + 1 \in 1..Len(l) /\ q \in (i + 1)..Len(l) /\ i + 1 \in (i + 1)..(q + 1)
      <3> HIDE DEF i, q
      <3> QED BY <1>0, <1>1, <2>1
    <2>3. Unescaped(l, i + 1, q) = r[i + 1] /\ r[i + 1].text \in Seq(Char)
      <3> HIDE DEF i, q
      <3> QED BY <2>2, ReaderFacts
    <2> QED BY <2>3
  <1>a. /\ i > Len(l) => t = [kind |-> "end", text |-> << >>, from |-> i, next |-> i]
        /\ i <= Len(l) /\ l[i] \notin Quotes =>
             t = [kind |-> "plain", text |-> SubSeq(l, i, w - 1), from |-> i, next |-> w]
        /\ i <= Len(l) /\ l[i] \in Quotes /\ q > Len(l) =>
             t = [kind |-> "open", text |-> << >>, from |-> i, next |-> q]
        /\ i <= Len(l) /\ l[i] \in Quotes /\ q <= Len(l) =>
             t = [kind |-> "quoted", text |-> text, from |-> i, next |-> q + 1]
    BY NextTokenCases
  <1> HIDE DEF i, q, t, w, text
  <1>b. Found = [kind : Kinds, text : Seq(Char), from : Nat, next : Nat]
    BY DEF Found
  <1>c. {"end", "plain", "open", "quoted"} \subseteq Kinds
    BY DEF Kinds
  <1>6. CASE i > Len(l)
    <2>1. t = [kind |-> "end", text |-> << >>, from |-> i, next |-> i]
      BY <1>6, <1>a
    <2>2. t \in Found
      BY <1>0, <1>3, <1>b, <1>c, <2>1
    <2> QED BY <1>0, <1>6, <2>1, <2>2 DEF t, i
  <1>7. CASE i <= Len(l) /\ l[i] \notin Quotes
    <2>1. t = [kind |-> "plain", text |-> SubSeq(l, i, w - 1), from |-> i, next |-> w]
      BY <1>7, <1>a
    <2>2. w \in Nat /\ w \in 1..(Len(l) + 1) /\ w > p /\ ~ (i > Len(l))
      BY <1>0, <1>2, <1>7
    <2>3. t \in Found
      BY <1>0, <1>4, <1>7, <1>b, <1>c, <2>1, <2>2
    <2> QED BY <2>1, <2>2, <2>3 DEF t, i
  <1>8. CASE i <= Len(l) /\ l[i] \in Quotes /\ q > Len(l)
    <2>1. t = [kind |-> "open", text |-> << >>, from |-> i, next |-> q]
      BY <1>8, <1>a
    <2>2. q \in Nat /\ q \in 1..(Len(l) + 1) /\ q > p /\ ~ (i > Len(l))
      BY <1>0, <1>1, <1>8
    <2>3. t \in Found
      BY <1>0, <1>3, <1>b, <1>c, <2>1, <2>2
    <2> QED BY <2>1, <2>2, <2>3 DEF t, i
  <1>9. CASE i <= Len(l) /\ l[i] \in Quotes /\ q <= Len(l)
    <2>1. t = [kind |-> "quoted", text |-> text, from |-> i, next |-> q + 1]
      BY <1>9, <1>a
    <2>2. q + 1 \in Nat /\ q + 1 \in 1..(Len(l) + 1) /\ q + 1 > p /\ ~ (i > Len(l))
      BY <1>0, <1>1, <1>9
    <2>3. t \in Found
      BY <1>0, <1>5, <1>9, <1>b, <1>c, <2>1, <2>2
    <2> QED BY <2>1, <2>2, <2>3 DEF t, i
  <1>10. i <= Len(l) => q \in Nat
    BY <1>0, <1>1
  <1> QED BY <1>0, <1>6, <1>7, <1>8, <1>9, <1>10

(* The function that takes the tokens of a line one after the other.       *)
IsTaking(f, l) ==
    f = [p \in 1..(Len(l) + 1) |->
            LET t == NextToken(l, p)
            IN IF t.kind = "end" THEN << >> ELSE <<t>> \o f[t.next]]
Taker(l) == CHOOSE f : IsTaking(f, l)

(* There is one. *)
LEMMA TakerFacts ==
    ASSUME NEW l \in Seq(Char)
    PROVE  /\ Tokens(l) = Taker(l)[1]
           /\ \A p \in 1..(Len(l) + 1) :
                /\ Taker(l)[p] \in Seq(Found)
                /\ NextToken(l, p).kind = "end" => Taker(l)[p] = << >>
                /\ NextToken(l, p).kind # "end" =>
                     Taker(l)[p] = <<NextToken(l, p)>> \o Taker(l)[NextToken(l, p).next]
  <1> DEFINE D == 1..(Len(l) + 1)
             S == Seq(Found)
             t(p) == NextToken(l, p)
             B == {p \in D : t(p).kind = "end"}
             mu == [p \in D |-> Len(l) + 1 - p]
             succ == [p \in D \ B |-> t(p).next]
             base == [p \in B |-> << >>]
             step == [x \in (D \ B) \X S |-> <<t(x[1])>> \o x[2]]
             N == Len(l) + 1
  <1>0. Len(l) \in Nat /\ 1 \in D
    BY LineFacts
  <1>1. \A p \in D : t(p) \in Found /\ t(p).next \in D /\ (p \notin B => t(p).next > p)
    BY NextTokenFacts
  <1>2. << >> \in S
    BY EmptySeq
  <1>3. \A p \in D, x \in S : <<t(p)>> \o x \in S
    <2>1. SUFFICES ASSUME NEW p \in D, NEW x \in S PROVE <<t(p)>> \o x \in S
      OBVIOUS
    <2>2. <<t(p)>> \in Seq(Found)
      <3> HIDE DEF t, D
      <3> QED BY <1>1
    <2> HIDE DEF t
    <2> QED BY <2>2, ConcatProperties
  <1>4. Recursion(N, D, S, B, mu, succ, base, step)
    <2>1. N \in Nat /\ B \in SUBSET D
      BY <1>0
    <2>2. mu \in [D -> 0..N]
      BY <1>0
    <2>3. succ \in [D \ B -> D]
      <3> HIDE DEF D, B, t
      <3> QED BY <1>1
    <2>4. base \in [B -> S]
      <3> HIDE DEF B, S
      <3> QED BY <1>2
    <2>5. step \in [(D \ B) \X S -> S]
      <3> HIDE DEF D, B, S, t
      <3> QED BY <1>3
    <2>6. \A j \in D \ B : mu[succ[j]] < mu[j]
      <3>1. SUFFICES ASSUME NEW j \in D \ B PROVE mu[succ[j]] < mu[j]
        OBVIOUS
      <3>2. t(j).next \in D /\ t(j).next > j /\ succ[j] = t(j).next /\ j \in D
        BY <1>1
      <3> HIDE DEF t, succ
      <3> QED BY <1>0, <3>2
    <2> HIDE DEF mu, succ, base, step, N, D, B, S, t
    <2> QED BY <2>1, <2>2, <2>3, <2>4, <2>5, <2>6 DEF Recursion
  <1>5. PICK f \in [D -> S] :
           \A p \in D : f[p] = IF p \in B THEN << >> ELSE <<t(p)>> \o f[t(p).next]
    <2>1. \A j \in D \ B : succ[j] = t(j).next
      OBVIOUS
    <2>2. \A j \in D \ B, x \in S : step[<<j, x>>] = <<t(j)>> \o x
      <3> HIDE DEF D, B, S, t
      <3> QED OBVIOUS
    <2>3. \A j \in B : base[j] = << >>
      OBVIOUS
    <2> HIDE DEF mu, succ, base, step, N, D, B, S, t
    <2>4. PICK f \in [D -> S] :
             \A j \in D : f[j] = IF j \in B THEN base[j] ELSE step[<<j, f[succ[j]]>>]
      BY <1>4, RecursionExists
    <2>5. ASSUME NEW j \in D PROVE f[j] = IF j \in B THEN << >> ELSE <<t(j)>> \o f[t(j).next]
      <3>1. CASE j \in B
        BY <2>3, <2>4, <3>1
      <3>2. CASE j \notin B
        <4>1. j \in D \ B /\ f[j] = step[<<j, f[t(j).next]>>]
          BY <2>1, <2>4, <3>2
        <4>2. f[t(j).next] \in S
          BY <1>1, <4>1
        <4> QED BY <2>2, <3>2, <4>1, <4>2
      <3> QED BY <3>1, <3>2
    <2> QED BY <2>5
  <1>6. IsTaking(f, l)
    <2>1. f = [p \in D |-> f[p]]
      OBVIOUS
    <2>2. ASSUME NEW p \in D
          PROVE  f[p] = IF NextToken(l, p).kind = "end" THEN << >>
                        ELSE <<NextToken(l, p)>> \o f[NextToken(l, p).next]
      <3>1. p \in B <=> t(p).kind = "end"
        OBVIOUS
      <3>2. f[p] = IF t(p).kind = "end" THEN << >> ELSE <<t(p)>> \o f[t(p).next]
        <4> HIDE DEF B, D, t
        <4> QED BY <1>5, <3>1
      <3> QED BY <3>2
    <2> QED BY <2>1, <2>2, Zenon DEF IsTaking
  <1> DEFINE g == Taker(l)
  <1>7. IsTaking(g, l)
    BY <1>6 DEF Taker
  <1>8. Tokens(l) = g[1]
    BY DEF Tokens, Taker, IsTaking
  <1> HIDE DEF g
  <1>9. \A p \in D : g[p] = IF t(p).kind = "end" THEN << >> ELSE <<t(p)>> \o g[t(p).next]
    BY <1>7, Zenon DEF IsTaking
  <1>10. \A p \in D : g[p] \in S
    <2> DEFINE T == {p \in D : g[p] \in S}
    <2> HIDE DEF S
    <2>1. B \subseteq T
      BY <1>2, <1>9
    <2>2. \A p \in D \ B : succ[p] \in T => p \in T
      <3>2. SUFFICES ASSUME NEW p \in D \ B, succ[p] \in T PROVE p \in T
        OBVIOUS
      <3>3. succ[p] = t(p).next /\ p \in D /\ t(p).kind # "end"
        OBVIOUS
      <3> HIDE DEF D, B, succ, t
      <3>4. g[t(p).next] \in S
        BY <3>2, <3>3
      <3>5. g[p] = <<t(p)>> \o g[t(p).next]
        BY <1>9, <3>3
      <3>6. g[p] \in S
        BY <1>3, <3>3, <3>4, <3>5
      <3> QED BY <3>3, <3>6
    <2> HIDE DEF T, D, B, mu, succ, base, step, N
    <2>3. D \subseteq T
      BY <1>4, <2>1, <2>2, StageInduction
    <2> QED BY <2>3 DEF T
  <1>11. \A p \in D : /\ t(p).kind = "end" => g[p] = << >>
                      /\ t(p).kind # "end" => g[p] = <<t(p)>> \o g[t(p).next]
    <2> HIDE DEF t, D
    <2> QED BY <1>9
  <1> QED BY <1>8, <1>10, <1>11 DEF g

-----------------------------------------------------------------------------
(***************************************************************************)
(* The automaton.                                                          *)
(***************************************************************************)

(* A token as it is compared, and a state of the automaton. *)
Texts == [kind : Kinds \cup {"blank", "escaped"}, text : Seq(Char)]
States == [mode : {"blank", "plain", "quoted", "escaped"}, quote : Char,
           text : Seq(Char), read : Seq(Texts)]

(* What one character does. *)
LEMMA StepFacts ==
    ASSUME NEW s \in States, NEW c \in Char
    PROVE  /\ Step(s, c) \in States
           /\ s.mode = "blank" /\ c \in Blank => Step(s, c) = s
           /\ s.mode = "blank" /\ c \in Quotes =>
                Step(s, c) = [s EXCEPT !.mode = "quoted", !.quote = c]
           /\ s.mode = "blank" /\ c \notin Blank \cup Quotes =>
                Step(s, c) = [s EXCEPT !.mode = "plain", !.text = <<c>>]
           /\ s.mode = "plain" /\ c \notin Blank =>
                Step(s, c) = [s EXCEPT !.text = Append(s.text, c)]
           /\ s.mode = "quoted" /\ c = Backslash => Step(s, c) = [s EXCEPT !.mode = "escaped"]
           /\ s.mode = "quoted" /\ c \notin {Backslash, s.quote} =>
                Step(s, c) = [s EXCEPT !.text = Append(s.text, c)]
           /\ s.mode = "escaped" =>
                Step(s, c) = [s EXCEPT !.mode = "quoted", !.text = Append(s.text, Meaning(c))]
           /\ (s.mode = "plain" /\ c \in Blank) \/ (s.mode = "quoted" /\ c = s.quote /\ c # Backslash) =>
                Step(s, c) = [s EXCEPT !.mode = "blank", !.text = << >>,
                                !.read = Append(s.read, [kind |-> s.mode, text |-> s.text])]
  <1>0. /\ s.mode \in {"blank", "plain", "quoted", "escaped"} /\ s.quote \in Char
        /\ s.text \in Seq(Char) /\ s.read \in Seq(Texts)
    BY DEF States
  <1>1. << >> \in Seq(Char) /\ <<c>> \in Seq(Char) /\ Append(s.text, c) \in Seq(Char)
        /\ Append(s.text, Meaning(c)) \in Seq(Char)
    BY <1>0, CharFacts, EmptySeq, AppendProperties
  <1>2. Append(s.read, [kind |-> s.mode, text |-> s.text]) \in Seq(Texts)
    <2>1. [kind |-> s.mode, text |-> s.text] \in Texts
      BY <1>0 DEF Texts, Kinds
    <2> QED BY <1>0, <2>1, AppendProperties
  <1>3. c \in Blank => c \notin Quotes
    BY CharFacts
  <1>4. CASE s.mode = "blank" /\ c \in Blank
    <2>1. Step(s, c) = s
      BY <1>3, <1>4 DEF Step
    <2> QED BY <1>3, <1>4, <2>1
  <1>5. CASE s.mode = "blank" /\ c \in Quotes
    <2>1. Step(s, c) = [s EXCEPT !.mode = "quoted", !.quote = c]
      BY <1>3, <1>5 DEF Step
    <2>2. [s EXCEPT !.mode = "quoted", !.quote = c] \in States
      BY DEF States
    <2> QED BY <1>3, <1>5, <2>1, <2>2
  <1>6. CASE s.mode = "blank" /\ c \notin Blank \cup Quotes
    <2>1. Step(s, c) = [s EXCEPT !.mode = "plain", !.text = <<c>>]
      BY <1>6 DEF Step
    <2>2. [s EXCEPT !.mode = "plain", !.text = <<c>>] \in States
      BY <1>1 DEF States
    <2> QED BY <1>6, <2>1, <2>2
  <1>7. CASE s.mode = "plain" /\ c \notin Blank
    <2>1. Step(s, c) = [s EXCEPT !.text = Append(s.text, c)]
      BY <1>7 DEF Step
    <2>2. [s EXCEPT !.text = Append(s.text, c)] \in States
      BY <1>1 DEF States
    <2> QED BY <1>7, <2>1, <2>2
  <1>8. CASE s.mode = "quoted" /\ c = Backslash
    <2>1. Step(s, c) = [s EXCEPT !.mode = "escaped"]
      BY <1>8 DEF Step
    <2>2. [s EXCEPT !.mode = "escaped"] \in States
      BY DEF States
    <2> QED BY <1>8, <2>1, <2>2
  <1>9. CASE s.mode = "quoted" /\ c \notin {Backslash, s.quote}
    <2>1. Step(s, c) = [s EXCEPT !.text = Append(s.text, c)]
      BY <1>9 DEF Step
    <2>2. [s EXCEPT !.text = Append(s.text, c)] \in States
      BY <1>1 DEF States
    <2> QED BY <1>9, <2>1, <2>2
  <1>10. CASE s.mode = "escaped"
    <2>1. Step(s, c) = [s EXCEPT !.mode = "quoted", !.text = Append(s.text, Meaning(c))]
      BY <1>10 DEF Step, Meaning
    <2>2. [s EXCEPT !.mode = "quoted", !.text = Append(s.text, Meaning(c))] \in States
      BY <1>1 DEF States
    <2> QED BY <1>10, <2>1, <2>2
  <1> DEFINE tok == [kind |-> s.mode, text |-> s.text]
             e == [s EXCEPT !.mode = "blank", !.text = << >>, !.read = Append(s.read, tok)]
  <1>11. CASE (s.mode = "plain" /\ c \in Blank) \/ (s.mode = "quoted" /\ c = s.quote /\ c # Backslash)
    <2>1. Step(s, c) = e
      BY <1>11 DEF Step
    <2>2. e \in States
      <3>1. Append(s.read, tok) \in Seq(Texts)
        BY <1>2
      <3> HIDE DEF tok
      <3> QED BY <1>1, <3>1 DEF States
    <2> QED BY <1>11, <2>1, <2>2
  <1> QED BY <1>0, <1>4, <1>5, <1>6, <1>7, <1>8, <1>9, <1>10, <1>11

-----------------------------------------------------------------------------
(***************************************************************************)
(* The lines.                                                              *)
(***************************************************************************)

(* The beginning and the rest of a line. *)
LEMMA FirstAfterFacts ==
    ASSUME NEW l \in Seq(Char), NEW n \in 0..Len(l)
    PROVE  /\ First(l, n) \in Seq(Char) /\ Len(First(l, n)) = n
           /\ \A i \in 1..n : First(l, n)[i] = l[i]
           /\ After(l, n) \in Seq(Char) /\ Len(After(l, n)) = Len(l) - n
           /\ \A i \in 1..(Len(l) - n) : After(l, n)[i] = l[n + i]
  <1>0. Len(l) \in Nat /\ n \in Nat /\ n <= Len(l)
    BY LineFacts
  <1>1. /\ First(l, n) \in Seq(Char) /\ Len(First(l, n)) = n
        /\ \A i \in 1..n : First(l, n)[i] = l[i]
    <2>1. \A i \in 1..n : l[i] \in Char
      BY <1>0, LineFacts
    <2>2. /\ SubSeq(l, 1, n) \in Seq(Char)
          /\ Len(SubSeq(l, 1, n)) = IF 1 <= n THEN n - 1 + 1 ELSE 0
          /\ \A i \in 1..n - 1 + 1 : SubSeq(l, 1, n)[i] = l[1 + i - 1]
      BY <1>0, <2>1, SubSeqProperties
    <2>3. \A i \in 1..n : i \in 1..n - 1 + 1 /\ 1 + i - 1 = i
      BY <1>0
    <2> QED BY <1>0, <2>2, <2>3 DEF First
  <1>2. /\ After(l, n) \in Seq(Char) /\ Len(After(l, n)) = Len(l) - n
        /\ \A i \in 1..(Len(l) - n) : After(l, n)[i] = l[n + i]
    <2>1. \A i \in (n + 1)..Len(l) : l[i] \in Char
      BY <1>0, LineFacts
    <2>2. /\ SubSeq(l, n + 1, Len(l)) \in Seq(Char)
          /\ Len(SubSeq(l, n + 1, Len(l))) = IF n + 1 <= Len(l) THEN Len(l) - (n + 1) + 1 ELSE 0
          /\ \A i \in 1..Len(l) - (n + 1) + 1 : SubSeq(l, n + 1, Len(l))[i] = l[(n + 1) + i - 1]
      BY <1>0, <2>1, SubSeqProperties
    <2>3. \A i \in 1..(Len(l) - n) : i \in 1..Len(l) - (n + 1) + 1 /\ (n + 1) + i - 1 = n + i
      BY <1>0
    <2> QED BY <1>0, <2>2, <2>3 DEF After
  <1> QED BY <1>1, <1>2

(* What is interpreted of a line has no newline and no zero byte. *)
LEMMA TextFacts ==
    ASSUME NEW l \in Seq(Char), Places(l, NewLine) = {}
    PROVE  Text(l) \in Seq(Char \ {NewLine, Nul})
  <1> DEFINE S == Places(l, Nul)
             C == Char \ {NewLine, Nul}
  <1>0. Len(l) \in Nat /\ \A i \in 1..Len(l) : l[i] \in Char /\ l[i] # NewLine
    BY LineFacts DEF Places
  <1>1. CASE S = {}
    <2>1. \A i \in 1..Len(l) : l[i] \in C
      BY <1>0, <1>1 DEF Places
    <2>2. l = SubSeq(l, 1, Len(l))
      BY SubSeqFull
    <2>3. SubSeq(l, 1, Len(l)) \in Seq(C)
      BY <1>0, <2>1, SubSeqProperties
    <2> QED BY <1>1, <2>2, <2>3 DEF Text
  <1>2. CASE S # {}
    <2>1. S \in SUBSET Nat
      BY DEF Places
    <2>2. Least(S) \in S /\ \A j \in S : Least(S) <= j
      <3> HIDE DEF S
      <3> QED BY <1>2, <2>1, LeastFacts
    <2>3. Least(S) \in 1..Len(l)
      BY <2>2 DEF Places
    <2>4. \A i \in 1..(Least(S) - 1) : l[i] \in C
      <3>1. SUFFICES ASSUME NEW i \in 1..(Least(S) - 1) PROVE l[i] \in C
        OBVIOUS
      <3>2. i \in 1..Len(l) /\ ~ (Least(S) <= i)
        BY <1>0, <2>3
      <3>3. i \notin S
        BY <2>2, <3>2
      <3> QED BY <1>0, <3>2, <3>3 DEF Places
    <2>5. SubSeq(l, 1, Least(S) - 1) \in Seq(C)
      BY <1>0, <2>3, <2>4, SubSeqProperties
    <2> QED BY <1>2, <2>5 DEF Text, First
  <1> QED BY <1>1, <1>2

(* The numbers of S below e: how many there are is the rank of e. *)
Below(S, e) == {f \in S : f < e}

(* The one of rank k - 1, which is the k-th. *)
Nth(S, k) == CHOOSE e \in S : Cardinality({f \in S : f < e}) = k - 1

(* No two numbers have the same rank. *)
LEMMA RankUnique ==
    ASSUME NEW S \in SUBSET Nat, IsFiniteSet(S), NEW d \in S, NEW e \in S,
           Cardinality(Below(S, d)) = Cardinality(Below(S, e))
    PROVE  d = e
  <1>1. ASSUME NEW a \in S, NEW b \in S, a < b
        PROVE  Cardinality(Below(S, a)) # Cardinality(Below(S, b))
    <2>1. Below(S, b) \in SUBSET S /\ IsFiniteSet(Below(S, b))
      BY FS_Subset DEF Below
    <2>a. a \in Nat /\ b \in Nat /\ \A f \in S : f \in Nat
      OBVIOUS
    <2>b. \A f \in S : f < a => f < b
      BY <1>1, <2>a
    <2>c. Below(S, a) \subseteq Below(S, b)
      BY <2>b DEF Below
    <2>d. a \in Below(S, b)
      BY <1>1 DEF Below
    <2>e. ~ (a < a)
      BY <2>a
    <2>2. Below(S, a) \subseteq Below(S, b) /\ a \in Below(S, b) /\ a \notin Below(S, a)
      BY <2>c, <2>d, <2>e DEF Below
    <2>3. Below(S, a) # Below(S, b)
      BY <2>2
    <2> QED BY <2>1, <2>2, <2>3, FS_Subset
  <1>2. d \in Nat /\ e \in Nat
    OBVIOUS
  <1>3. d < e \/ e < d \/ d = e
    BY <1>2
  <1> QED BY <1>1, <1>3

(* A number is the one that its rank says. *)
LEMMA NthIs ==
    ASSUME NEW S \in SUBSET Nat, IsFiniteSet(S), NEW k \in Int, NEW e \in S,
           Cardinality(Below(S, e)) = k - 1
    PROVE  Nth(S, k) = e
  <1>1. Cardinality({f \in S : f < e}) = k - 1
    BY DEF Below
  <1>2. Nth(S, k) \in S /\ Cardinality({f \in S : f < Nth(S, k)}) = k - 1
    BY <1>1 DEF Nth
  <1>3. Cardinality(Below(S, Nth(S, k))) = Cardinality(Below(S, e))
    BY <1>2 DEF Below
  <1> QED BY <1>2, <1>3, RankUnique

(* The ranks are below the size of the set. *)
LEMMA RankBound ==
    ASSUME NEW S \in SUBSET Nat, IsFiniteSet(S), NEW e \in S
    PROVE  /\ Cardinality(Below(S, e)) \in Nat /\ Cardinality(S) \in Nat
           /\ Cardinality(Below(S, e)) + 1 <= Cardinality(S)
           /\ (\A f \in S : f <= e) <=> Cardinality(Below(S, e)) + 1 = Cardinality(S)
  <1>1. IsFiniteSet(Below(S, e)) /\ e \notin Below(S, e) /\ Below(S, e) \subseteq S
    BY FS_Subset DEF Below
  <1>2. /\ IsFiniteSet(Below(S, e) \cup {e})
        /\ Cardinality(Below(S, e) \cup {e}) = Cardinality(Below(S, e)) + 1
    BY <1>1, FS_AddElement
  <1>3. Below(S, e) \cup {e} \in SUBSET S
    BY <1>1
  <1>4. /\ Cardinality(Below(S, e) \cup {e}) <= Cardinality(S)
        /\ Cardinality(Below(S, e) \cup {e}) = Cardinality(S) => Below(S, e) \cup {e} = S
    BY <1>3, FS_Subset
  <1>5. Cardinality(S) \in Nat /\ Cardinality(Below(S, e)) \in Nat
    BY <1>1, FS_CardinalityType
  <1>6. (\A f \in S : f <= e) <=> Below(S, e) \cup {e} = S
    <2>1. e \in Nat /\ \A f \in S : f \in Nat
      OBVIOUS
    <2>2. \A f \in S : f <= e <=> (f < e \/ f = e)
      BY <2>1
    <2>3. \A f \in S : f <= e <=> f \in Below(S, e) \cup {e}
      BY <2>2 DEF Below
    <2> QED BY <1>3, <2>3
  <1> QED BY <1>2, <1>4, <1>5, <1>6

(* The next number of a set has the next rank. *)
LEMMA RankNext ==
    ASSUME NEW S \in SUBSET Nat, IsFiniteSet(S), NEW d \in S, NEW e \in S, d < e,
           \A f \in S : f <= d \/ e <= f
    PROVE  Cardinality(Below(S, e)) = Cardinality(Below(S, d)) + 1
  <1>1. IsFiniteSet(Below(S, d)) /\ d \notin Below(S, d)
    BY FS_Subset DEF Below
  <1>2. Below(S, e) = Below(S, d) \cup {d}
    <2>1. d \in Nat /\ e \in Nat /\ \A f \in S : f \in Nat
      OBVIOUS
    <2>2. \A f \in S : f < e <=> (f < d \/ f = d)
      BY <2>1
    <2> QED BY <2>2 DEF Below
  <1> QED BY <1>1, <1>2, FS_AddElement

(* Every rank below the size of the set is that of a number. *)
LEMMA RankExists ==
    ASSUME NEW S \in SUBSET Nat, IsFiniteSet(S), NEW k \in Nat, k < Cardinality(S)
    PROVE  \E e \in S : Cardinality(Below(S, e)) = k
  <1> DEFINE T == {n \in Nat : n < Cardinality(S) => \E e \in S : Cardinality(Below(S, e)) = n}
  <1>0. Cardinality(S) \in Nat
    BY FS_CardinalityType
  <1>1. 0 \in T
    <2>1. SUFFICES ASSUME 0 < Cardinality(S) PROVE \E e \in S : Cardinality(Below(S, e)) = 0
      OBVIOUS
    <2>2. S # {}
      BY <2>1, FS_EmptySet
    <2>3. PICK e \in S : \A f \in S : e <= f
      BY <2>2, LeastNumber
    <2>a. \A f \in S : f \in Nat /\ e \in Nat /\ ~ (f < e)
      BY <2>3
    <2>4. Below(S, e) = {}
      BY <2>a DEF Below
    <2> QED BY <2>4, FS_EmptySet
  <1>2. ASSUME NEW n \in T PROVE n + 1 \in T
    <2>1. SUFFICES ASSUME n + 1 < Cardinality(S)
                   PROVE  \E e \in S : Cardinality(Below(S, e)) = n + 1
      OBVIOUS
    <2>2. n \in Nat /\ n < Cardinality(S)
      BY <1>0, <2>1
    <2>3. PICK d \in S : Cardinality(Below(S, d)) = n
      BY <2>2
    <2>4. ~ \A f \in S : f <= d
      BY <1>0, <2>1, <2>2, <2>3, RankBound
    <2> DEFINE R == {f \in S : d < f}
    <2>5. R \in SUBSET Nat /\ R # {}
      <3>1. d \in Nat /\ \A f \in S : f \in Nat
        OBVIOUS
      <3>2. PICK f \in S : ~ (f <= d)
        BY <2>4
      <3>3. f \in R
        BY <3>1, <3>2
      <3> QED BY <3>1, <3>3
    <2>6. PICK e \in R : \A f \in R : e <= f
      <3> HIDE DEF R
      <3> QED BY <2>5, LeastNumber
    <2>7. e \in S /\ d < e /\ \A f \in S : f <= d \/ e <= f
      <3>1. d \in Nat /\ \A f \in S : f \in Nat
        OBVIOUS
      <3>2. \A f \in S : f <= d \/ f \in R
        BY <3>1
      <3> QED BY <2>6, <3>2
    <2> QED BY <2>3, <2>7, RankNext
  <1>3. T = Nat
    <2>1. T \in SUBSET Nat
      OBVIOUS
    <2> HIDE DEF T
    <2> QED BY <1>1, <1>2, <2>1, AllNumbers
  <1>4. k \in T
    BY <1>3
  <1> QED BY <1>4

(* The places where pieces begin: after a newline, and at the beginning. *)
Ends(s) == Places(s, NewLine) \cup {0}

(* The k-th piece. *)
Piece(s, k) ==
    IF k = Cardinality(Ends(s)) THEN After(s, Nth(Ends(s), k))
    ELSE SubSeq(s, Nth(Ends(s), k) + 1, Nth(Ends(s), k + 1) - 1)

(* They are finitely many. *)
LEMMA EndsFacts ==
    ASSUME NEW s \in Seq(Char)
    PROVE  /\ Ends(s) \in SUBSET (0..Len(s)) /\ Ends(s) \in SUBSET Nat /\ IsFiniteSet(Ends(s))
           /\ 0 \in Ends(s) /\ \A i \in 1..Len(s) : i \in Ends(s) <=> s[i] = NewLine
  <1>0. Len(s) \in Nat
    BY LineFacts
  <1>1. Ends(s) \in SUBSET (0..Len(s))
    BY <1>0 DEF Ends, Places
  <1>2. IsFiniteSet(0..Len(s))
    BY <1>0, FS_Interval
  <1>3. IsFiniteSet(Ends(s))
    BY <1>1, <1>2, FS_Subset
  <1>4. \A i \in 1..Len(s) : i \in Ends(s) <=> s[i] = NewLine
    BY <1>0 DEF Ends, Places
  <1>5. Ends(s) \in SUBSET Nat
    BY <1>0, <1>1
  <1> QED BY <1>1, <1>3, <1>4, <1>5 DEF Ends

(* The pieces of Input are these. *)
LEMMA PiecesAre ==
    ASSUME sent \in Seq(Char)
    PROVE  /\ Pieces = [k \in 1..Cardinality(Ends(sent)) |-> Piece(sent, k)]
           /\ Len(Pieces) = Cardinality(Ends(sent))
  <1>1. Pieces = [k \in 1..Cardinality(Ends(sent)) |-> Piece(sent, k)]
    BY DEF Pieces, Ends, Piece, Nth
  <1>2. Cardinality(Ends(sent)) \in Nat
    BY EndsFacts, FS_CardinalityType
  <1>3. \A n \in Nat : Len([k \in 1..n |-> Piece(sent, k)]) = n
    OBVIOUS
  <1> QED BY <1>1, <1>2, <1>3

(* The piece between two ends. *)
LEMMA PieceIs ==
    ASSUME NEW s \in Seq(Char), NEW d \in Ends(s), NEW e \in Ends(s), d < e,
           \A f \in Ends(s) : f <= d \/ e <= f
    PROVE  Piece(s, Cardinality(Below(Ends(s), d)) + 1) = SubSeq(s, d + 1, e - 1)
  <1> DEFINE S == Ends(s)
             m == Cardinality(Below(S, d))
  <1>0. S \in SUBSET Nat /\ IsFiniteSet(S) /\ d \in S /\ e \in S
    BY EndsFacts
  <1>a. \A f \in S : f <= d \/ e <= f
    OBVIOUS
  <1> HIDE DEF S
  <1>1. m \in Nat /\ Cardinality(S) \in Nat
    BY <1>0, RankBound
  <1>b. Cardinality(Below(S, e)) = m + 1
    BY <1>0, <1>a, RankNext
  <1>2. Cardinality(Below(S, e)) = m + 1 /\ m + 1 + 1 <= Cardinality(S)
    BY <1>0, <1>b, RankBound
  <1>3. Nth(S, m + 1) = d
    <2>1. m + 1 \in Int /\ m = (m + 1) - 1
      BY <1>1
    <2> QED BY <1>0, <2>1, NthIs
  <1>4. Nth(S, m + 1 + 1) = e
    <2>1. m + 1 + 1 \in Int /\ m + 1 = (m + 1 + 1) - 1
      BY <1>1
    <2> HIDE DEF m
    <2> QED BY <1>0, <1>2, <2>1, NthIs
  <1>5. m + 1 # Cardinality(S)
    <2> HIDE DEF m
    <2> QED BY <1>1, <1>2
  <1> HIDE DEF m
  <1>6. Piece(s, m + 1) = SubSeq(s, d + 1, e - 1)
    BY <1>3, <1>4, <1>5 DEF Piece, S
  <1> QED BY <1>6 DEF m, S

(* The last piece. *)
LEMMA LastPieceIs ==
    ASSUME NEW s \in Seq(Char), NEW d \in Ends(s), \A f \in Ends(s) : f <= d
    PROVE  /\ Piece(s, Cardinality(Ends(s))) = After(s, d)
           /\ Cardinality(Below(Ends(s), d)) + 1 = Cardinality(Ends(s))
  <1> DEFINE S == Ends(s)
             m == Cardinality(Below(S, d))
             n == Cardinality(S)
  <1>0. S \in SUBSET Nat /\ IsFiniteSet(S) /\ d \in S
    BY EndsFacts
  <1>a. \A f \in S : f <= d
    OBVIOUS
  <1> HIDE DEF S
  <1>1. m \in Nat /\ n \in Nat /\ m + 1 = n
    BY <1>0, <1>a, RankBound
  <1>2. Nth(S, n) = d
    <2>1. n \in Int /\ m = n - 1
      <3> HIDE DEF m, n
      <3> QED BY <1>1
    <2> QED BY <1>0, <2>1, NthIs
  <1> QED BY <1>1, <1>2 DEF Piece, S

(* One more character leaves the pieces that have ended as they are. *)
LEMMA EndedPieceStays ==
    ASSUME NEW s \in Seq(Char), NEW c \in Char, NEW d \in Ends(s)
    PROVE  /\ d \in Ends(Append(s, c))
           /\ Below(Ends(Append(s, c)), d) = Below(Ends(s), d)
           /\ \A k \in 1..Cardinality(Below(Ends(s), d)) : Piece(Append(s, c), k) = Piece(s, k)
  <1> DEFINE r == Append(s, c)
             S == Ends(s)
             R == Ends(r)
  <1>0. /\ Len(s) \in Nat /\ r \in Seq(Char) /\ Len(r) = Len(s) + 1
        /\ \A i \in 1..Len(s) : r[i] = s[i]
    BY LineFacts, AppendProperties
  <1>1. /\ S \in SUBSET (0..Len(s)) /\ S \in SUBSET Nat /\ IsFiniteSet(S) /\ 0 \in S
        /\ \A i \in 1..Len(s) : i \in S <=> s[i] = NewLine
    BY EndsFacts
  <1> HIDE DEF r
  <1>2. /\ R \in SUBSET (0..Len(r)) /\ R \in SUBSET Nat /\ IsFiniteSet(R) /\ 0 \in R
        /\ \A i \in 1..Len(r) : i \in R <=> r[i] = NewLine
    BY <1>0, EndsFacts
  <1> HIDE DEF S, R
  <1>3. \A i \in 0..Len(s) : i \in S <=> i \in R
    <2>1. SUFFICES ASSUME NEW i \in 0..Len(s) PROVE i \in S <=> i \in R
      OBVIOUS
    <2>2. CASE i = 0
      BY <1>1, <1>2, <2>2
    <2>3. CASE i # 0
      <3>1. i \in 1..Len(s) /\ i \in 1..Len(r)
        BY <1>0, <2>3
      <3> QED BY <1>0, <1>1, <1>2, <3>1
    <2> QED BY <2>2, <2>3
  <1>4. \A e \in S : e \in R /\ Below(R, e) = Below(S, e)
    <2>1. SUFFICES ASSUME NEW e \in S PROVE e \in R /\ Below(R, e) = Below(S, e)
      OBVIOUS
    <2>2. e \in 0..Len(s) /\ e \in R
      BY <1>1, <1>3
    <2>3. \A f \in R : f < e => f \in 0..Len(s)
      BY <1>0, <1>2, <2>2
    <2>4. \A f : f \in R /\ f < e <=> f \in S /\ f < e
      BY <1>1, <1>3, <2>3
    <2> QED BY <2>2, <2>4 DEF Below
  <1>5. ASSUME NEW k \in 1..Cardinality(Below(S, d)) PROVE Piece(r, k) = Piece(s, k)
    <2>0. d \in S
      BY DEF S
    <2>1. /\ Cardinality(Below(S, d)) \in Nat /\ Cardinality(S) \in Nat
          /\ Cardinality(Below(S, d)) + 1 <= Cardinality(S)
      BY <1>1, <2>0, RankBound
    <2>2. k \in Nat /\ k - 1 \in Nat /\ k - 1 < Cardinality(S) /\ k < Cardinality(S)
      BY <2>1
    <2>3. PICK a \in S : Cardinality(Below(S, a)) = k - 1
      BY <1>1, <2>2, RankExists
    <2>4. PICK b \in S : Cardinality(Below(S, b)) = k
      BY <1>1, <2>2, RankExists
    <2>5. a \in R /\ b \in R /\ Cardinality(Below(R, a)) = k - 1 /\ Cardinality(Below(R, b)) = k
      BY <1>4, <2>3, <2>4
    <2>6. k \in Int /\ k + 1 \in Int /\ k = (k + 1) - 1
      BY <2>2
    <2>7. Nth(S, k) = a /\ Nth(S, k + 1) = b
      BY <1>1, <2>3, <2>4, <2>6, NthIs
    <2>8. Nth(R, k) = a /\ Nth(R, k + 1) = b
      BY <1>2, <2>5, <2>6, NthIs
    <2>9. k # Cardinality(R)
      <3>1. Cardinality(Below(R, b)) + 1 <= Cardinality(R) /\ Cardinality(R) \in Nat
        BY <1>2, <2>5, RankBound
      <3> QED BY <2>2, <2>5, <3>1
    <2>10. k # Cardinality(S)
      BY <2>2
    <2>11. SubSeq(r, a + 1, b - 1) = SubSeq(s, a + 1, b - 1)
      <3>1. a \in Nat /\ b \in Nat /\ b <= Len(s)
        BY <1>0, <1>1
      <3>2. \A i \in (a + 1)..(b - 1) : i \in 1..Len(s) /\ r[i] = s[i] /\ s[i] \in Char
        BY <1>0, <3>1, LineFacts
      <3>3. /\ SubSeq(s, a + 1, b - 1) \in Seq(Char)
            /\ Len(SubSeq(s, a + 1, b - 1)) = IF a + 1 <= b - 1 THEN (b - 1) - (a + 1) + 1 ELSE 0
            /\ \A i \in 1..(b - 1) - (a + 1) + 1 : SubSeq(s, a + 1, b - 1)[i] = s[(a + 1) + i - 1]
        BY <3>1, <3>2, SubSeqProperties
      <3>4. /\ SubSeq(r, a + 1, b - 1) \in Seq(Char)
            /\ Len(SubSeq(r, a + 1, b - 1)) = IF a + 1 <= b - 1 THEN (b - 1) - (a + 1) + 1 ELSE 0
            /\ \A i \in 1..(b - 1) - (a + 1) + 1 : SubSeq(r, a + 1, b - 1)[i] = r[(a + 1) + i - 1]
        BY <3>1, <3>2, SubSeqProperties
      <3>5. \A i \in 1..Len(SubSeq(s, a + 1, b - 1)) :
               /\ i \in 1..(b - 1) - (a + 1) + 1
               /\ (a + 1) + i - 1 \in (a + 1)..(b - 1)
        BY <3>1, <3>3
      <3> QED BY <3>2, <3>3, <3>4, <3>5, SeqEqual
    <2> QED BY <2>7, <2>8, <2>9, <2>10, <2>11 DEF Piece, S, R
  <1> QED BY <1>4, <1>5 DEF r, S, R

(* Where the next line to cut begins. *)
CutAt(s, b, u) == Len(s) - Len(b) - Len(u)

(* What is read and what is not yet is the rest of what was sent. *)
Kept(s, b, u) ==
    /\ CutAt(s, b, u) \in Nat
    /\ \A i \in 1..Len(b) : b[i] = s[CutAt(s, b, u) + i]
    /\ \A i \in 1..Len(u) : u[i] = s[CutAt(s, b, u) + Len(b) + i]

(* The lines are the pieces before it. *)
Interpreted(s, b, u, ls) ==
    /\ CutAt(s, b, u) \in Ends(s)
    /\ Len(ls) = Cardinality(Below(Ends(s), CutAt(s, b, u)))
    /\ \A k \in 1..Len(ls) : ls[k] = Text(Piece(s, k)) /\ Len(Piece(s, k)) < Cap

(* Filling the buffer moves characters from what is not read to the buffer. *)
LEMMA FillKeeps ==
    ASSUME NEW s \in Seq(Char), NEW b \in Seq(Char), NEW u \in Seq(Char), NEW n \in Nat,
           Len(b) <= Cap, n = Up(Cap - Len(b), Len(u)), Kept(s, b, u)
    PROVE  /\ b \o First(u, n) \in Seq(Char) /\ After(u, n) \in Seq(Char)
           /\ Len(b \o First(u, n)) <= Cap
           /\ After(u, n) = << >> \/ Len(b \o First(u, n)) = Cap
           /\ CutAt(s, b \o First(u, n), After(u, n)) = CutAt(s, b, u)
           /\ Kept(s, b \o First(u, n), After(u, n))
  <1>0. Len(s) \in Nat /\ Len(b) \in Nat /\ Len(u) \in Nat /\ Cap \in Nat
    BY LineFacts, InputAssumption
  <1>1. n <= Cap - Len(b) /\ n <= Len(u) /\ (n = Cap - Len(b) \/ n = Len(u))
    BY <1>0 DEF Up
  <1> DEFINE f == First(u, n)
             a == After(u, n)
  <1>2. /\ f \in Seq(Char) /\ Len(f) = n /\ \A i \in 1..n : f[i] = u[i]
        /\ a \in Seq(Char) /\ Len(a) = Len(u) - n /\ \A i \in 1..(Len(u) - n) : a[i] = u[n + i]
    <2>1. n \in 0..Len(u)
      BY <1>0, <1>1
    <2> QED BY <2>1, FirstAfterFacts
  <1> HIDE DEF f, a
  <1>3. /\ b \o f \in Seq(Char) /\ Len(b \o f) = Len(b) + n
        /\ \A i \in 1..Len(b) + n : (b \o f)[i] = IF i <= Len(b) THEN b[i] ELSE f[i - Len(b)]
    <2>1. /\ b \o f \in Seq(Char) /\ Len(b \o f) = Len(b) + Len(f)
          /\ \A i \in 1..Len(b) + Len(f) :
                (b \o f)[i] = IF i <= Len(b) THEN b[i] ELSE f[i - Len(b)]
      BY <1>2, ConcatProperties
    <2>2. Len(f) = n
      BY <1>2
    <2> QED BY <2>1, <2>2
  <1>4. a = << >> \/ Len(b \o f) = Cap
    <2>1. CASE n = Len(u)
      <3>1. Len(a) = 0
        BY <1>0, <1>2, <2>1
      <3> QED BY <1>2, <3>1, EmptySeq
    <2>2. CASE n = Cap - Len(b)
      BY <1>0, <1>3, <2>2
    <2> QED BY <1>1, <2>1, <2>2
  <1> DEFINE c == CutAt(s, b, u)
  <1>5. c \in Nat /\ c = Len(s) - Len(b) - Len(u)
    BY DEF Kept, CutAt
  <1>6. CutAt(s, b \o f, a) = c
    BY <1>0, <1>1, <1>2, <1>3, <1>5 DEF CutAt
  <1>7. \A i \in 1..Len(b) : b[i] = s[c + i]
    BY DEF Kept
  <1>8. \A i \in 1..Len(u) : u[i] = s[c + Len(b) + i]
    BY DEF Kept
  <1> HIDE DEF c
  <1>9. \A i \in 1..Len(b \o f) : (b \o f)[i] = s[c + i]
    <2>1. SUFFICES ASSUME NEW i \in 1..Len(b) + n PROVE (b \o f)[i] = s[c + i]
      BY <1>3
    <2>2. CASE i <= Len(b)
      BY <1>0, <1>3, <1>7, <2>2
    <2>3. CASE ~ (i <= Len(b))
      <3>1. i - Len(b) \in 1..n /\ i - Len(b) \in 1..Len(u) /\ c + Len(b) + (i - Len(b)) = c + i
        BY <1>0, <1>1, <1>5, <2>3
      <3>2. (b \o f)[i] = f[i - Len(b)] /\ f[i - Len(b)] = u[i - Len(b)]
        BY <1>2, <1>3, <2>3, <3>1
      <3> QED BY <1>8, <3>1, <3>2
    <2> QED BY <2>2, <2>3
  <1>10. \A i \in 1..Len(a) : a[i] = s[c + Len(b \o f) + i]
    <2>1. SUFFICES ASSUME NEW i \in 1..(Len(u) - n) PROVE a[i] = s[c + Len(b \o f) + i]
      BY <1>2
    <2>2. Len(b \o f) = Len(b) + n /\ c \in Nat
      BY <1>3, <1>5
    <2>3. i \in Nat /\ n + i \in 1..Len(u)
      BY <1>0, <1>1
    <2>4. c + Len(b) + (n + i) = c + Len(b \o f) + i
      BY <1>0, <2>2, <2>3
    <2>5. a[i] = u[n + i] /\ u[n + i] = s[c + Len(b) + (n + i)]
      BY <1>2, <1>8, <2>3
    <2> QED BY <2>4, <2>5
  <1>11. Kept(s, b \o f, a)
    BY <1>5, <1>6, <1>9, <1>10 DEF Kept
  <1>12. Len(b \o f) <= Cap
    BY <1>0, <1>1, <1>3
  <1> QED BY <1>2, <1>3, <1>4, <1>6, <1>11, <1>12 DEF f, a, c

(* A character that is sent is one more to read. *)
LEMMA SendKeeps ==
    ASSUME NEW s \in Seq(Char), NEW b \in Seq(Char), NEW u \in Seq(Char), NEW c \in Char,
           NEW ls, Kept(s, b, u), Interpreted(s, b, u, ls)
    PROVE  /\ Kept(Append(s, c), b, Append(u, c))
           /\ Interpreted(Append(s, c), b, Append(u, c), ls)
  <1>0. Len(s) \in Nat /\ Len(b) \in Nat /\ Len(u) \in Nat
    BY LineFacts
  <1> DEFINE r == Append(s, c)
             v == Append(u, c)
             p == CutAt(s, b, u)
  <1>1. /\ Len(r) = Len(s) + 1 /\ Len(v) = Len(u) + 1
        /\ \A i \in 1..Len(s) : r[i] = s[i]
        /\ \A i \in 1..Len(u) : v[i] = u[i]
        /\ r[Len(s) + 1] = c /\ v[Len(u) + 1] = c
    BY AppendProperties
  <1>2. p \in Nat /\ p = Len(s) - Len(b) - Len(u)
    BY DEF Kept, CutAt
  <1>3. /\ \A i \in 1..Len(b) : b[i] = s[p + i]
        /\ \A i \in 1..Len(u) : u[i] = s[p + Len(b) + i]
    BY DEF Kept
  <1> HIDE DEF r, v
  <1>4. CutAt(r, b, v) = p
    BY <1>0, <1>1 DEF CutAt
  <1> HIDE DEF p
  <1>5. \A i \in 1..Len(b) : b[i] = r[p + i]
    <2>1. SUFFICES ASSUME NEW i \in 1..Len(b) PROVE b[i] = r[p + i]
      OBVIOUS
    <2>2. p + i \in 1..Len(s)
      BY <1>0, <1>2
    <2> QED BY <1>1, <1>3, <2>2
  <1>6. \A i \in 1..Len(v) : v[i] = r[p + Len(b) + i]
    <2>1. SUFFICES ASSUME NEW i \in 1..(Len(u) + 1) PROVE v[i] = r[p + Len(b) + i]
      BY <1>1
    <2>2. CASE i = Len(u) + 1
      <3>1. p + Len(b) + i = Len(s) + 1
        BY <1>0, <1>2, <2>2
      <3> QED BY <1>1, <2>2, <3>1
    <2>3. CASE i # Len(u) + 1
      <3>1. i \in 1..Len(u) /\ p + Len(b) + i \in 1..Len(s)
        BY <1>0, <1>2, <2>3
      <3> QED BY <1>1, <1>3, <3>1
    <2> QED BY <2>2, <2>3
  <1>7. Kept(r, b, v)
    BY <1>2, <1>4, <1>5, <1>6 DEF Kept
  <1>8. /\ p \in Ends(s) /\ Len(ls) = Cardinality(Below(Ends(s), p))
        /\ \A k \in 1..Len(ls) : ls[k] = Text(Piece(s, k)) /\ Len(Piece(s, k)) < Cap
    BY DEF Interpreted, p
  <1>9. /\ p \in Ends(r) /\ Below(Ends(r), p) = Below(Ends(s), p)
        /\ \A k \in 1..Cardinality(Below(Ends(s), p)) : Piece(r, k) = Piece(s, k)
    BY <1>8, EndedPieceStays DEF r
  <1>10. Interpreted(r, b, v, ls)
    BY <1>4, <1>8, <1>9 DEF Interpreted
  <1> QED BY <1>7, <1>10 DEF r, v

(* Cutting the buffer at its first newline interprets one more piece. *)
LEMMA CutKeeps ==
    ASSUME NEW s \in Seq(Char), NEW b \in Seq(Char), NEW u \in Seq(Char),
           NEW ls \in Seq(Seq(Char \ {NewLine, Nul})), NEW n \in Nat,
           Kept(s, b, u), Interpreted(s, b, u, ls),
           Places(b, NewLine) # {}, n = Least(Places(b, NewLine)), Len(b) <= Cap
    PROVE  /\ After(b, n) \in Seq(Char) /\ Len(After(b, n)) < Len(b)
           /\ Append(ls, Text(First(b, n - 1))) \in Seq(Seq(Char \ {NewLine, Nul}))
           /\ Kept(s, After(b, n), u)
           /\ Interpreted(s, After(b, n), u, Append(ls, Text(First(b, n - 1))))
  <1>0. Len(s) \in Nat /\ Len(b) \in Nat /\ Len(u) \in Nat /\ Cap \in Nat
    BY LineFacts, InputAssumption
  <1>1. n \in 1..Len(b) /\ b[n] = NewLine /\ \A i \in 1..(n - 1) : b[i] # NewLine
    <2>1. Places(b, NewLine) \in SUBSET Nat
      BY DEF Places
    <2>2. n \in Places(b, NewLine) /\ \A i \in Places(b, NewLine) : n <= i
      BY <2>1, LeastFacts
    <2>3. n \in 1..Len(b) /\ b[n] = NewLine
      BY <2>2 DEF Places
    <2>4. \A i \in 1..(n - 1) : b[i] # NewLine
      <3>1. SUFFICES ASSUME NEW i \in 1..(n - 1), b[i] = NewLine PROVE FALSE
        OBVIOUS
      <3>2. i \in 1..Len(b) /\ ~ (n <= i)
        BY <1>0, <2>3
      <3> QED BY <2>2, <3>1, <3>2 DEF Places
    <2> QED BY <2>3, <2>4
  <1> DEFINE f == First(b, n - 1)
             a == After(b, n)
             p == CutAt(s, b, u)
             ms == Append(ls, Text(f))
  <1>2. /\ a \in Seq(Char) /\ Len(a) = Len(b) - n /\ \A i \in 1..(Len(b) - n) : a[i] = b[n + i]
    <2>1. n \in 0..Len(b)
      BY <1>0, <1>1
    <2> QED BY <2>1, FirstAfterFacts
  <1>3. f \in Seq(Char) /\ Len(f) = n - 1 /\ \A i \in 1..(n - 1) : f[i] = b[i]
    <2>1. n - 1 \in 0..Len(b)
      BY <1>0, <1>1
    <2> QED BY <2>1, FirstAfterFacts
  <1> HIDE DEF f, a
  <1>4. Text(f) \in Seq(Char \ {NewLine, Nul})
    <2>1. Places(f, NewLine) = {}
      BY <1>1, <1>3 DEF Places
    <2> QED BY <1>3, <2>1, TextFacts
  <1>5. /\ ms \in Seq(Seq(Char \ {NewLine, Nul})) /\ Len(ms) = Len(ls) + 1
        /\ \A k \in 1..Len(ls) : ms[k] = ls[k]
        /\ ms[Len(ls) + 1] = Text(f) /\ Len(ls) \in Nat
    BY <1>4, AppendProperties, LenProperties
  <1>6. /\ p \in Nat /\ p = Len(s) - Len(b) - Len(u)
        /\ \A i \in 1..Len(b) : b[i] = s[p + i]
        /\ \A i \in 1..Len(u) : u[i] = s[p + Len(b) + i]
    BY DEF Kept, CutAt
  <1>7. /\ p \in Ends(s) /\ Len(ls) = Cardinality(Below(Ends(s), p))
        /\ \A k \in 1..Len(ls) : ls[k] = Text(Piece(s, k)) /\ Len(Piece(s, k)) < Cap
    BY DEF Interpreted
  <1>8. CutAt(s, a, u) = p + n
    BY <1>0, <1>1, <1>2 DEF CutAt
  <1> HIDE DEF p, ms
  <1>9. Kept(s, a, u)
    <2>1. p + n \in Nat
      BY <1>1, <1>6
    <2>2. \A i \in 1..Len(a) : a[i] = s[p + n + i]
      <3>1. SUFFICES ASSUME NEW i \in 1..(Len(b) - n) PROVE a[i] = s[p + n + i]
        BY <1>2
      <3>2. n + i \in 1..Len(b) /\ p + (n + i) = p + n + i
        BY <1>0, <1>1, <1>6
      <3> QED BY <1>2, <1>6, <3>2
    <2>3. \A i \in 1..Len(u) : u[i] = s[p + n + Len(a) + i]
      <3>1. \A i \in 1..Len(u) : p + n + Len(a) + i = p + Len(b) + i
        BY <1>0, <1>1, <1>2, <1>6
      <3> QED BY <1>6, <3>1
    <2> QED BY <1>8, <2>1, <2>2, <2>3 DEF Kept
  <1>10. /\ Ends(s) \in SUBSET Nat /\ IsFiniteSet(Ends(s))
         /\ \A i \in 1..Len(s) : i \in Ends(s) <=> s[i] = NewLine
    BY EndsFacts
  <1>11. p + n \in Ends(s)
    <2>1. p + n \in 1..Len(s)
      BY <1>0, <1>1, <1>6
    <2>2. s[p + n] = NewLine
      BY <1>1, <1>6
    <2> QED BY <1>10, <2>1, <2>2
  <1>12. \A e \in Ends(s) : e <= p \/ p + n <= e
    <2>1. SUFFICES ASSUME NEW e \in Ends(s), ~ (e <= p), ~ (p + n <= e) PROVE FALSE
      OBVIOUS
    <2>2. e \in Nat
      BY <1>10
    <2>3. e - p \in 1..(n - 1) /\ e - p \in 1..Len(b) /\ p + (e - p) = e /\ e \in 1..Len(s)
      BY <1>0, <1>1, <1>6, <2>1, <2>2
    <2>4. s[e] = NewLine
      BY <1>10, <2>3
    <2> QED BY <1>1, <1>6, <2>3, <2>4
  <1>13. p < p + n
    BY <1>0, <1>1, <1>6
  <1>14. Cardinality(Below(Ends(s), p + n)) = Len(ls) + 1
    <2> DEFINE S == Ends(s)
               e == p + n
    <2>1. e \in S /\ p \in S /\ p < e /\ \A g \in S : g <= p \/ e <= g
      BY <1>7, <1>11, <1>12, <1>13
    <2>2. S \in SUBSET Nat /\ IsFiniteSet(S)
      BY <1>10
    <2> HIDE DEF S, e
    <2>3. Cardinality(Below(S, e)) = Cardinality(Below(S, p)) + 1
      BY <2>1, <2>2, RankNext
    <2> QED BY <1>7, <2>3 DEF S, e
  <1>15. Piece(s, Len(ls) + 1) = f
    <2> DEFINE e == p + n
    <2>1. e \in Ends(s) /\ p < e /\ \A g \in Ends(s) : g <= p \/ e <= g
      BY <1>11, <1>12, <1>13
    <2>a. e \in Nat /\ e = p + n
      BY <1>1, <1>6
    <2> HIDE DEF e
    <2>2. Piece(s, Len(ls) + 1) = SubSeq(s, p + 1, e - 1)
      BY <1>7, <2>1, PieceIs
    <2>3. \A i \in (p + 1)..(e - 1) : s[i] \in Char
      <3>1. \A i \in (p + 1)..(e - 1) : i \in 1..Len(s)
        BY <1>0, <1>1, <1>6, <2>a
      <3> QED BY <3>1, LineFacts
    <2>4. /\ SubSeq(s, p + 1, e - 1) \in Seq(Char)
          /\ Len(SubSeq(s, p + 1, e - 1)) = IF p + 1 <= e - 1 THEN (e - 1) - (p + 1) + 1 ELSE 0
          /\ \A i \in 1..(e - 1) - (p + 1) + 1 : SubSeq(s, p + 1, e - 1)[i] = s[(p + 1) + i - 1]
      <3>1. p + 1 \in Int /\ e - 1 \in Int
        BY <1>6, <2>a
      <3> QED BY <2>3, <3>1, SubSeqProperties
    <2>b. p \in Nat
      BY <1>6
    <2>5. Len(SubSeq(s, p + 1, e - 1)) = n - 1
      <3>1. n \in Nat /\ 1 <= n
        BY <1>0, <1>1
      <3>2. /\ p + 1 <= e - 1 => (e - 1) - (p + 1) + 1 = n - 1
            /\ ~ (p + 1 <= e - 1) => n - 1 = 0
        BY <2>a, <2>b, <3>1
      <3>3. Len(SubSeq(s, p + 1, e - 1)) = IF p + 1 <= e - 1 THEN (e - 1) - (p + 1) + 1 ELSE 0
        BY <2>4
      <3> QED BY <3>2, <3>3
    <2>6. \A i \in 1..(n - 1) : SubSeq(s, p + 1, e - 1)[i] = f[i]
      <3>1. SUFFICES ASSUME NEW i \in 1..(n - 1) PROVE SubSeq(s, p + 1, e - 1)[i] = f[i]
        OBVIOUS
      <3>2. i \in 1..(e - 1) - (p + 1) + 1 /\ (p + 1) + i - 1 = p + i /\ i \in 1..Len(b)
        BY <1>0, <1>1, <2>a, <2>b
      <3>3. SubSeq(s, p + 1, e - 1)[i] = s[p + i]
        BY <2>4, <3>2
      <3> QED BY <1>3, <1>6, <3>2, <3>3
    <2>7. SubSeq(s, p + 1, e - 1) = f
      BY <1>3, <2>4, <2>5, <2>6, SeqEqual
    <2> QED BY <2>2, <2>7
  <1>16. Interpreted(s, a, u, ms)
    <2>1. \A k \in 1..(Len(ls) + 1) : ms[k] = Text(Piece(s, k)) /\ Len(Piece(s, k)) < Cap
      <3>1. SUFFICES ASSUME NEW k \in 1..(Len(ls) + 1)
                     PROVE  ms[k] = Text(Piece(s, k)) /\ Len(Piece(s, k)) < Cap
        OBVIOUS
      <3>2. CASE k = Len(ls) + 1
        <4>1. n - 1 < Cap
          BY <1>0, <1>1
        <4> QED BY <1>3, <1>5, <1>15, <3>2, <4>1
      <3>3. CASE k # Len(ls) + 1
        <4>1. k \in 1..Len(ls)
          BY <1>5, <3>3
        <4> QED BY <1>5, <1>7, <4>1
      <3> QED BY <3>2, <3>3
    <2> QED BY <1>5, <1>8, <1>11, <1>14, <2>1 DEF Interpreted
  <1>17. Len(a) < Len(b)
    BY <1>0, <1>1, <1>2
  <1> QED BY <1>2, <1>5, <1>9, <1>16, <1>17 DEF a, f, ms

(* What read_incoming keeps, between its calls and between its steps: the  *)
(* lines are the pieces before what is in the buffer, an error is a full   *)
(* buffer without a newline, a pass that cut no line has left nothing      *)
(* unread that would fit, and between the calls no newline is kept.        *)
Inv ==
    /\ TypeOK
    /\ Kept(sent, in_buf, unread)
    /\ Interpreted(sent, in_buf, unread, lines)
    /\ error => Len(in_buf) = Cap /\ Places(in_buf, NewLine) = {}
    /\ ~reading => Places(in_buf, NewLine) = {}
    /\ reading /\ ~ok => unread = << >> \/ Len(in_buf) = Cap
    /\ ~ready /\ ~reading => /\ unread = << >> \/ Len(in_buf) = Cap
                             /\ error = (Len(in_buf) = Cap)

(* A connection begins with nothing sent. *)
LEMMA InitInv == Init => Inv
  <1> SUFFICES ASSUME Init PROVE Inv
    OBVIOUS
  <1>1. /\ sent = << >> /\ unread = << >> /\ ready = FALSE /\ in_buf = << >> /\ error = FALSE
        /\ reading = FALSE /\ ok = FALSE /\ lines = << >>
    BY DEF Init
  <1>2. << >> \in Seq(Char) /\ << >> \in Seq(Seq(Char \ {NewLine, Nul})) /\ Len(<< >>) = 0
    BY EmptySeq
  <1>3. Cap \in Nat \ {0} /\ MaxSent \in Nat
    BY InputAssumption
  <1>4. TypeOK
    <2>1. Len(sent) <= MaxSent /\ Len(in_buf) <= Cap
      BY <1>1, <1>2, <1>3
    <2>2. sent \in Seq(Char) /\ unread \in Seq(Char) /\ in_buf \in Seq(Char)
          /\ lines \in Seq(Seq(Char \ {NewLine, Nul}))
      BY <1>1, <1>2
    <2>3. {ready, reading, ok, error} \subseteq BOOLEAN
      BY <1>1
    <2> QED BY <2>1, <2>2, <2>3 DEF TypeOK
  <1>5. Places(<< >>, NewLine) = {}
    BY <1>2 DEF Places
  <1>6. CutAt(<< >>, << >>, << >>) = 0
    <2>1. CutAt(<< >>, << >>, << >>) = 0 - 0 - 0
      BY <1>2, Zenon DEF CutAt
    <2> QED BY <2>1
  <1>7. Kept(<< >>, << >>, << >>)
    <2>1. \A i \in 1..0 : FALSE
      OBVIOUS
    <2> QED BY <1>2, <1>6, <2>1 DEF Kept
  <1>8. Interpreted(<< >>, << >>, << >>, << >>)
    <2>1. Ends(<< >>) = {0}
      BY <1>5 DEF Ends
    <2>2. Below({0}, 0) = {}
      BY DEF Below
    <2>3. Cardinality({}) = 0
      BY FS_EmptySet
    <2>4. \A k \in 1..0 : FALSE
      OBVIOUS
    <2> QED BY <1>2, <1>6, <2>1, <2>2, <2>3, <2>4 DEF Interpreted
  <1>9. ~ (0 = Cap)
    BY <1>3
  <1> QED BY <1>1, <1>2, <1>4, <1>5, <1>7, <1>8, <1>9 DEF Inv

(* Every step keeps it. *)
LEMMA NextInv == Inv /\ [Next]_vars => Inv'
  <1> SUFFICES ASSUME Inv, [Next]_vars PROVE Inv'
    OBVIOUS
  <1>0. /\ sent \in Seq(Char) /\ Len(sent) <= MaxSent /\ unread \in Seq(Char)
        /\ in_buf \in Seq(Char) /\ Len(in_buf) <= Cap
        /\ ready \in BOOLEAN /\ reading \in BOOLEAN /\ ok \in BOOLEAN /\ error \in BOOLEAN
        /\ lines \in Seq(Seq(Char \ {NewLine, Nul}))
    BY DEF Inv, TypeOK
  <1>a. Cap \in Nat \ {0} /\ MaxSent \in Nat
    BY InputAssumption
  <1>b. Len(sent) \in Nat /\ Len(in_buf) \in Nat /\ Len(unread) \in Nat
    BY <1>0, LineFacts
  <1>c. Kept(sent, in_buf, unread) /\ Interpreted(sent, in_buf, unread, lines)
    BY DEF Inv
  <1>d. /\ error => Len(in_buf) = Cap /\ Places(in_buf, NewLine) = {}
        /\ ~reading => Places(in_buf, NewLine) = {}
        /\ reading /\ ~ok => unread = << >> \/ Len(in_buf) = Cap
        /\ ~ready /\ ~reading => /\ unread = << >> \/ Len(in_buf) = Cap
                                 /\ error = (Len(in_buf) = Cap)
    BY DEF Inv
  <1>e. ASSUME Fill
        PROVE  /\ in_buf' \in Seq(Char) /\ unread' \in Seq(Char) /\ Len(in_buf') <= Cap
               /\ unread' = << >> \/ Len(in_buf') = Cap
               /\ Kept(sent, in_buf', unread') /\ Interpreted(sent, in_buf', unread', lines)
               /\ Len(in_buf) = Cap => in_buf' = in_buf
    <2> DEFINE n == Up(Cap - Len(in_buf), Len(unread))
    <2>1. in_buf' = in_buf \o First(unread, n) /\ unread' = After(unread, n)
      BY <1>e DEF Fill
    <2>2. n \in Nat /\ (Len(in_buf) = Cap => n = 0)
      BY <1>0, <1>a, <1>b DEF Up
    <2>3. /\ in_buf \o First(unread, n) \in Seq(Char) /\ After(unread, n) \in Seq(Char)
          /\ Len(in_buf \o First(unread, n)) <= Cap
          /\ After(unread, n) = << >> \/ Len(in_buf \o First(unread, n)) = Cap
          /\ CutAt(sent, in_buf \o First(unread, n), After(unread, n)) = CutAt(sent, in_buf, unread)
          /\ Kept(sent, in_buf \o First(unread, n), After(unread, n))
      BY <1>0, <1>c, <2>2, FillKeeps
    <2>4. Interpreted(sent, in_buf \o First(unread, n), After(unread, n), lines)
      BY <1>c, <2>3 DEF Interpreted
    <2>5. Len(in_buf) = Cap => in_buf \o First(unread, n) = in_buf
      <3>1. SUFFICES ASSUME Len(in_buf) = Cap PROVE in_buf \o First(unread, n) = in_buf
        OBVIOUS
      <3>2. First(unread, n) = << >>
        BY <2>2, <3>1, SubSeqEmpty DEF First
      <3> QED BY <1>0, <3>2, ConcatEmptySeq
    <2> HIDE DEF n
    <2> QED BY <2>1, <2>3, <2>4, <2>5
  <1>1. CASE Send
    <2>1. PICK c \in Char : sent' = Append(sent, c) /\ unread' = Append(unread, c)
      BY <1>1 DEF Send
    <2>2. /\ ~reading /\ Len(sent) < MaxSent /\ ready' = TRUE /\ in_buf' = in_buf /\ error' = error
          /\ reading' = reading /\ ok' = ok /\ lines' = lines
      BY <1>1 DEF Send, conn
    <2>3. /\ sent' \in Seq(Char) /\ unread' \in Seq(Char) /\ Len(sent') = Len(sent) + 1
      BY <1>0, <2>1, AppendProperties
    <2>4. TypeOK'
      <3>1. Len(sent') <= MaxSent
        BY <1>a, <1>b, <2>2, <2>3
      <3> QED BY <1>0, <2>2, <2>3, <3>1 DEF TypeOK
    <2>5. Kept(sent', in_buf', unread') /\ Interpreted(sent', in_buf', unread', lines')
      BY <1>0, <1>c, <2>1, <2>2, SendKeeps
    <2> QED BY <1>d, <2>2, <2>4, <2>5 DEF Inv
  <1>2. CASE ReadIncoming
    <2>1. /\ Fill /\ ~reading /\ ready' = FALSE /\ reading' = TRUE /\ ok' = FALSE
          /\ sent' = sent /\ error' = error /\ lines' = lines
      BY <1>2 DEF ReadIncoming
    <2>2. TypeOK'
      BY <1>0, <1>e, <2>1 DEF TypeOK
    <2>3. error' => Len(in_buf') = Cap /\ Places(in_buf', NewLine) = {}
      BY <1>d, <1>e, <2>1
    <2>4. Kept(sent', in_buf', unread') /\ Interpreted(sent', in_buf', unread', lines')
      BY <1>e, <2>1
    <2>5. unread' = << >> \/ Len(in_buf') = Cap
      BY <1>e, <2>1
    <2> QED BY <2>1, <2>2, <2>3, <2>4, <2>5 DEF Inv
  <1>3. CASE CutLine
    <2> DEFINE n == Least(Places(in_buf, NewLine))
    <2>1. /\ reading /\ Places(in_buf, NewLine) # {}
          /\ lines' = IF error THEN lines ELSE Append(lines, Text(First(in_buf, n - 1)))
          /\ in_buf' = After(in_buf, n) /\ error' = FALSE /\ ok' = TRUE
          /\ sent' = sent /\ unread' = unread /\ ready' = ready /\ reading' = reading
      BY <1>3 DEF CutLine
    <2>2. ~error /\ lines' = Append(lines, Text(First(in_buf, n - 1)))
      BY <1>d, <2>1
    <2>3. n \in Nat
      <3>1. Places(in_buf, NewLine) \in SUBSET Nat
        BY DEF Places
      <3> QED BY <2>1, <3>1, LeastFacts
    <2>4. /\ After(in_buf, n) \in Seq(Char) /\ Len(After(in_buf, n)) < Len(in_buf)
          /\ Append(lines, Text(First(in_buf, n - 1))) \in Seq(Seq(Char \ {NewLine, Nul}))
          /\ Kept(sent, After(in_buf, n), unread)
          /\ Interpreted(sent, After(in_buf, n), unread, Append(lines, Text(First(in_buf, n - 1))))
      BY <1>0, <1>c, <2>1, <2>3, CutKeeps
    <2>5. Len(After(in_buf, n)) <= Cap
      <3>1. Len(After(in_buf, n)) \in Nat
        BY <2>4, LineFacts
      <3> QED BY <1>0, <1>a, <1>b, <2>4, <3>1
    <2> HIDE DEF n
    <2>6. TypeOK'
      BY <1>0, <2>1, <2>2, <2>4, <2>5 DEF TypeOK
    <2> QED BY <2>1, <2>2, <2>4, <2>6 DEF Inv
  <1>4. CASE NextPass
    <2>1. /\ reading /\ Places(in_buf, NewLine) = {} /\ sent' = sent /\ ready' = ready /\ lines' = lines
      BY <1>4 DEF NextPass
    <2>2. CASE ok
      <3>1. Fill /\ ok' = FALSE /\ reading' = reading /\ error' = error
        BY <1>4, <2>2 DEF NextPass
      <3>2. TypeOK'
        BY <1>0, <1>e, <2>1, <3>1 DEF TypeOK
      <3>3. error' => Len(in_buf') = Cap /\ Places(in_buf', NewLine) = {}
        BY <1>d, <1>e, <3>1
      <3>4. Kept(sent', in_buf', unread') /\ Interpreted(sent', in_buf', unread', lines')
        BY <1>e, <2>1, <3>1
      <3> QED BY <1>e, <2>1, <3>1, <3>2, <3>3, <3>4 DEF Inv
    <2>3. CASE ~ok
      <3>1. /\ reading' = FALSE /\ error' = (error \/ Len(in_buf) = Cap)
            /\ ok' = ok /\ in_buf' = in_buf /\ unread' = unread
        BY <1>4, <2>3 DEF NextPass
      <3>2. TypeOK'
        BY <1>0, <2>1, <3>1 DEF TypeOK
      <3>3. error' = (Len(in_buf) = Cap)
        BY <1>d, <3>1
      <3>4. unread = << >> \/ Len(in_buf) = Cap
        BY <1>d, <2>1, <2>3
      <3> QED BY <1>c, <2>1, <3>1, <3>2, <3>3, <3>4 DEF Inv
    <2> QED BY <2>2, <2>3
  <1>5. CASE UNCHANGED vars
    BY <1>5 DEF Inv, TypeOK, vars, conn
  <1> QED BY <1>1, <1>2, <1>3, <1>4, <1>5 DEF Next

(* It is an invariant. *)
LEMMA AlwaysInv == Spec => []Inv
  BY InitInv, NextInv, PTL DEF Spec

(* Nothing is lost or read twice between the socket and the buffer.        *)
LEMMA StreamFromInv == Inv => StreamKept
  <1> SUFFICES ASSUME Inv PROVE StreamKept
    OBVIOUS
  <1> DEFINE p == CutAt(sent, in_buf, unread)
             r == in_buf \o unread
             a == After(sent, p)
  <1>0. /\ sent \in Seq(Char) /\ unread \in Seq(Char) /\ in_buf \in Seq(Char)
        /\ Len(sent) \in Nat /\ Len(in_buf) \in Nat /\ Len(unread) \in Nat
    BY LineFacts DEF Inv, TypeOK
  <1>1. p \in Nat /\ p = Len(sent) - Len(in_buf) - Len(unread)
    BY DEF Inv, Kept, CutAt
  <1>2. /\ \A i \in 1..Len(in_buf) : in_buf[i] = sent[p + i]
        /\ \A i \in 1..Len(unread) : unread[i] = sent[p + Len(in_buf) + i]
    BY DEF Inv, Kept
  <1> HIDE DEF p
  <1>3. /\ r \in Seq(Char) /\ Len(r) = Len(in_buf) + Len(unread)
        /\ \A i \in 1..Len(in_buf) + Len(unread) :
              r[i] = IF i <= Len(in_buf) THEN in_buf[i] ELSE unread[i - Len(in_buf)]
    BY <1>0, ConcatProperties
  <1>4. p \in 0..Len(sent) /\ Len(sent) - p = Len(in_buf) + Len(unread)
    BY <1>0, <1>1
  <1>5. a \in Seq(Char) /\ Len(a) = Len(sent) - p /\ \A i \in 1..(Len(sent) - p) : a[i] = sent[p + i]
    BY <1>0, <1>4, FirstAfterFacts
  <1> HIDE DEF r, a
  <1>6. \A i \in 1..Len(r) : r[i] = a[i]
    <2>1. SUFFICES ASSUME NEW i \in 1..Len(in_buf) + Len(unread) PROVE r[i] = a[i]
      BY <1>3
    <2>2. i \in Nat /\ i \in 1..(Len(sent) - p) /\ p \in Nat
      BY <1>0, <1>1, <1>4
    <2>3. a[i] = sent[p + i]
      BY <1>5, <2>2
    <2>4. CASE i <= Len(in_buf)
      <3>1. i \in 1..Len(in_buf)
        BY <1>0, <2>2, <2>4
      <3> QED BY <1>2, <1>3, <2>3, <2>4, <3>1
    <2>5. CASE ~ (i <= Len(in_buf))
      <3>1. i - Len(in_buf) \in 1..Len(unread)
        BY <1>0, <2>2, <2>5
      <3>2. p + Len(in_buf) + (i - Len(in_buf)) = p + i
        BY <1>0, <2>2
      <3>3. r[i] = unread[i - Len(in_buf)]
        BY <1>3, <2>5
      <3> QED BY <1>2, <2>3, <3>1, <3>2, <3>3
    <2> QED BY <2>4, <2>5
  <1>7. r = a
    BY <1>3, <1>4, <1>5, <1>6, SeqEqual
  <1>8. Len(in_buf) + Len(unread) <= Len(sent)
    BY <1>0, <1>1
  <1> QED BY <1>1, <1>7, <1>8 DEF StreamKept, r, a

(* The pieces that fit when nothing is going on: those that were           *)
(* interpreted, and the one in the buffer unless it fills it.              *)
LEMMA FittingWhenIdle ==
    ASSUME Inv, ~ready, ~reading
    PROVE  /\ Len(lines) \in Nat /\ Cardinality(Ends(sent)) \in Nat
           /\ Len(lines) + 1 <= Cardinality(Ends(sent))
           /\ error => Fitting = 1..Len(lines)
           /\ ~error => /\ Fitting = 1..(Len(lines) + 1)
                        /\ Len(lines) + 1 = Cardinality(Ends(sent))
  <1> DEFINE S == Ends(sent)
             m == Len(lines)
             n == Cardinality(S)
             p == CutAt(sent, in_buf, unread)
  <1>0. /\ sent \in Seq(Char) /\ unread \in Seq(Char) /\ in_buf \in Seq(Char)
        /\ Len(sent) \in Nat /\ Len(in_buf) \in Nat /\ Len(unread) \in Nat
        /\ Len(in_buf) <= Cap /\ Cap \in Nat
    BY LineFacts, InputAssumption DEF Inv, TypeOK
  <1>1. p \in Nat /\ p = Len(sent) - Len(in_buf) - Len(unread)
        /\ \A i \in 1..Len(in_buf) : in_buf[i] = sent[p + i]
    BY DEF Inv, Kept, CutAt
  <1>2. /\ p \in S /\ m = Cardinality(Below(S, p))
        /\ \A k \in 1..m : Len(Piece(sent, k)) < Cap
    BY DEF Inv, Interpreted
  <1>3. /\ S \in SUBSET (0..Len(sent)) /\ S \in SUBSET Nat /\ IsFiniteSet(S)
        /\ \A i \in 1..Len(sent) : i \in S <=> sent[i] = NewLine
    BY <1>0, EndsFacts
  <1>4. m \in Nat /\ n \in Nat /\ m + 1 <= n
    <2> HIDE DEF S, p
    <2> QED BY <1>2, <1>3, RankBound
  <1>5. /\ Fitting = {k \in 1..Len(Pieces) : \A j \in 1..k : Len(Pieces[j]) < Cap}
        /\ Pieces = [k \in 1..n |-> Piece(sent, k)] /\ Len(Pieces) = n
    BY <1>0, PiecesAre DEF Fitting
  <1>6. \A k \in 1..n : Pieces[k] = Piece(sent, k)
    <2> HIDE DEF n
    <2> QED BY <1>5
  <1> HIDE DEF S, m, n, p
  <1>7. Fitting = {k \in 1..n : \A j \in 1..k : Len(Piece(sent, j)) < Cap}
    <2>1. \A k \in 1..n : \A j \in 1..k : j \in 1..n
      BY <1>4
    <2>2. \A k \in 1..n : (\A j \in 1..k : Len(Pieces[j]) < Cap)
                            <=> (\A j \in 1..k : Len(Piece(sent, j)) < Cap)
      BY <1>6, <2>1
    <2> QED BY <1>5, <2>2
  <1>8. /\ Places(in_buf, NewLine) = {}
        /\ unread = << >> \/ Len(in_buf) = Cap
        /\ error = (Len(in_buf) = Cap)
    BY DEF Inv
  <1>9. \A e \in S : e <= p \/ p + Len(in_buf) < e
    <2>1. SUFFICES ASSUME NEW e \in S, ~ (e <= p), ~ (p + Len(in_buf) < e) PROVE FALSE
      OBVIOUS
    <2>2. e \in Nat
      BY <1>3
    <2>3. /\ e - p \in 1..Len(in_buf) /\ e \in 1..Len(sent) /\ p + (e - p) = e
      BY <1>0, <1>1, <2>1, <2>2
    <2>4. in_buf[e - p] = sent[e] /\ sent[e] = NewLine
      BY <1>1, <1>3, <2>3
    <2> DEFINE i == e - p
    <2>5. i \in 1..Len(in_buf) /\ in_buf[i] = NewLine
      BY <2>3, <2>4
    <2> HIDE DEF i
    <2>6. i \in Places(in_buf, NewLine)
      BY <2>5 DEF Places
    <2> QED BY <1>8, <2>6
  <1>10. ASSUME error
         PROVE  ~ (Len(Piece(sent, m + 1)) < Cap)
    <2>0. Len(in_buf) = Cap
      BY <1>8, <1>10
    <2>1. CASE \A e \in S : e <= p
      <3>1. Piece(sent, n) = After(sent, p) /\ m + 1 = n
        BY <1>0, <1>2, <2>1, LastPieceIs DEF S, m, n
      <3>2. p \in 0..Len(sent) /\ Len(sent) - p >= Len(in_buf)
        BY <1>0, <1>1
      <3>3. Len(After(sent, p)) = Len(sent) - p
        BY <1>0, <3>2, FirstAfterFacts
      <3> QED BY <1>0, <1>1, <2>0, <3>1, <3>2, <3>3
    <2>2. CASE ~ \A e \in S : e <= p
      <3> DEFINE R == {e \in S : p < e}
      <3>1. R \in SUBSET Nat /\ R # {}
        <4>1. PICK e \in S : ~ (e <= p)
          BY <2>2
        <4>2. e \in R
          BY <1>1, <1>3, <4>1
        <4> QED BY <1>3, <4>2
      <3>2. PICK e \in R : \A f \in R : e <= f
        <4> HIDE DEF R
        <4> QED BY <3>1, LeastNumber
      <3>3. e \in S /\ p < e /\ e \in Nat /\ e <= Len(sent)
        BY <1>0, <1>3, <3>2
      <3>4. \A f \in S : f <= p \/ e <= f
        <4>1. \A f \in S : f <= p \/ f \in R
          BY <1>1, <1>3
        <4> QED BY <3>2, <4>1
      <3>5. Piece(sent, m + 1) = SubSeq(sent, p + 1, e - 1)
        BY <1>0, <1>2, <3>3, <3>4, PieceIs DEF S, m
      <3>6. p + Len(in_buf) < e
        <4>1. ~ (e <= p)
          BY <1>1, <3>3
        <4> QED BY <1>9, <3>3, <4>1
      <3>7. \A i \in (p + 1)..(e - 1) : sent[i] \in Char
        <4>1. \A i \in (p + 1)..(e - 1) : i \in 1..Len(sent)
          BY <1>0, <1>1, <3>3
        <4> QED BY <1>0, <4>1, LineFacts
      <3>8. Len(SubSeq(sent, p + 1, e - 1)) = IF p + 1 <= e - 1 THEN (e - 1) - (p + 1) + 1 ELSE 0
        <4>1. p + 1 \in Int /\ e - 1 \in Int
          BY <1>1, <3>3
        <4> QED BY <3>7, <4>1, SubSeqProperties
      <3>9. p + 1 <= e - 1 => (e - 1) - (p + 1) + 1 >= Cap
        BY <1>0, <1>1, <2>0, <3>3, <3>6
      <3>10. ~ (p + 1 <= e - 1) => Cap = 0
        BY <1>0, <1>1, <2>0, <3>3, <3>6
      <3>11. Cap # 0
        BY InputAssumption
      <3>12. Len(SubSeq(sent, p + 1, e - 1)) = (e - 1) - (p + 1) + 1
        BY <3>8, <3>10, <3>11
      <3>13. (e - 1) - (p + 1) + 1 \in Int /\ (e - 1) - (p + 1) + 1 >= Cap
        BY <1>1, <3>3, <3>9, <3>10, <3>11
      <3> DEFINE x == (e - 1) - (p + 1) + 1
      <3>14. x \in Int /\ x >= Cap /\ Len(Piece(sent, m + 1)) = x
        BY <3>5, <3>12, <3>13
      <3> HIDE DEF x
      <3> QED BY <1>0, <3>14
    <2> QED BY <2>1, <2>2
  <1>11. ASSUME ~error
         PROVE  m + 1 = n /\ Len(Piece(sent, m + 1)) < Cap
    <2>1. Len(in_buf) < Cap /\ Len(unread) = 0
      <3>1. Len(in_buf) # Cap /\ unread = << >>
        BY <1>8, <1>11
      <3> QED BY <1>0, <3>1, EmptySeq
    <2>2. \A e \in S : e <= p
      BY <1>0, <1>1, <1>3, <1>9, <2>1
    <2>3. Piece(sent, n) = After(sent, p) /\ m + 1 = n
      BY <1>0, <1>2, <2>2, LastPieceIs DEF S, m, n
    <2>4. p \in 0..Len(sent) /\ Len(sent) - p = Len(in_buf)
      BY <1>0, <1>1, <2>1
    <2>5. Len(After(sent, p)) = Len(sent) - p
      BY <1>0, <2>4, FirstAfterFacts
    <2> QED BY <2>1, <2>3, <2>4, <2>5
  <1>12. error => Fitting = 1..m
    <2>1. SUFFICES ASSUME error PROVE Fitting = 1..m
      OBVIOUS
    <2>2. ASSUME NEW k \in 1..m PROVE k \in Fitting
      <3>1. k \in 1..n /\ \A j \in 1..k : j \in 1..m
        BY <1>4
      <3> QED BY <1>2, <1>7, <3>1
    <2>3. ASSUME NEW k \in Fitting PROVE k \in 1..m
      <3>1. k \in 1..n /\ \A j \in 1..k : Len(Piece(sent, j)) < Cap
        BY <1>7
      <3>2. ~ (m + 1 \in 1..k)
        BY <1>10, <2>1, <3>1
      <3> QED BY <1>4, <3>1, <3>2
    <2> QED BY <2>2, <2>3
  <1>13. ~error => Fitting = 1..(m + 1)
    <2>1. SUFFICES ASSUME ~error PROVE Fitting = 1..(m + 1)
      OBVIOUS
    <2>2. m + 1 = n /\ Len(Piece(sent, m + 1)) < Cap
      BY <1>11, <2>1
    <2>3. \A j \in 1..(m + 1) : j \in 1..m \/ j = m + 1
      BY <1>4
    <2>4. \A j \in 1..(m + 1) : Len(Piece(sent, j)) < Cap
      BY <1>2, <2>2, <2>3
    <2>5. \A k \in 1..(m + 1) : \A j \in 1..k : j \in 1..(m + 1)
      BY <1>4
    <2> QED BY <1>7, <2>2, <2>4, <2>5
  <1> QED BY <1>4, <1>11, <1>12, <1>13 DEF m, n, S

(* What the lines are then. *)
LEMMA LinesFromInv == Inv => LinesRight
  <1> SUFFICES ASSUME Inv PROVE LinesRight
    OBVIOUS
  <1> DEFINE m == Len(lines)
             n == Cardinality(Ends(sent))
  <1>1. TypeOK /\ StreamKept
    BY StreamFromInv DEF Inv
  <1>2. ASSUME ~ready, ~reading
        PROVE  /\ lines = [k \in 1..Cardinality(Fitting \ {Len(Pieces)}) |-> Text(Pieces[k])]
               /\ error = (Cardinality(Fitting) < Len(Pieces))
    <2>1. /\ m \in Nat /\ n \in Nat /\ m + 1 <= n
          /\ error => Fitting = 1..m
          /\ ~error => Fitting = 1..(m + 1) /\ m + 1 = n
      BY <1>2, FittingWhenIdle
    <2>2. Len(Pieces) = n /\ Pieces = [k \in 1..n |-> Piece(sent, k)]
      <3>1. sent \in Seq(Char)
        BY DEF Inv, TypeOK
      <3> QED BY <3>1, PiecesAre
    <2>3. /\ lines \in Seq(Seq(Char \ {NewLine, Nul}))
          /\ \A k \in 1..m : lines[k] = Text(Piece(sent, k))
          /\ error \in BOOLEAN
      BY DEF Inv, TypeOK, Interpreted
    <2>4. lines = [k \in 1..m |-> lines[k]]
      BY <2>3, LenProperties
    <2> HIDE DEF m, n
    <2>5. Fitting \ {n} = 1..m
      <3>1. CASE error
        <4>1. n \notin 1..m
          BY <2>1
        <4> QED BY <2>1, <3>1, <4>1
      <3>2. CASE ~error
        <4>1. Fitting = 1..n /\ m + 1 = n
          BY <2>1, <3>2
        <4>2. (1..n) \ {n} = 1..m
          BY <2>1, <4>1
        <4> QED BY <4>1, <4>2
      <3> QED BY <3>1, <3>2
    <2>6. \A j \in Nat : Cardinality(1..j) = j
      <3>1. SUFFICES ASSUME NEW j \in Nat PROVE Cardinality(1..j) = j
        OBVIOUS
      <3>2. Cardinality(1..j) = IF 1 > j THEN 0 ELSE j - 1 + 1
        BY FS_Interval
      <3> QED BY <3>2
    <2>7. \A k \in 1..m : lines[k] = Text(Pieces[k])
      <3>1. \A k \in 1..m : k \in 1..n
        BY <2>1
      <3> QED BY <2>2, <2>3, <3>1
    <2>8. lines = [k \in 1..m |-> Text(Pieces[k])]
      BY <2>4, <2>7
    <2>9. Cardinality(Fitting \ {Len(Pieces)}) = m
      BY <2>1, <2>2, <2>5, <2>6
    <2>10. error = (Cardinality(Fitting) < Len(Pieces))
      <3>1. CASE error
        <4>1. Cardinality(Fitting) = m /\ m < n
          BY <2>1, <2>6, <3>1
        <4> QED BY <2>2, <2>3, <3>1, <4>1
      <3>2. CASE ~error
        <4>1. Cardinality(Fitting) = m + 1 /\ m + 1 = n
          BY <2>1, <2>6, <3>2
        <4>2. ~ (Cardinality(Fitting) < Len(Pieces))
          BY <2>1, <2>2, <4>1
        <4> QED BY <2>3, <3>2, <4>2
      <3> QED BY <3>1, <3>2
    <2> QED BY <2>8, <2>9, <2>10
  <1> QED BY <1>1, <1>2 DEF LinesRight

(* However the bytes of a socket arrive, read_incoming has interpreted     *)
(* each line once and in order, up to the first that fills its buffer.     *)
THEOREM LinesCorrect == Spec => []LinesRight
  BY AlwaysInv, LinesFromInv, PTL

-----------------------------------------------------------------------------
(***************************************************************************)
(* The tokens are those of the automaton.                                  *)
(***************************************************************************)

(* From the first number of an interval to all, one after the other. *)
LEMMA Upward ==
    ASSUME NEW i \in Nat, NEW j \in Nat, NEW T, i \in T,
           \A n \in i..(j - 1) : n \in T => n + 1 \in T
    PROVE  \A n \in i..j : n \in T
  <1>1. SUFFICES ASSUME NEW x \in i..j, x \notin T PROVE FALSE
    OBVIOUS
  <1> DEFINE S == {n \in i..j : n \notin T}
  <1>2. S \in SUBSET Nat /\ S # {}
    BY <1>1
  <1>3. PICK m \in S : \A k \in S : m <= k
    <2> HIDE DEF S
    <2> QED BY <1>2, LeastNumber
  <1>4. m \in Nat /\ i <= m /\ m <= j /\ m \notin T /\ m # i
    BY <1>3
  <1>5. m - 1 \in i..(j - 1) /\ (m - 1) + 1 = m /\ m - 1 \in i..j /\ ~ (m <= m - 1)
    BY <1>4
  <1>6. m - 1 \in T
    BY <1>3, <1>5
  <1> QED BY <1>4, <1>5, <1>6

(* From the last to all: each follows from all that are larger. *)
LEMMA Downward ==
    ASSUME NEW i \in Nat, NEW j \in Nat, NEW T,
           \A n \in i..j : (\A k \in (n + 1)..j : k \in T) => n \in T
    PROVE  \A n \in i..j : n \in T
  <1>1. SUFFICES ASSUME NEW x \in i..j, x \notin T PROVE FALSE
    OBVIOUS
  <1> DEFINE S == {d \in 0..j : j - d >= i /\ j - d \notin T}
  <1>2. S \in SUBSET Nat /\ j - x \in S
    <2>1. x \in Nat /\ i <= x /\ x <= j /\ j - (j - x) = x /\ j - x \in 0..j
      OBVIOUS
    <2> QED BY <1>1, <2>1
  <1>3. PICK m \in S : \A k \in S : m <= k
    <2> HIDE DEF S
    <2> QED BY <1>2, LeastNumber
  <1>4. m \in Nat /\ m <= j /\ j - m \in i..j /\ j - m \notin T
    BY <1>3
  <1>5. ASSUME NEW k \in (j - m + 1)..j PROVE k \in T
    <2>1. k \in Nat /\ k <= j /\ j - k < m /\ j - k \in 0..j /\ j - (j - k) = k /\ k >= i
      BY <1>4
    <2>2. ~ (m <= j - k)
      BY <1>4, <2>1
    <2>3. j - k \notin S
      BY <1>3, <2>2
    <2> QED BY <2>1, <2>3
  <1> QED BY <1>4, <1>5

(* Where the automaton begins, and its state after each character. *)
Start == [mode |-> "blank", quote |-> Space, text |-> << >>, read |-> << >>]
IsRunning(f, l) == f = [n \in 0..Len(l) |-> IF n = 0 THEN Start ELSE Step(f[n - 1], l[n])]
Run(l) == CHOOSE f : IsRunning(f, l)

(* What it has read when the line ends. *)
Final(s) ==
    CASE s.mode = "blank" -> s.read
      [] s.mode = "plain" -> Append(s.read, [kind |-> "plain", text |-> s.text])
      [] OTHER -> Append(s.read, [kind |-> "open", text |-> << >>])

(* There is such a run. *)
LEMMA RunFacts ==
    ASSUME NEW l \in Seq(Char)
    PROVE  /\ \A n \in 0..Len(l) : Run(l)[n] \in States
           /\ Run(l)[0] = Start
           /\ \A n \in 1..Len(l) : Run(l)[n] = Step(Run(l)[n - 1], l[n])
           /\ Automaton(l) = Final(Run(l)[Len(l)])
  <1> DEFINE D == 0..Len(l)
             B == {0}
             mu == [n \in D |-> n]
             succ == [n \in D \ B |-> n - 1]
             base == [n \in B |-> Start]
             step == [x \in (D \ B) \X States |-> Step(x[2], l[x[1]])]
             N == Len(l)
  <1>0. Len(l) \in Nat /\ \A n \in 1..Len(l) : l[n] \in Char
    BY LineFacts
  <1>1. Start \in States
    BY CharFacts, EmptySeq DEF Start, States
  <1>2. \A n \in D \ B, s \in States : Step(s, l[n]) \in States
    <2>1. SUFFICES ASSUME NEW n \in D \ B, NEW s \in States PROVE Step(s, l[n]) \in States
      OBVIOUS
    <2>2. l[n] \in Char
      BY <1>0
    <2> QED BY <2>2, StepFacts
  <1>3. Recursion(N, D, States, B, mu, succ, base, step)
    <2>1. N \in Nat /\ B \in SUBSET D
      BY <1>0
    <2>2. mu \in [D -> 0..N]
      BY <1>0
    <2>3. succ \in [D \ B -> D]
      BY <1>0
    <2>4. base \in [B -> States]
      BY <1>1
    <2>5. step \in [(D \ B) \X States -> States]
      <3> HIDE DEF D, B
      <3> QED BY <1>2
    <2>6. \A j \in D \ B : mu[succ[j]] < mu[j]
      BY <1>0
    <2> HIDE DEF mu, succ, base, step, N, D, B
    <2> QED BY <2>1, <2>2, <2>3, <2>4, <2>5, <2>6 DEF Recursion
  <1>4. PICK f \in [D -> States] :
           \A n \in D : f[n] = IF n = 0 THEN Start ELSE Step(f[n - 1], l[n])
    <2>1. \A j \in D \ B : succ[j] = j - 1 /\ j - 1 \in D
      BY <1>0
    <2>2. \A j \in D \ B, x \in States : step[<<j, x>>] = Step(x, l[j])
      <3> HIDE DEF D, B
      <3> QED OBVIOUS
    <2>3. \A j \in B : base[j] = Start
      OBVIOUS
    <2>4. \A j : j \in B <=> j = 0
      OBVIOUS
    <2> HIDE DEF mu, succ, base, step, N, D, B
    <2>5. PICK f \in [D -> States] :
             \A j \in D : f[j] = IF j \in B THEN base[j] ELSE step[<<j, f[succ[j]]>>]
      BY <1>3, RecursionExists
    <2>6. ASSUME NEW j \in D PROVE f[j] = IF j = 0 THEN Start ELSE Step(f[j - 1], l[j])
      <3>1. CASE j \in B
        BY <2>3, <2>4, <2>5, <3>1
      <3>2. CASE j \notin B
        <4>1. j \in D \ B /\ f[j] = step[<<j, f[j - 1]>>]
          BY <2>1, <2>5, <3>2
        <4>2. f[j - 1] \in States
          BY <2>1, <4>1
        <4> QED BY <2>2, <2>4, <3>2, <4>1, <4>2
      <3> QED BY <3>1, <3>2
    <2> QED BY <2>6
  <1>5. IsRunning(f, l)
    <2>1. f = [n \in D |-> f[n]]
      OBVIOUS
    <2> QED BY <1>4, <2>1, Zenon DEF IsRunning
  <1> DEFINE g == Run(l)
  <1>6. IsRunning(g, l)
    BY <1>5 DEF Run
  <1>7. Automaton(l) = Final(g[Len(l)])
    BY DEF Automaton, Final, Run, IsRunning, Start
  <1> HIDE DEF g
  <1>8. \A n \in D : g[n] = IF n = 0 THEN Start ELSE Step(g[n - 1], l[n])
    BY <1>6, Zenon DEF IsRunning
  <1>9. g[0] = Start
    BY <1>0, <1>8
  <1>10. \A n \in 1..Len(l) : g[n] = Step(g[n - 1], l[n])
    <2>1. \A n \in 1..Len(l) : n \in D /\ n # 0
      BY <1>0
    <2> QED BY <1>8, <2>1
  <1>11. \A n \in D : g[n] \in States
    <2> DEFINE T == {n \in D : g[n] \in States}
    <2>1. 0 \in T
      BY <1>0, <1>1, <1>9
    <2>2. \A n \in 0..(Len(l) - 1) : n \in T => n + 1 \in T
      <3>1. SUFFICES ASSUME NEW n \in 0..(Len(l) - 1), n \in T PROVE n + 1 \in T
        OBVIOUS
      <3>2. n + 1 \in 1..Len(l) /\ (n + 1) - 1 = n /\ n + 1 \in D \ B
        BY <1>0
      <3>3. g[n + 1] = Step(g[n], l[n + 1]) /\ g[n] \in States
        BY <1>10, <3>1, <3>2
      <3>4. g[n + 1] \in States
        BY <1>2, <3>2, <3>3
      <3> QED BY <3>2, <3>4
    <2> HIDE DEF T
    <2>3. \A n \in 0..Len(l) : n \in T
      BY <1>0, <2>1, <2>2, Upward
    <2> QED BY <2>3 DEF T
  <1> QED BY <1>7, <1>9, <1>10, <1>11 DEF g

(* Blanks between tokens change nothing. *)
LEMMA BlankRun ==
    ASSUME NEW l \in Seq(Char), NEW p \in 1..(Len(l) + 1), Run(l)[p - 1].mode = "blank"
    PROVE  Run(l)[SkipWspc(l, p) - 1] = Run(l)[p - 1]
  <1> DEFINE a == Run(l)
             i == SkipWspc(l, p)
             T == {n \in Nat : a[n] = a[p - 1]}
  <1>0. /\ Len(l) \in Nat /\ p \in Nat /\ i \in p..(Len(l) + 1) /\ i \in Nat
        /\ \A j \in p..(i - 1) : j <= Len(l) /\ l[j] \in Blank
    BY LineFacts, SkipFacts
  <1>1. /\ \A n \in 0..Len(l) : a[n] \in States
        /\ \A n \in 1..Len(l) : a[n] = Step(a[n - 1], l[n]) /\ l[n] \in Char
    BY RunFacts, LineFacts
  <1>a. a[p - 1].mode = "blank"
    OBVIOUS
  <1> HIDE DEF i, a
  <1>2. p - 1 \in T
    BY <1>0
  <1>3. \A n \in (p - 1)..((i - 1) - 1) : n \in T => n + 1 \in T
    <2>1. SUFFICES ASSUME NEW n \in (p - 1)..((i - 1) - 1), n \in T PROVE n + 1 \in T
      OBVIOUS
    <2>2. /\ n + 1 \in Nat /\ n + 1 \in p..(i - 1) /\ n + 1 \in 1..Len(l) /\ (n + 1) - 1 = n
          /\ n \in 0..Len(l)
      BY <1>0
    <2>3. a[n + 1] = Step(a[n], l[n + 1]) /\ a[n] \in States /\ a[n] = a[p - 1]
          /\ l[n + 1] \in Char /\ l[n + 1] \in Blank
      BY <1>0, <1>1, <2>1, <2>2
    <2>4. a[n + 1] = a[n]
      BY <1>a, <2>3, StepFacts
    <2> QED BY <2>2, <2>3, <2>4
  <1>4. \A n \in (p - 1)..(i - 1) : n \in T
    <2>1. p - 1 \in Nat /\ i - 1 \in Nat
      BY <1>0
    <2> HIDE DEF T
    <2> QED BY <1>2, <1>3, <2>1, Upward
  <1>5. i - 1 \in (p - 1)..(i - 1)
    BY <1>0
  <1>6. a[i - 1] = a[p - 1]
    BY <1>4, <1>5
  <1> QED BY <1>6 DEF a, i

(* A plain token is gathered up to the blank after it. *)
PlainRead(l, i, w) ==
    /\ w \in (i + 1)..(Len(l) + 1)
    /\ Run(l)[w - 1].mode = "plain" /\ Run(l)[w - 1].text = SubSeq(l, i, w - 1)
    /\ Run(l)[w - 1].read = Run(l)[i - 1].read
    /\ w <= Len(l) =>
         /\ l[w] \in Blank
         /\ Run(l)[w].mode = "blank" /\ Run(l)[w].text = << >>
         /\ Run(l)[w].read = Append(Run(l)[i - 1].read,
                                    [kind |-> "plain", text |-> SubSeq(l, i, w - 1)])

(* This holds of it. *)
LEMMA PlainRun ==
    ASSUME NEW l \in Seq(Char), NEW i \in 1..Len(l), l[i] \notin Blank, l[i] \notin Quotes,
           Run(l)[i - 1].mode = "blank", NEW w \in Nat, w = PlainEnd(l, i)
    PROVE  PlainRead(l, i, w)
  <1> DEFINE a == Run(l)
             T == {n \in Nat : /\ a[n].mode = "plain" /\ a[n].text = SubSeq(l, i, n)
                               /\ a[n].read = a[i - 1].read}
  <1>0. /\ Len(l) \in Nat /\ i \in Nat /\ 1 <= i /\ i <= Len(l)
        /\ w \in (i + 1)..(Len(l) + 1) /\ w \in Nat
        /\ w <= Len(l) => l[w] \in Blank
        /\ \A j \in i..(w - 1) : j <= Len(l) /\ l[j] \notin Blank
    BY LineFacts, PlainEndFacts
  <1>1. /\ \A n \in 0..Len(l) : a[n] \in States
        /\ \A n \in 1..Len(l) : a[n] = Step(a[n - 1], l[n]) /\ l[n] \in Char
    BY RunFacts, LineFacts
  <1>a. a[i - 1].mode = "blank"
    OBVIOUS
  <1> HIDE DEF a
  <1>2. i \in T
    <2>1. /\ a[i] = Step(a[i - 1], l[i]) /\ a[i - 1] \in States /\ l[i] \in Char
          /\ l[i] \notin Blank \cup Quotes
      BY <1>0, <1>1
    <2>2. a[i] = [a[i - 1] EXCEPT !.mode = "plain", !.text = <<l[i]>>]
      BY <1>a, <2>1, StepFacts
    <2>3. a[i].mode = "plain" /\ a[i].text = <<l[i]>> /\ a[i].read = a[i - 1].read
      BY <2>1, <2>2 DEF States
    <2>4. SubSeq(l, i, i) = <<l[i]>>
      <3>1. i \in i..Len(l)
        BY <1>0
      <3>2. SubSeq(l, i, i) = << l[i] >> \o SubSeq(l, i + 1, i)
        BY <3>1, SubSeqRecursiveFirst
      <3>3. SubSeq(l, i + 1, i) = << >>
        BY <1>0, SubSeqEmpty
      <3>4. <<l[i]>> \in Seq(Char)
        BY <2>1
      <3> QED BY <3>2, <3>3, <3>4, ConcatEmptySeq
    <2> QED BY <1>0, <2>3, <2>4
  <1>3. \A n \in i..((w - 1) - 1) : n \in T => n + 1 \in T
    <2>1. SUFFICES ASSUME NEW n \in i..((w - 1) - 1), n \in T PROVE n + 1 \in T
      OBVIOUS
    <2>2. /\ n + 1 \in Nat /\ n + 1 \in i..(w - 1) /\ n + 1 \in 1..Len(l) /\ (n + 1) - 1 = n
          /\ n \in 0..Len(l) /\ n \in Nat /\ i <= n
      BY <1>0
    <2>3. a[n + 1] = Step(a[n], l[n + 1]) /\ a[n] \in States
          /\ l[n + 1] \in Char /\ l[n + 1] \notin Blank
      BY <1>0, <1>1, <2>2
    <2>4. a[n].mode = "plain" /\ a[n].text = SubSeq(l, i, n) /\ a[n].read = a[i - 1].read
      BY <2>1
    <2>5. a[n + 1] = [a[n] EXCEPT !.text = Append(a[n].text, l[n + 1])]
      BY <2>3, <2>4, StepFacts
    <2>6. /\ a[n + 1].mode = a[n].mode /\ a[n + 1].text = Append(a[n].text, l[n + 1])
          /\ a[n + 1].read = a[n].read
      BY <2>3, <2>5 DEF States
    <2>7. SubSeq(l, i, n + 1) = Append(SubSeq(l, i, n), l[n + 1])
      <3>1. n + 1 \in i..Len(l)
        BY <1>0, <2>2
      <3>2. SubSeq(l, i, n + 1) = SubSeq(l, i, (n + 1) - 1) \o << l[n + 1] >>
        BY <3>1, SubSeqRecursiveSecond
      <3>3. SubSeq(l, i, n) \in Seq(Char)
        BY <2>3, <2>4 DEF States
      <3> QED BY <2>2, <2>3, <3>2, <3>3, AppendIsConcat
    <2> QED BY <2>2, <2>4, <2>6, <2>7
  <1>4. \A n \in i..(w - 1) : n \in T
    <2>1. w - 1 \in Nat
      BY <1>0
    <2> HIDE DEF T
    <2> QED BY <1>0, <1>2, <1>3, <2>1, Upward
  <1>5. w - 1 \in i..(w - 1)
    BY <1>0
  <1>6. a[w - 1].mode = "plain" /\ a[w - 1].text = SubSeq(l, i, w - 1)
        /\ a[w - 1].read = a[i - 1].read
    BY <1>4, <1>5
  <1>7. ASSUME w <= Len(l)
        PROVE  /\ l[w] \in Blank /\ a[w].mode = "blank" /\ a[w].text = << >>
               /\ a[w].read = Append(a[i - 1].read, [kind |-> "plain", text |-> SubSeq(l, i, w - 1)])
    <2>1. w \in 1..Len(l) /\ w - 1 \in 0..Len(l)
      BY <1>0, <1>7
    <2>2. a[w] = Step(a[w - 1], l[w]) /\ a[w - 1] \in States /\ l[w] \in Char /\ l[w] \in Blank
      BY <1>0, <1>1, <1>7, <2>1
    <2>3. a[w] = [a[w - 1] EXCEPT !.mode = "blank", !.text = << >>,
                    !.read = Append(a[w - 1].read, [kind |-> a[w - 1].mode, text |-> a[w - 1].text])]
      BY <1>6, <2>2, StepFacts
    <2>4. /\ a[w].mode = "blank" /\ a[w].text = << >>
          /\ a[w].read = Append(a[w - 1].read, [kind |-> a[w - 1].mode, text |-> a[w - 1].text])
      BY <2>2, <2>3 DEF States
    <2> QED BY <1>6, <2>2, <2>4
  <1> QED BY <1>0, <1>6, <1>7 DEF a, PlainRead

(* Inside of quotes, the automaton is in its escaped state where the loop  *)
(* of next_token has esc set.                                              *)
LEMMA QuotedRun ==
    ASSUME NEW l \in Seq(Char), NEW i \in 1..Len(l), l[i] \in Quotes,
           Run(l)[i - 1].mode = "blank", Run(l)[i - 1].text = << >>, NEW q, q = QuotedEnd(l, i)
    PROVE  /\ q \in (i + 1)..(Len(l) + 1)
           /\ Run(l)[i].text = << >>
           /\ \A n \in i..(q - 1) :
                /\ Run(l)[n].mode = IF Escaping(l, i)[n + 1] THEN "escaped" ELSE "quoted"
                /\ Run(l)[n].quote = l[i] /\ Run(l)[n].read = Run(l)[i - 1].read
  <1> DEFINE a == Run(l)
             e == Escaping(l, i)
             T == {n \in Nat : /\ a[n].mode = IF e[n + 1] THEN "escaped" ELSE "quoted"
                               /\ a[n].quote = l[i] /\ a[n].read = a[i - 1].read}
  <1>0. /\ Len(l) \in Nat /\ i \in Nat /\ 1 <= i /\ i <= Len(l)
        /\ q \in (i + 1)..(Len(l) + 1) /\ q \in Nat
        /\ \A j \in (i + 1)..(q - 1) : j <= Len(l) /\ (l[j] = l[i] => e[j])
    BY LineFacts, QuotedEndFacts
  <1>1. /\ \A n \in 0..Len(l) : a[n] \in States
        /\ \A n \in 1..Len(l) : a[n] = Step(a[n - 1], l[n]) /\ l[n] \in Char
    BY RunFacts, LineFacts
  <1>2. ~e[i] /\ \A j \in i..Len(l) : e[j + 1] <=> l[j] = Backslash /\ ~e[j]
    <2>1. i \in 1..(Len(l) + 1)
      BY <1>0
    <2> QED BY <2>1, EscapingFacts
  <1>3. l[i] # Backslash /\ l[i] \in Quotes
    BY CharFacts
  <1>a. a[i - 1].mode = "blank" /\ a[i - 1].text = << >>
    OBVIOUS
  <1> HIDE DEF a, e
  <1>4. i \in T /\ a[i].text = << >>
    <2>1. a[i] = Step(a[i - 1], l[i]) /\ a[i - 1] \in States /\ l[i] \in Char
      BY <1>0, <1>1
    <2>2. a[i] = [a[i - 1] EXCEPT !.mode = "quoted", !.quote = l[i]]
      BY <1>3, <1>a, <2>1, StepFacts
    <2>3. /\ a[i].mode = "quoted" /\ a[i].quote = l[i] /\ a[i].read = a[i - 1].read
          /\ a[i].text = << >>
      BY <1>a, <2>1, <2>2 DEF States
    <2>4. ~e[i + 1]
      <3>1. i \in i..Len(l)
        BY <1>0
      <3> QED BY <1>2, <1>3, <3>1
    <2> QED BY <1>0, <2>3, <2>4
  <1>5. \A n \in i..((q - 1) - 1) : n \in T => n + 1 \in T
    <2>1. SUFFICES ASSUME NEW n \in i..((q - 1) - 1), n \in T PROVE n + 1 \in T
      OBVIOUS
    <2> DEFINE k == n + 1
               c == l[k]
    <2>2. /\ k \in Nat /\ k \in (i + 1)..(q - 1) /\ k \in 1..Len(l) /\ k - 1 = n
          /\ n \in 0..Len(l) /\ k \in i..Len(l) /\ k = n + 1
      BY <1>0
    <2>a. /\ a[n].mode = (IF e[k] THEN "escaped" ELSE "quoted")
          /\ a[n].quote = l[i] /\ a[n].read = a[i - 1].read
      BY <2>1
    <2> HIDE DEF k
    <2>3. a[k] = Step(a[n], c) /\ a[n] \in States /\ c \in Char
      BY <1>1, <2>2
    <2>4. e[k + 1] <=> c = Backslash /\ ~e[k]
      BY <1>2, <2>2
    <2>5. c = l[i] => e[k]
      BY <1>0, <2>2
    <2>6. /\ a[k].mode = IF e[k + 1] THEN "escaped" ELSE "quoted"
          /\ a[k].quote = a[n].quote /\ a[k].read = a[n].read
      <3> HIDE DEF c
      <3>1. CASE e[k]
        <4>1. a[k] = [a[n] EXCEPT !.mode = "quoted", !.text = Append(a[n].text, Meaning(c))]
          BY <2>3, <2>a, <3>1, StepFacts
        <4>2. a[k].mode = "quoted" /\ a[k].quote = a[n].quote /\ a[k].read = a[n].read
          BY <2>3, <4>1 DEF States
        <4>3. ~e[k + 1]
          BY <2>4, <3>1
        <4> QED BY <4>2, <4>3
      <3>2. CASE ~e[k] /\ c = Backslash
        <4>1. a[k] = [a[n] EXCEPT !.mode = "escaped"]
          BY <2>3, <2>a, <3>2, StepFacts
        <4>2. a[k].mode = "escaped" /\ a[k].quote = a[n].quote /\ a[k].read = a[n].read
          BY <2>3, <4>1 DEF States
        <4>3. e[k + 1]
          BY <2>4, <3>2
        <4> QED BY <4>2, <4>3
      <3>3. CASE ~e[k] /\ c # Backslash
        <4>1. a[n].mode = "quoted" /\ c \notin {Backslash, a[n].quote}
          BY <2>5, <2>a, <3>3
        <4>2. a[k] = [a[n] EXCEPT !.text = Append(a[n].text, c)]
          BY <2>3, <4>1, StepFacts
        <4>3. a[k].mode = "quoted" /\ a[k].quote = a[n].quote /\ a[k].read = a[n].read
          BY <2>3, <4>1, <4>2 DEF States
        <4>4. ~e[k + 1]
          BY <2>4, <3>3
        <4> QED BY <4>3, <4>4
      <3> QED BY <3>1, <3>2, <3>3
    <2>7. k \in T
      BY <2>2, <2>6, <2>a
    <2> QED BY <2>2, <2>7
  <1>6. \A n \in i..(q - 1) : n \in T
    <2>1. q - 1 \in Nat
      BY <1>0
    <2> HIDE DEF T
    <2> QED BY <1>0, <1>4, <1>5, <2>1, Upward
  <1> QED BY <1>0, <1>4, <1>6 DEF a, e

(* Gathering characters one by one, or all that follow. *)
LEMMA GatherFacts ==
    ASSUME NEW s \in Seq(Char), NEW c \in Char, NEW u \in Seq(Char)
    PROVE  Append(s, c) \o u = s \o (<<c>> \o u)
  <1>1. Append(s, c) = s \o <<c>> /\ <<c>> \in Seq(Char)
    BY AppendIsConcat
  <1>2. (s \o <<c>>) \o u = s \o (<<c>> \o u)
    BY <1>1, ConcatAssociative
  <1> QED BY <1>1, <1>2

(* What it gathers there is what unescape_token makes of the token, and    *)
(* the quote ends it.                                                      *)
LEMMA QuotedText ==
    ASSUME NEW l \in Seq(Char), NEW i \in 1..Len(l), l[i] \in Quotes,
           Run(l)[i - 1].mode = "blank", Run(l)[i - 1].text = << >>,
           NEW q, q = QuotedEnd(l, i), q <= Len(l)
    PROVE  /\ Run(l)[q].mode = "blank" /\ Run(l)[q].text = << >>
           /\ Run(l)[q].read = Append(Run(l)[i - 1].read,
                                      [kind |-> "quoted", text |-> Unescaped(l, i + 1, q).text])
  <1> DEFINE a == Run(l)
             e == Escaping(l, i)
             r == Reader(l, i + 1, q)
             T == {j \in Nat : ~e[j] => a[q - 1].text = a[j - 1].text \o r[j].text}
  <1>0. /\ Len(l) \in Nat /\ i \in Nat /\ 1 <= i /\ i <= Len(l)
        /\ q \in (i + 1)..(Len(l) + 1) /\ q \in Nat /\ q <= Len(l) /\ i + 1 <= q
        /\ \A j \in (i + 1)..(q - 1) : l[j] = l[i] => e[j]
        /\ l[q] = l[i] /\ ~e[q]
    BY LineFacts, QuotedEndFacts
  <1>1. /\ \A n \in 0..Len(l) : a[n] \in States
        /\ \A n \in 1..Len(l) : a[n] = Step(a[n - 1], l[n]) /\ l[n] \in Char
    BY RunFacts, LineFacts
  <1>2. ~e[i] /\ \A j \in i..Len(l) : e[j + 1] <=> l[j] = Backslash /\ ~e[j]
    <2>1. i \in 1..(Len(l) + 1)
      BY <1>0
    <2> QED BY <2>1, EscapingFacts
  <1>3. /\ a[i].text = << >>
        /\ \A n \in i..(q - 1) : /\ a[n].mode = IF e[n + 1] THEN "escaped" ELSE "quoted"
                                 /\ a[n].quote = l[i] /\ a[n].read = a[i - 1].read
    BY QuotedRun
  <1>4. /\ Unescaped(l, i + 1, q) = r[i + 1]
        /\ \A j \in (i + 1)..(q + 1) :
             /\ r[j].text \in Seq(Char)
             /\ j >= q => r[j].text = << >>
             /\ j < q /\ l[j] # Backslash => r[j].text = <<l[j]>> \o r[j + 1].text
             /\ j < q /\ l[j] = Backslash => r[j].text = <<Meaning(l[j + 1])>> \o r[j + 2].text
    <2>1. i + 1 \in 1..Len(l) /\ q \in (i + 1)..Len(l)
      BY <1>0
    <2> QED BY <2>1, ReaderFacts
  <1>5. l[i] # Backslash /\ \A c \in Char : Meaning(c) \in Char
    BY CharFacts
  <1> HIDE DEF a, e, r
  <1>6. ASSUME NEW j \in (i + 1)..q, \A k \in (j + 1)..q : k \in T
        PROVE  j \in T
    <2>0. /\ j \in Nat /\ i + 1 <= j /\ j <= q /\ j - 1 \in i..(q - 1) /\ (j - 1) + 1 = j
          /\ j - 1 \in 0..Len(l) /\ j \in i..Len(l) /\ j \in 1..Len(l) /\ j \in (i + 1)..(q + 1)
      BY <1>0
    <2>1. SUFFICES ASSUME ~e[j] PROVE a[q - 1].text = a[j - 1].text \o r[j].text
      BY <2>0
    <2>2. a[j - 1] \in States /\ a[j - 1].text \in Seq(Char)
      BY <1>1, <2>0 DEF States
    <2>3. CASE j = q
      <3>1. r[j].text = << >>
        BY <1>0, <1>4, <2>0, <2>3
      <3> QED BY <2>2, <2>3, <3>1, ConcatEmptySeq
    <2>4. CASE j # q
      <3>0. j < q /\ j + 1 \in Nat /\ j + 1 \in (j + 1)..q /\ j \in i..(q - 1) /\ j \in (i + 1)..(q - 1)
            /\ j + 1 \in (i + 1)..(q + 1) /\ j \in 0..Len(l) /\ (j + 1) - 1 = j
        BY <1>0, <2>0, <2>4
      <3>1. a[j - 1].mode = "quoted" /\ a[j - 1].quote = l[i]
        BY <1>3, <2>0, <2>1
      <3>2. a[j] = Step(a[j - 1], l[j]) /\ l[j] \in Char /\ l[j] # l[i]
        BY <1>0, <1>1, <2>0, <2>1, <3>0
      <3>3. e[j + 1] <=> l[j] = Backslash
        BY <1>2, <2>0, <2>1
      <3>4. CASE l[j] # Backslash
        <4>1. a[j] = [a[j - 1] EXCEPT !.text = Append(a[j - 1].text, l[j])]
          BY <2>2, <3>1, <3>2, <3>4, StepFacts
        <4>2. a[j].text = Append(a[j - 1].text, l[j])
          BY <2>2, <4>1 DEF States
        <4>3. a[q - 1].text = a[j].text \o r[j + 1].text
          <5>1. j + 1 \in T
            BY <1>6, <3>0
          <5> QED BY <3>0, <3>3, <3>4, <5>1
        <4>4. r[j].text = <<l[j]>> \o r[j + 1].text /\ r[j + 1].text \in Seq(Char)
          BY <1>4, <2>0, <3>0, <3>4
        <4>5. Append(a[j - 1].text, l[j]) \o r[j + 1].text
                = a[j - 1].text \o (<<l[j]>> \o r[j + 1].text)
          BY <2>2, <3>2, <4>4, GatherFacts
        <4> QED BY <4>2, <4>3, <4>4, <4>5
      <3>5. CASE l[j] = Backslash
        <4>0. e[j + 1] /\ j + 1 # q
          BY <1>0, <3>3, <3>5
        <4>1. /\ j + 1 < q /\ j + 2 \in (j + 1)..q /\ j + 1 \in i..(q - 1) /\ j + 1 \in 1..Len(l)
              /\ j + 1 \in i..Len(l) /\ (j + 2) - 1 = j + 1 /\ (j + 1) + 1 = j + 2
              /\ j + 2 \in (i + 1)..(q + 1) /\ j + 2 \in Nat
          <5>1. i \in Nat /\ j \in Nat /\ q \in Nat /\ Len(l) \in Nat
            BY <1>0, <2>0
          <5>2. i + 1 <= j /\ j < q /\ q <= Len(l) /\ 1 <= i
            BY <1>0, <2>0, <3>0
          <5>3. j + 1 < q
            BY <4>0, <5>1, <5>2
          <5> QED BY <5>1, <5>2, <5>3
        <4>2. a[j] = [a[j - 1] EXCEPT !.mode = "escaped"]
          BY <2>2, <3>1, <3>2, <3>5, StepFacts
        <4>3. a[j].text = a[j - 1].text /\ a[j].mode = "escaped" /\ a[j] \in States
          BY <1>1, <2>2, <3>0, <4>2 DEF States
        <4>4. a[j + 1] = Step(a[j], l[j + 1]) /\ l[j + 1] \in Char
          BY <1>1, <3>0, <4>1
        <4>5. a[j + 1] = [a[j] EXCEPT !.mode = "quoted", !.text = Append(a[j].text, Meaning(l[j + 1]))]
          BY <4>3, <4>4, StepFacts
        <4>6. a[j + 1].text = Append(a[j - 1].text, Meaning(l[j + 1]))
          BY <4>3, <4>5 DEF States
        <4>7. ~e[j + 2]
          BY <1>2, <4>0, <4>1
        <4>8. a[q - 1].text = a[j + 1].text \o r[j + 2].text
          <5>1. j + 2 \in T
            BY <1>6, <4>1
          <5> QED BY <4>1, <4>7, <5>1
        <4>9. r[j].text = <<Meaning(l[j + 1])>> \o r[j + 2].text /\ r[j + 2].text \in Seq(Char)
          BY <1>4, <2>0, <3>0, <3>5, <4>1
        <4>10. Meaning(l[j + 1]) \in Char
          BY <1>5, <4>4
        <4> DEFINE m == Meaning(l[j + 1])
        <4>11. m \in Char
          BY <4>10
        <4>12. a[j + 1].text = Append(a[j - 1].text, m) /\ r[j].text = <<m>> \o r[j + 2].text
          BY <4>6, <4>9
        <4> HIDE DEF m
        <4>13. Append(a[j - 1].text, m) \o r[j + 2].text
                 = a[j - 1].text \o (<<m>> \o r[j + 2].text)
          BY <2>2, <4>9, <4>11, GatherFacts
        <4> QED BY <4>8, <4>12, <4>13
      <3> QED BY <3>4, <3>5
    <2> QED BY <2>3, <2>4
  <1>7. \A j \in (i + 1)..q : j \in T
    <2>1. i + 1 \in Nat
      BY <1>0
    <2>2. \A j \in (i + 1)..q : (\A k \in (j + 1)..q : k \in T) => j \in T
      <3> HIDE DEF T
      <3> QED BY <1>6
    <2>3. q \in Nat
      BY <1>0
    <2> DEFINE b == i + 1
    <2>4. b \in Nat /\ \A j \in b..q : (\A k \in (j + 1)..q : k \in T) => j \in T
      <3> HIDE DEF T
      <3> QED BY <2>1, <2>2
    <2> HIDE DEF T, b
    <2>5. \A j \in b..q : j \in T
      BY <2>3, <2>4, Downward
    <2> QED BY <2>5 DEF b
  <1>8. a[q - 1].text = r[i + 1].text
    <2>1. ~e[i + 1]
      <3>1. i \in i..Len(l)
        BY <1>0
      <3> QED BY <1>2, <1>5, <3>1
    <2>2. i + 1 \in (i + 1)..q /\ (i + 1) - 1 = i /\ i + 1 \in (i + 1)..(q + 1)
      BY <1>0
    <2>3. a[q - 1].text = a[i].text \o r[i + 1].text
      BY <1>7, <2>1, <2>2
    <2>4. r[i + 1].text \in Seq(Char)
      BY <1>4, <2>2
    <2> QED BY <1>3, <2>3, <2>4, ConcatEmptySeq
  <1>9. /\ q - 1 \in i..(q - 1) /\ (q - 1) + 1 = q /\ q \in 1..Len(l) /\ q - 1 \in 0..Len(l)
    BY <1>0
  <1>10. a[q - 1].mode = "quoted" /\ a[q - 1].quote = l[i] /\ a[q - 1].read = a[i - 1].read
    BY <1>0, <1>3, <1>9
  <1>11. a[q] = Step(a[q - 1], l[q]) /\ a[q - 1] \in States /\ l[q] \in Char
         /\ l[q] = a[q - 1].quote /\ l[q] # Backslash
    BY <1>0, <1>1, <1>5, <1>9, <1>10
  <1> DEFINE t == [kind |-> a[q - 1].mode, text |-> a[q - 1].text]
  <1>12. a[q] = [a[q - 1] EXCEPT !.mode = "blank", !.text = << >>, !.read = Append(a[q - 1].read, t)]
    BY <1>10, <1>11, StepFacts
  <1>13. t = [kind |-> "quoted", text |-> Unescaped(l, i + 1, q).text]
    BY <1>4, <1>8, <1>10
  <1> HIDE DEF t
  <1>14. a[q].mode = "blank" /\ a[q].text = << >> /\ a[q].read = Append(a[q - 1].read, t)
    BY <1>11, <1>12 DEF States
  <1> QED BY <1>10, <1>13, <1>14 DEF a

(* Tokens as the automaton gives them. *)
Token(t) == [kind |-> t.kind, text |-> t.text]
ReadOf(ts) == [k \in 1..Len(ts) |-> [kind |-> ts[k].kind, text |-> ts[k].text]]

(* They are taken one by one. *)
LEMMA ReadOfFacts ==
    ASSUME NEW t \in Found, NEW ts \in Seq(Found)
    PROVE  /\ Token(t) \in Texts /\ ReadOf(ts) \in Seq(Texts) /\ Len(ReadOf(ts)) = Len(ts)
           /\ ReadOf(<<t>> \o ts) = <<Token(t)>> \o ReadOf(ts)
           /\ ReadOf(<< >>) = << >>
  <1>1. \A x \in Found : Token(x) \in Texts
    BY DEF Found, Texts, Token
  <1>2. ASSUME NEW us \in Seq(Found)
        PROVE  /\ ReadOf(us) \in Seq(Texts) /\ Len(ReadOf(us)) = Len(us)
               /\ \A k \in 1..Len(us) : ReadOf(us)[k] = Token(us[k])
    <2>1. Len(us) \in Nat /\ \A k \in 1..Len(us) : us[k] \in Found
      BY LenProperties, ElementOfSeq
    <2>2. ReadOf(us) = [k \in 1..Len(us) |-> Token(us[k])]
      BY DEF ReadOf, Token
    <2>3. \A k \in 1..Len(us) : Token(us[k]) \in Texts
      BY <1>1, <2>1
    <2> QED BY <2>1, <2>2, <2>3
  <1>3. /\ <<t>> \in Seq(Found) /\ Len(<<t>>) = 1 /\ <<t>>[1] = t
        /\ <<Token(t)>> \in Seq(Texts) /\ Len(<<Token(t)>>) = 1 /\ <<Token(t)>>[1] = Token(t)
    <2>1. Token(t) \in Texts
      BY <1>1
    <2> DEFINE x == Token(t)
    <2>2. x \in Texts
      BY <2>1
    <2> HIDE DEF x
    <2>3. <<x>> \in Seq(Texts) /\ Len(<<x>>) = 1 /\ <<x>>[1] = x
      BY <2>2
    <2>4. <<t>> \in Seq(Found) /\ Len(<<t>>) = 1 /\ <<t>>[1] = t
      OBVIOUS
    <2> QED BY <2>3, <2>4 DEF x
  <1> DEFINE us == <<t>> \o ts
             a == <<Token(t)>>
             b == ReadOf(ts)
  <1>4. /\ us \in Seq(Found) /\ Len(us) = 1 + Len(ts)
        /\ \A k \in 1..1 + Len(ts) : us[k] = IF k <= 1 THEN <<t>>[k] ELSE ts[k - 1]
    <2>1. /\ us \in Seq(Found) /\ Len(us) = Len(<<t>>) + Len(ts)
          /\ \A k \in 1..Len(<<t>>) + Len(ts) :
                us[k] = IF k <= Len(<<t>>) THEN <<t>>[k] ELSE ts[k - Len(<<t>>)]
      BY <1>3, ConcatProperties
    <2> HIDE DEF us
    <2> QED BY <1>3, <2>1
  <1>5. a \in Seq(Texts) /\ Len(a) = 1 /\ a[1] = Token(t)
    BY <1>3
  <1>6. b \in Seq(Texts) /\ Len(b) = Len(ts) /\ \A k \in 1..Len(ts) : b[k] = Token(ts[k])
    BY <1>2
  <1> HIDE DEF a, b
  <1>7. /\ a \o b \in Seq(Texts) /\ Len(a \o b) = 1 + Len(ts)
        /\ \A k \in 1..1 + Len(ts) : (a \o b)[k] = IF k <= 1 THEN a[k] ELSE b[k - 1]
    <2>1. /\ a \o b \in Seq(Texts) /\ Len(a \o b) = Len(a) + Len(b)
          /\ \A k \in 1..Len(a) + Len(b) : (a \o b)[k] = IF k <= Len(a) THEN a[k] ELSE b[k - Len(a)]
      <3>1. a \in Seq(Texts) /\ b \in Seq(Texts)
        BY <1>5, <1>6
      <3> QED BY <3>1, ConcatProperties
    <2> QED BY <1>5, <1>6, <2>1
  <1> HIDE DEF us
  <1>8. /\ ReadOf(us) \in Seq(Texts) /\ Len(ReadOf(us)) = 1 + Len(ts)
        /\ \A k \in 1..1 + Len(ts) : ReadOf(us)[k] = Token(us[k])
    BY <1>2, <1>4
  <1>9. Len(ts) \in Nat
    BY LenProperties
  <1>10. \A k \in 1..1 + Len(ts) : ReadOf(us)[k] = (a \o b)[k]
    <2>1. SUFFICES ASSUME NEW k \in 1..1 + Len(ts) PROVE ReadOf(us)[k] = (a \o b)[k]
      OBVIOUS
    <2>2. CASE k = 1
      BY <1>3, <1>4, <1>5, <1>7, <1>8, <1>9, <2>2
    <2>3. CASE k # 1
      <3>1. ~ (k <= 1) /\ k - 1 \in 1..Len(ts)
        BY <1>9, <2>3
      <3>2. us[k] = ts[k - 1] /\ (a \o b)[k] = b[k - 1]
        BY <1>4, <1>7, <3>1
      <3> QED BY <1>6, <1>8, <3>1, <3>2
    <2> QED BY <2>2, <2>3
  <1>11. ReadOf(us) = a \o b
    BY <1>7, <1>8, <1>10, SeqEqual
  <1>12. ReadOf(<< >>) = << >>
    <2>1. << >> \in Seq(Found) /\ Len(<< >>) = 0
      BY EmptySeq
    <2>2. ReadOf(<< >>) \in Seq(Texts) /\ Len(ReadOf(<< >>)) = 0
      BY <1>2, <2>1
    <2> QED BY <2>2, EmptySeq
  <1> QED BY <1>1, <1>6, <1>11, <1>12 DEF us, a, b

(* Starting at a blank before a token finds the same token. *)
LEMMA TakeFrom ==
    ASSUME NEW l \in Seq(Char), NEW p \in 1..(Len(l) + 1), NEW r \in p..SkipWspc(l, p)
    PROVE  /\ r \in 1..(Len(l) + 1) /\ NextToken(l, r) = NextToken(l, p)
           /\ Taker(l)[r] = Taker(l)[p]
  <1>1. r \in 1..(Len(l) + 1) /\ SkipWspc(l, r) = SkipWspc(l, p)
    BY SkipFrom
  <1>2. NextToken(l, r) = NextToken(l, p)
    BY <1>1, Zenon DEF NextToken
  <1>3. /\ NextToken(l, p).kind = "end" => Taker(l)[p] = << >>
        /\ NextToken(l, p).kind # "end" =>
             Taker(l)[p] = <<NextToken(l, p)>> \o Taker(l)[NextToken(l, p).next]
    BY TakerFacts
  <1>4. /\ NextToken(l, r).kind = "end" => Taker(l)[r] = << >>
        /\ NextToken(l, r).kind # "end" =>
             Taker(l)[r] = <<NextToken(l, r)>> \o Taker(l)[NextToken(l, r).next]
    BY <1>1, TakerFacts
  <1>5. Taker(l)[r] = Taker(l)[p]
    BY <1>2, <1>3, <1>4
  <1> QED BY <1>1, <1>2, <1>5

(* From a place between tokens on, the automaton reads what is taken.      *)
LEMMA ReadFrom ==
    ASSUME NEW l \in Seq(Char), NEW p \in 1..(Len(l) + 1),
           Run(l)[p - 1].mode = "blank", Run(l)[p - 1].text = << >>
    PROVE  Final(Run(l)[Len(l)]) = Run(l)[p - 1].read \o ReadOf(Taker(l)[p])
  <1> DEFINE a == Run(l)
             g == Taker(l)
             f == Final(a[Len(l)])
             T == {x \in Nat : a[x - 1].mode = "blank" /\ a[x - 1].text = << >>
                                 => f = a[x - 1].read \o ReadOf(g[x])}
  <1>0. Len(l) \in Nat
    BY LineFacts
  <1>1. \A n \in 0..Len(l) : a[n] \in States
    BY RunFacts
  <1>2. \A x \in 1..(Len(l) + 1) : g[x] \in Seq(Found)
    BY TakerFacts
  <1>3. ASSUME NEW x \in 1..(Len(l) + 1), \A k \in (x + 1)..(Len(l) + 1) : k \in T
        PROVE  x \in T
    <2>0. SUFFICES ASSUME a[x - 1].mode = "blank", a[x - 1].text = << >>
                   PROVE  f = a[x - 1].read \o ReadOf(g[x])
      <3>1. x \in Nat
        BY <1>0
      <3> QED BY <3>1
    <2> DEFINE i == SkipWspc(l, x)
               t == NextToken(l, x)
               rd == a[x - 1].read
    <2>1. i \in x..(Len(l) + 1) /\ (i <= Len(l) => l[i] \notin Blank)
      BY SkipFacts
    <2>2. a[i - 1] = a[x - 1]
      BY <2>0, BlankRun
    <2>3. x - 1 \in 0..Len(l) /\ i \in Nat /\ x \in Nat /\ x <= i /\ i <= Len(l) + 1
      BY <1>0, <2>1
    <2>4. rd \in Seq(Texts) /\ a[x - 1] \in States
      BY <1>1, <2>3 DEF States
    <2>5. /\ t \in Found /\ t.next \in 1..(Len(l) + 1) /\ g[t.next] \in Seq(Found)
          /\ t.kind = "end" => g[x] = << >>
          /\ t.kind # "end" => g[x] = <<t>> \o g[t.next]
      BY <1>2, NextTokenFacts, TakerFacts
    <2>6. ReadOf(<< >>) = << >> /\ Token(t) \in Texts /\ ReadOf(g[t.next]) \in Seq(Texts)
          /\ ReadOf(<<t>> \o g[t.next]) = <<Token(t)>> \o ReadOf(g[t.next])
      BY <2>5, ReadOfFacts
    <2>7. t.kind # "end" => rd \o ReadOf(g[x]) = Append(rd, Token(t)) \o ReadOf(g[t.next])
      <3>1. SUFFICES ASSUME t.kind # "end"
                     PROVE  rd \o ReadOf(g[x]) = Append(rd, Token(t)) \o ReadOf(g[t.next])
        OBVIOUS
      <3>2. ReadOf(g[x]) = <<Token(t)>> \o ReadOf(g[t.next])
        BY <2>5, <2>6, <3>1
      <3> DEFINE o == Token(t)
                 z == ReadOf(g[t.next])
      <3>3. o \in Texts /\ z \in Seq(Texts) /\ ReadOf(g[x]) = <<o>> \o z
        BY <2>6, <3>2
      <3> HIDE DEF o, z, rd
      <3>4. Append(rd, o) = rd \o <<o>> /\ <<o>> \in Seq(Texts)
        BY <2>4, <3>3, AppendIsConcat
      <3>5. (rd \o <<o>>) \o z = rd \o (<<o>> \o z)
        BY <2>4, <3>3, <3>4, ConcatAssociative
      <3>6. rd \o ReadOf(g[x]) = Append(rd, o) \o z
        BY <3>3, <3>4, <3>5
      <3> QED BY <3>6 DEF o, z
    <2>a. Append(rd, Token(t)) \in Seq(Texts)
      <3> HIDE DEF rd, t
      <3> QED BY <2>4, <2>6, AppendProperties
    <2>b. g[Len(l) + 1] = << >>
      <3>1. Len(l) + 1 \in 1..(Len(l) + 1)
        BY <1>0
      <3>2. SkipWspc(l, Len(l) + 1) \in (Len(l) + 1)..(Len(l) + 1)
        BY <3>1, SkipFacts
      <3>3. SkipWspc(l, Len(l) + 1) > Len(l)
        BY <1>0, <3>2
      <3>4. NextToken(l, Len(l) + 1).kind = "end"
        BY <3>1, <3>3, NextTokenFacts
      <3> QED BY <3>1, <3>4, TakerFacts
    <2>c. Append(rd, Token(t)) \o ReadOf(<< >>) = Append(rd, Token(t))
      BY <2>6, <2>a, ConcatEmptySeq
    <2>8. CASE i > Len(l)
      <3>1. t.kind = "end" /\ i = Len(l) + 1
        BY <1>0, <2>3, <2>8, NextTokenFacts
      <3>2. a[Len(l)] = a[x - 1]
        <4>1. i - 1 = Len(l)
          BY <1>0, <3>1
        <4> QED BY <2>2, <4>1
      <3>3. f = rd
        BY <2>0, <3>2 DEF Final
      <3> QED BY <2>4, <2>5, <2>6, <3>1, <3>3, ConcatEmptySeq
    <2>9. CASE i <= Len(l) /\ l[i] \notin Quotes
      <3> DEFINE w == PlainEnd(l, i)
      <3>1. i \in 1..Len(l) /\ l[i] \notin Blank /\ l[i] \notin Quotes /\ a[i - 1].mode = "blank"
        BY <1>0, <2>0, <2>1, <2>2, <2>3, <2>9
      <3>2. /\ w \in (i + 1)..(Len(l) + 1)
            /\ a[w - 1].mode = "plain" /\ a[w - 1].text = SubSeq(l, i, w - 1)
            /\ a[w - 1].read = rd
            /\ w <= Len(l) =>
                 /\ l[w] \in Blank /\ a[w].mode = "blank" /\ a[w].text = << >>
                 /\ a[w].read = Append(rd, [kind |-> "plain", text |-> SubSeq(l, i, w - 1)])
        <4>1. w = PlainEnd(l, i) /\ a[i - 1].read = rd
          BY <2>2
        <4>0. w \in Nat
          <5>1. w \in (i + 1)..(Len(l) + 1) /\ i + 1 \in Nat
            BY <2>3, <3>1, PlainEndFacts
          <5> HIDE DEF w, i
          <5> QED BY <1>0, <5>1
        <4> HIDE DEF w, i, rd
        <4>2. /\ w \in (i + 1)..(Len(l) + 1)
              /\ a[w - 1].mode = "plain" /\ a[w - 1].text = SubSeq(l, i, w - 1)
              /\ a[w - 1].read = a[i - 1].read
              /\ w <= Len(l) =>
                   /\ l[w] \in Blank /\ a[w].mode = "blank" /\ a[w].text = << >>
                   /\ a[w].read = Append(a[i - 1].read,
                                         [kind |-> "plain", text |-> SubSeq(l, i, w - 1)])
          <5>1. l[i] \notin Blank /\ l[i] \notin Quotes /\ Run(l)[i - 1].mode = "blank" /\ w = PlainEnd(l, i)
            BY <3>1, <4>1
          <5>2. i \in 1..Len(l)
            BY <3>1
          <5>3. PlainRead(l, i, w)
            BY <4>0, <5>1, <5>2, PlainRun
          <5> QED BY <5>3 DEF PlainRead
        <4> QED BY <4>1, <4>2
      <3>3. t = [kind |-> "plain", text |-> SubSeq(l, i, w - 1), from |-> i, next |-> w]
        BY <2>9, NextTokenCases
      <3> HIDE DEF w, t, i
      <3>4. /\ Token(t) = [kind |-> "plain", text |-> SubSeq(l, i, w - 1)]
            /\ t.kind = "plain" /\ t.next = w
        BY <3>3 DEF Token
      <3>5. CASE w <= Len(l)
        <4>1. w + 1 \in (x + 1)..(Len(l) + 1) /\ (w + 1) - 1 = w /\ w \in 1..(Len(l) + 1)
          BY <1>0, <2>3, <3>2, <3>5
        <4>2. w + 1 \in T
          BY <1>3, <4>1
        <4>3. f = a[w].read \o ReadOf(g[w + 1])
          BY <3>2, <3>5, <4>1, <4>2
        <4>4. g[w + 1] = g[w]
          <5>1. SkipWspc(l, w) \in w..(Len(l) + 1)
                /\ (SkipWspc(l, w) <= Len(l) => l[SkipWspc(l, w)] \notin Blank)
            BY <4>1, SkipFacts
          <5>2. SkipWspc(l, w) # w
            BY <3>2, <3>5, <5>1
          <5>3. w + 1 \in w..SkipWspc(l, w)
            BY <1>0, <4>1, <5>1, <5>2
          <5> QED BY <4>1, <5>3, TakeFrom
        <4>5. f = Append(rd, Token(t)) \o ReadOf(g[w])
          BY <3>2, <3>4, <3>5, <4>3, <4>4
        <4> QED BY <2>7, <3>4, <4>5
      <3>6. CASE w > Len(l)
        <4>1. w = Len(l) + 1 /\ w - 1 = Len(l)
          BY <1>0, <3>2, <3>6
        <4>2. f = Append(rd, Token(t))
          BY <3>2, <3>4, <4>1 DEF Final
        <4>3. g[t.next] = << >>
          BY <2>b, <3>4, <4>1
        <4> QED BY <2>7, <2>c, <3>4, <4>2, <4>3
      <3>7. w <= Len(l) \/ w > Len(l)
        BY <1>0, <3>2
      <3> QED BY <3>5, <3>6, <3>7
    <2>10. CASE i <= Len(l) /\ l[i] \in Quotes
      <3> DEFINE q == QuotedEnd(l, i)
      <3>1. i \in 1..Len(l) /\ l[i] \in Quotes /\ a[i - 1].mode = "blank" /\ a[i - 1].text = << >>
        BY <1>0, <2>0, <2>2, <2>3, <2>10
      <3>2. q \in (i + 1)..(Len(l) + 1)
        BY <3>1, QuotedEndFacts
      <3>3. CASE q <= Len(l)
        <4>1. /\ a[q].mode = "blank" /\ a[q].text = << >>
              /\ a[q].read = Append(rd, [kind |-> "quoted", text |-> Unescaped(l, i + 1, q).text])
          BY <2>2, <3>1, <3>3, QuotedText
        <4>2. t = [kind |-> "quoted", text |-> Unescaped(l, i + 1, q).text, from |-> i, next |-> q + 1]
          BY <2>10, <3>3, NextTokenCases
        <4> HIDE DEF q, t, i
        <4>3. /\ Token(t) = [kind |-> "quoted", text |-> Unescaped(l, i + 1, q).text]
              /\ t.kind = "quoted" /\ t.next = q + 1
          BY <4>2 DEF Token
        <4>4. q + 1 \in (x + 1)..(Len(l) + 1) /\ (q + 1) - 1 = q
          BY <1>0, <2>3, <3>2, <3>3
        <4>5. q + 1 \in T
          BY <1>3, <4>4
        <4>6. f = a[q].read \o ReadOf(g[q + 1])
          BY <4>1, <4>4, <4>5
        <4> QED BY <2>7, <4>1, <4>3, <4>6
      <3>4. CASE q > Len(l)
        <4>1. q = Len(l) + 1 /\ Len(l) \in i..(q - 1)
          BY <1>0, <2>3, <2>10, <3>2, <3>4
        <4>2. /\ a[Len(l)].mode \in {"escaped", "quoted"} /\ a[Len(l)].read = rd
          <5>1. q = QuotedEnd(l, i) /\ a[i - 1].read = rd
            BY <2>2
          <5> HIDE DEF q, i, rd
          <5>2. \A n \in i..(q - 1) :
                  /\ a[n].mode = IF Escaping(l, i)[n + 1] THEN "escaped" ELSE "quoted"
                  /\ a[n].quote = l[i] /\ a[n].read = a[i - 1].read
            BY <3>1, <5>1, QuotedRun
          <5> QED BY <4>1, <5>1, <5>2
        <4>3. t = [kind |-> "open", text |-> << >>, from |-> i, next |-> q]
          BY <2>10, <3>4, NextTokenCases
        <4> HIDE DEF q, t, i
        <4>4. Token(t) = [kind |-> "open", text |-> << >>] /\ t.kind = "open" /\ t.next = q
          BY <4>3 DEF Token
        <4>5. f = Append(rd, Token(t))
          BY <4>2, <4>4 DEF Final
        <4>6. g[t.next] = << >>
          BY <2>b, <4>1, <4>4
        <4> QED BY <2>7, <2>c, <4>4, <4>5, <4>6
      <3>5. q <= Len(l) \/ q > Len(l)
        BY <1>0, <3>2
      <3> QED BY <3>3, <3>4, <3>5
    <2>11. i > Len(l) \/ i <= Len(l)
      <3> HIDE DEF i
      <3> QED BY <1>0, <2>3
    <2> HIDE DEF i, f, g, a
    <2> QED BY <2>8, <2>9, <2>10, <2>11
  <1>4. \A x \in 1..(Len(l) + 1) : x \in T
    <2> DEFINE n == Len(l) + 1
    <2>1. n \in Nat /\ 1 \in Nat
      BY <1>0
    <2>2. \A x \in 1..n : (\A k \in (x + 1)..n : k \in T) => x \in T
      <3> HIDE DEF T
      <3> QED BY <1>3
    <2> HIDE DEF n, T
    <2>3. \A x \in 1..n : x \in T
      BY <2>1, <2>2, Downward
    <2> QED BY <2>3 DEF n
  <1>5. p \in T
    BY <1>4
  <1> QED BY <1>5

(* So the two loops over a quoted token agree with one pass over the line. *)
LEMMA ReadIsAutomaton ==
    ASSUME NEW l \in Seq(Char)
    PROVE  Read(l) = Automaton(l) /\ Read(l) = ReadOf(Taker(l)[1])
  <1>0. Len(l) \in Nat /\ 1 \in 1..(Len(l) + 1) /\ 1 - 1 = 0
    BY LineFacts
  <1>1. Read(l) = ReadOf(Taker(l)[1])
    <2>1. Tokens(l) = Taker(l)[1]
      BY TakerFacts
    <2> QED BY <2>1, Zenon DEF Read, ReadOf
  <1>2. Run(l)[0].mode = "blank" /\ Run(l)[0].text = << >> /\ Run(l)[0].read = << >>
    <2>1. Run(l)[0] = Start
      BY RunFacts
    <2> QED BY <2>1 DEF Start
  <1>3. Final(Run(l)[Len(l)]) = Run(l)[0].read \o ReadOf(Taker(l)[1])
    <2> DEFINE p == 1
    <2>1. p \in 1..(Len(l) + 1) /\ p - 1 = 0 /\ p = 1
      BY <1>0
    <2> HIDE DEF p
    <2>2. Run(l)[p - 1].mode = "blank" /\ Run(l)[p - 1].text = << >>
      BY <1>2, <2>1
    <2>3. Final(Run(l)[Len(l)]) = Run(l)[p - 1].read \o ReadOf(Taker(l)[p])
      BY <2>1, <2>2, ReadFrom
    <2> QED BY <2>1, <2>3
  <1>4. ReadOf(Taker(l)[1]) \in Seq(Texts)
    <2>1. Taker(l)[1] \in Seq(Found)
      BY <1>0, TakerFacts
    <2>2. NextToken(l, 1) \in Found
      BY <1>0, NextTokenFacts
    <2> QED BY <2>1, <2>2, ReadOfFacts
  <1>5. << >> \o ReadOf(Taker(l)[1]) = ReadOf(Taker(l)[1])
    BY <1>4, ConcatEmptySeq
  <1>6. Automaton(l) = Final(Run(l)[Len(l)])
    BY RunFacts
  <1> QED BY <1>1, <1>2, <1>3, <1>5, <1>6

(* The function that writes a text between quotes.                         *)
Part(q, c) == IF c \in {q, Backslash} THEN <<Backslash, c>> ELSE <<c>>
IsWriting(f, q, l) == f = [n \in 0..Len(l) |-> IF n = 0 THEN << >> ELSE f[n - 1] \o Part(q, l[n])]
Writer(q, l) == CHOOSE f : IsWriting(f, q, l)

(* There is one. *)
LEMMA WriterFacts ==
    ASSUME NEW l \in Seq(Char), NEW q \in Char
    PROVE  /\ Escaped(q, l) = <<q>> \o Writer(q, l)[Len(l)] \o <<q>>
           /\ \A n \in 0..Len(l) : Writer(q, l)[n] \in Seq(Char)
           /\ Writer(q, l)[0] = << >>
           /\ \A n \in 1..Len(l) : /\ Part(q, l[n]) \in Seq(Char)
                                   /\ Writer(q, l)[n] = Writer(q, l)[n - 1] \o Part(q, l[n])
  <1> DEFINE D == 0..Len(l)
             S == Seq(Char)
             B == {0}
             mu == [n \in D |-> n]
             succ == [n \in D \ B |-> n - 1]
             base == [n \in B |-> << >>]
             step == [x \in (D \ B) \X S |-> x[2] \o Part(q, l[x[1]])]
             N == Len(l)
  <1>0. Len(l) \in Nat /\ \A n \in 1..Len(l) : l[n] \in Char
    BY LineFacts
  <1>1. << >> \in S
    BY EmptySeq
  <1>a. \A n \in 1..Len(l) : Part(q, l[n]) \in Seq(Char)
    <2>1. \A c \in Char : Part(q, c) \in Seq(Char)
      BY CharFacts DEF Part
    <2> QED BY <1>0, <2>1
  <1>2. \A n \in D \ B, s \in S : s \o Part(q, l[n]) \in S
    <2>1. SUFFICES ASSUME NEW n \in D \ B, NEW s \in S PROVE s \o Part(q, l[n]) \in S
      OBVIOUS
    <2>2. Part(q, l[n]) \in Seq(Char)
      BY <1>0, <1>a
    <2> QED BY <2>2, ConcatProperties
  <1>3. Recursion(N, D, S, B, mu, succ, base, step)
    <2>1. N \in Nat /\ B \in SUBSET D
      BY <1>0
    <2>2. mu \in [D -> 0..N]
      BY <1>0
    <2>3. succ \in [D \ B -> D]
      BY <1>0
    <2>4. base \in [B -> S]
      BY <1>1
    <2>5. step \in [(D \ B) \X S -> S]
      <3> HIDE DEF D, B, S
      <3> QED BY <1>2
    <2>6. \A j \in D \ B : mu[succ[j]] < mu[j]
      BY <1>0
    <2> HIDE DEF mu, succ, base, step, N, D, B, S
    <2> QED BY <2>1, <2>2, <2>3, <2>4, <2>5, <2>6 DEF Recursion
  <1>4. PICK f \in [D -> S] :
           \A n \in D : f[n] = IF n = 0 THEN << >> ELSE f[n - 1] \o Part(q, l[n])
    <2>1. \A j \in D \ B : succ[j] = j - 1 /\ j - 1 \in D
      BY <1>0
    <2>2. \A j \in D \ B, x \in S : step[<<j, x>>] = x \o Part(q, l[j])
      <3> HIDE DEF D, B, S
      <3> QED OBVIOUS
    <2>3. \A j \in B : base[j] = << >>
      OBVIOUS
    <2>4. \A j : j \in B <=> j = 0
      OBVIOUS
    <2> HIDE DEF mu, succ, base, step, N, D, B, S
    <2>5. PICK f \in [D -> S] :
             \A j \in D : f[j] = IF j \in B THEN base[j] ELSE step[<<j, f[succ[j]]>>]
      BY <1>3, RecursionExists
    <2>6. ASSUME NEW j \in D PROVE f[j] = IF j = 0 THEN << >> ELSE f[j - 1] \o Part(q, l[j])
      <3>1. CASE j \in B
        BY <2>3, <2>4, <2>5, <3>1
      <3>2. CASE j \notin B
        <4>1. j \in D \ B /\ f[j] = step[<<j, f[j - 1]>>]
          BY <2>1, <2>5, <3>2
        <4>2. f[j - 1] \in S
          BY <2>1, <4>1
        <4> QED BY <2>2, <2>4, <3>2, <4>1, <4>2
      <3> QED BY <3>1, <3>2
    <2> QED BY <2>6
  <1>5. IsWriting(f, q, l)
    <2>1. f = [n \in D |-> f[n]]
      OBVIOUS
    <2> QED BY <1>4, <2>1, Zenon DEF IsWriting
  <1> DEFINE g == Writer(q, l)
  <1>6. IsWriting(g, q, l)
    BY <1>5 DEF Writer
  <1>7. Escaped(q, l) = <<q>> \o g[Len(l)] \o <<q>>
    BY DEF Escaped, Writer, IsWriting, Part
  <1> HIDE DEF g
  <1>8. \A n \in D : g[n] = IF n = 0 THEN << >> ELSE g[n - 1] \o Part(q, l[n])
    BY <1>6, Zenon DEF IsWriting
  <1>9. g[0] = << >>
    BY <1>0, <1>8
  <1>10. \A n \in 1..Len(l) : g[n] = g[n - 1] \o Part(q, l[n])
    <2>1. \A n \in 1..Len(l) : n \in D /\ n # 0
      BY <1>0
    <2> QED BY <1>8, <2>1
  <1>11. \A n \in D : g[n] \in S
    <2> DEFINE T == {n \in D : g[n] \in S}
    <2>1. 0 \in T
      <3>1. g[0] \in S
        BY <1>1, <1>9
      <3>2. 0 \in D
        BY <1>0
      <3> HIDE DEF D, S
      <3> QED BY <3>1, <3>2
    <2>2. \A n \in 0..(Len(l) - 1) : n \in T => n + 1 \in T
      <3>1. SUFFICES ASSUME NEW n \in 0..(Len(l) - 1), n \in T PROVE n + 1 \in T
        OBVIOUS
      <3>2. n + 1 \in 1..Len(l) /\ (n + 1) - 1 = n /\ n + 1 \in D \ B
        BY <1>0
      <3>3. g[n + 1] = g[n] \o Part(q, l[n + 1]) /\ g[n] \in S
        BY <1>10, <3>1, <3>2
      <3>4. g[n + 1] \in S
        <4> HIDE DEF S, D, B
        <4> QED BY <1>2, <3>2, <3>3
      <3> QED BY <3>2, <3>4
    <2> HIDE DEF T
    <2>3. \A n \in 0..Len(l) : n \in T
      BY <1>0, <2>1, <2>2, Upward
    <2> QED BY <2>3 DEF T
  <1> QED BY <1>7, <1>9, <1>10, <1>11, <1>a DEF g

(* What is written so is read as it was.                                   *)
LEMMA WrittenRead ==
    ASSUME NEW l \in Seq(Char), NEW q \in Quotes
    PROVE  /\ Escaped(q, l) \in Seq(Char) /\ Len(Escaped(q, l)) \in Nat /\ Len(Escaped(q, l)) >= 2
           /\ Escaped(q, l)[1] = q
           /\ Automaton(Escaped(q, l)) = <<[kind |-> "quoted", text |-> l]>>
  <1> DEFINE L == Escaped(q, l)
             N == Len(l)
             w == Writer(q, l)
             W == w[N]
             d(n) == Len(w[n])
  <1>c. /\ q \in Char /\ q # Backslash /\ q \notin Blank /\ Meaning(q) = q
        /\ Meaning(Backslash) = Backslash /\ Backslash \in Char
    BY CharFacts DEF Meaning
  <1>0. N \in Nat /\ \A n \in 1..N : l[n] \in Char
    BY LineFacts
  <1>1. /\ L = (<<q>> \o W) \o <<q>>
        /\ \A n \in 0..N : w[n] \in Seq(Char)
        /\ w[0] = << >>
        /\ \A n \in 1..N : Part(q, l[n]) \in Seq(Char) /\ w[n] = w[n - 1] \o Part(q, l[n])
    BY <1>c, WriterFacts
  <1> HIDE DEF w, L
  <1>a. W \in Seq(Char) /\ \A n \in 0..N : d(n) \in Nat
    <2>1. W \in Seq(Char)
      BY <1>0, <1>1
    <2>2. \A n \in 0..N : d(n) \in Nat
      BY <1>1, LineFacts
    <2> QED BY <2>1, <2>2
  <1>2. /\ L \in Seq(Char) /\ Len(L) = Len(W) + 2 /\ L[1] = q /\ L[Len(W) + 2] = q
        /\ \A k \in 1..Len(W) : L[k + 1] = W[k]
    <2> HIDE DEF W
    <2>1. <<q>> \in Seq(Char) /\ Len(<<q>>) = 1 /\ <<q>>[1] = q /\ Len(W) \in Nat
      BY <1>a, <1>c, LineFacts
    <2> DEFINE x == <<q>>
               y == x \o W
    <2>2. x \in Seq(Char) /\ Len(x) = 1 /\ x[1] = q
      BY <2>1
    <2> HIDE DEF x
    <2>3. /\ y \in Seq(Char) /\ Len(y) = Len(x) + Len(W)
          /\ \A i \in 1..Len(x) + Len(W) : y[i] = IF i <= Len(x) THEN x[i] ELSE W[i - Len(x)]
      BY <1>a, <2>2, ConcatProperties
    <2>4. L = y \o x
      BY <1>1 DEF x
    <2> HIDE DEF y
    <2>5. /\ y \o x \in Seq(Char) /\ Len(y \o x) = Len(y) + Len(x)
          /\ \A i \in 1..Len(y) + Len(x) : (y \o x)[i] = IF i <= Len(y) THEN y[i] ELSE x[i - Len(y)]
      <3>1. x \in Seq(Char) /\ y \in Seq(Char)
        BY <2>2, <2>3
      <3> QED BY <3>1, ConcatProperties
    <2>6. Len(y) = Len(W) + 1
      BY <2>1, <2>2, <2>3
    <2>7. L[1] = q
      <3>1. 1 \in 1..Len(y) + Len(x) /\ 1 <= Len(y) /\ 1 \in 1..Len(x) + Len(W) /\ 1 <= Len(x)
        BY <2>1, <2>2, <2>6
      <3> QED BY <2>2, <2>3, <2>4, <2>5, <3>1
    <2>8. L[Len(W) + 2] = q
      <3>1. /\ Len(W) + 2 \in 1..Len(y) + Len(x) /\ ~ (Len(W) + 2 <= Len(y))
            /\ (Len(W) + 2) - Len(y) = 1
        BY <2>1, <2>2, <2>6
      <3> QED BY <2>2, <2>4, <2>5, <3>1
    <2>9. ASSUME NEW k \in 1..Len(W) PROVE L[k + 1] = W[k]
      <3>1. /\ k + 1 \in 1..Len(y) + Len(x) /\ k + 1 <= Len(y)
            /\ k + 1 \in 1..Len(x) + Len(W) /\ ~ (k + 1 <= Len(x)) /\ (k + 1) - Len(x) = k
        BY <2>1, <2>2, <2>6
      <3>2. L[k + 1] = y[k + 1]
        BY <2>4, <2>5, <3>1
      <3>3. y[k + 1] = W[k]
        BY <2>3, <3>1
      <3> QED BY <3>2, <3>3
    <2>10. Len(L) = Len(W) + 2
      BY <2>1, <2>2, <2>4, <2>5, <2>6
    <2> QED BY <2>4, <2>5, <2>7, <2>8, <2>9, <2>10
  <1>3. ASSUME NEW n \in 1..N
        PROVE  /\ d(n) = d(n - 1) + Len(Part(q, l[n]))
               /\ \A k \in 1..d(n - 1) : w[n][k] = w[n - 1][k]
               /\ \A k \in 1..Len(Part(q, l[n])) : w[n][d(n - 1) + k] = Part(q, l[n])[k]
    <2>1. n - 1 \in 0..N
      BY <1>0
    <2> DEFINE x == w[n - 1]
               y == Part(q, l[n])
    <2>2. x \in Seq(Char) /\ y \in Seq(Char) /\ w[n] = x \o y
      BY <1>1, <2>1
    <2> HIDE DEF x, y
    <2>3. /\ Len(x \o y) = Len(x) + Len(y)
          /\ \A i \in 1..Len(x) + Len(y) : (x \o y)[i] = IF i <= Len(x) THEN x[i] ELSE y[i - Len(x)]
      BY <2>2, ConcatProperties
    <2>4. Len(x) \in Nat /\ Len(y) \in Nat
      BY <2>2, LineFacts
    <2>5. \A k \in 1..Len(x) : (x \o y)[k] = x[k]
      BY <2>3, <2>4
    <2>6. ASSUME NEW k \in 1..Len(y) PROVE (x \o y)[Len(x) + k] = y[k]
      <3>1. Len(x) + k \in 1..Len(x) + Len(y) /\ ~ (Len(x) + k <= Len(x)) /\ (Len(x) + k) - Len(x) = k
        BY <2>4
      <3> QED BY <2>3, <3>1
    <2> QED BY <2>2, <2>3, <2>5, <2>6 DEF x, y
  <1>4. \A n \in 0..N : d(n) <= Len(W) /\ \A k \in 1..d(n) : W[k] = w[n][k]
    <2> DEFINE T == {n \in Nat : d(n) <= Len(W) /\ \A k \in 1..d(n) : W[k] = w[n][k]}
    <2>1. ASSUME NEW n \in 0..N, \A k \in (n + 1)..N : k \in T PROVE n \in T
      <3>1. CASE n = N
        BY <1>0, <1>a, <3>1
      <3>2. CASE n # N
        <4>1. n + 1 \in 1..N /\ n + 1 \in (n + 1)..N /\ (n + 1) - 1 = n /\ n \in Nat /\ n + 1 \in 0..N
          BY <1>0, <3>2
        <4>2. n + 1 \in T
          BY <2>1, <4>1
        <4>3. /\ d(n + 1) = d(n) + Len(Part(q, l[n + 1]))
              /\ \A k \in 1..d(n) : w[n + 1][k] = w[n][k]
          BY <1>3, <4>1
        <4>4. Len(Part(q, l[n + 1])) \in Nat
          BY <1>1, <4>1, LineFacts
        <4>5. d(n) \in Nat /\ d(n + 1) \in Nat /\ Len(W) \in Nat
          BY <1>0, <1>a, <4>1
        <4>6. d(n) <= d(n + 1)
          <5> DEFINE x == d(n)
                     y == d(n + 1)
                     z == Len(Part(q, l[n + 1]))
          <5>1. x \in Nat /\ y \in Nat /\ z \in Nat /\ y = x + z
            BY <4>3, <4>4, <4>5
          <5> HIDE DEF x, y, z
          <5>2. x <= y
            BY <5>1
          <5> QED BY <5>2 DEF x, y
        <4>7. d(n + 1) <= Len(W) /\ \A k \in 1..d(n + 1) : W[k] = w[n + 1][k]
          BY <4>2
        <4>8. d(n) <= Len(W) /\ \A k \in 1..d(n) : k \in 1..d(n + 1)
          BY <4>5, <4>6, <4>7
        <4>9. \A k \in 1..d(n) : W[k] = w[n][k]
          BY <4>3, <4>7, <4>8
        <4> QED BY <4>1, <4>8, <4>9
      <3> QED BY <3>1, <3>2
    <2>2. \A n \in 0..N : (\A k \in (n + 1)..N : k \in T) => n \in T
      <3> HIDE DEF T, N
      <3> QED BY <2>1
    <2>3. \A n \in 0..N : n \in T
      <3> HIDE DEF T, N
      <3> QED BY <1>0, <2>2, Downward
    <2> QED BY <2>3
  <1> HIDE DEF N, W, d
  <1> DEFINE a == Run(L)
             st(n) == [mode |-> "quoted", quote |-> q, text |-> First(l, n), read |-> << >>]
             T == {n \in Nat : a[d(n) + 1] = st(n)}
  <1>5. /\ a[0] = Start /\ \A n \in 0..Len(L) : a[n] \in States
        /\ \A n \in 1..Len(L) : a[n] = Step(a[n - 1], L[n])
        /\ Automaton(L) = Final(a[Len(L)])
    BY <1>2, RunFacts
  <1>b. Len(W) \in Nat
    BY <1>a, LineFacts
  <1> HIDE DEF a
  <1>6. 0 \in T
    <2>1. d(0) = 0
      BY <1>1, EmptySeq DEF d
    <2>2. First(l, 0) = << >>
      BY SubSeqEmpty DEF First
    <2>3. 1 \in 1..Len(L) /\ 1 - 1 = 0 /\ 0 \in 0..Len(L)
      BY <1>2, <1>b
    <2>4. a[1] = Step(Start, q) /\ Start \in States
      BY <1>2, <1>5, <2>3
    <2>5. Start.mode = "blank"
      BY DEF Start
    <2>6. a[1] = [Start EXCEPT !.mode = "quoted", !.quote = q]
      BY <1>c, <2>4, <2>5, StepFacts
    <2>7. a[1] = st(0)
      BY <2>2, <2>6 DEF Start
    <2> QED BY <2>1, <2>7
  <1>7. ASSUME NEW n \in 0..(N - 1), n \in T PROVE n + 1 \in T
    <2> DEFINE c == l[n + 1]
               e == d(n)
    <2>1. n + 1 \in 1..N /\ (n + 1) - 1 = n /\ n \in 0..N /\ n + 1 \in 0..N /\ n \in Nat
      BY <1>0
    <2>2. c \in Char /\ e \in Nat /\ a[e + 1] = st(n)
      BY <1>0, <1>7, <1>a, <2>1
    <2>3. /\ d(n + 1) = e + Len(Part(q, c))
          /\ \A k \in 1..Len(Part(q, c)) : w[n + 1][e + k] = Part(q, c)[k]
      BY <1>3, <2>1
    <2>4. d(n + 1) <= Len(W) /\ \A k \in 1..d(n + 1) : W[k] = w[n + 1][k]
      BY <1>4, <2>1
    <2>5. First(l, n + 1) = Append(First(l, n), c) /\ First(l, n) \in Seq(Char)
      <3>1. n + 1 \in 1..Len(l) /\ n \in 0..Len(l) /\ 1 \in 1..Len(l)
        BY <2>1 DEF N
      <3>2. First(l, n) \in Seq(Char)
        BY <3>1, FirstAfterFacts
      <3>3. SubSeq(l, 1, n + 1) = SubSeq(l, 1, (n + 1) - 1) \o << l[n + 1] >>
        BY <3>1, SubSeqRecursiveSecond
      <3>4. First(l, n + 1) = First(l, n) \o <<c>>
        BY <2>1, <3>3 DEF First
      <3> QED BY <2>2, <3>2, <3>4, AppendIsConcat
    <2>6. st(n).mode = "quoted" /\ st(n).quote = q /\ st(n).text = First(l, n)
      OBVIOUS
    <2> HIDE DEF c, e
    <2>7. CASE c \in {q, Backslash}
      <3>1. Part(q, c) = <<Backslash, c>>
        BY <2>7 DEF Part
      <3>2. Len(Part(q, c)) = 2 /\ Part(q, c)[1] = Backslash /\ Part(q, c)[2] = c
        BY <3>1
      <3>3. d(n + 1) = e + 2 /\ w[n + 1][e + 1] = Backslash /\ w[n + 1][e + 2] = c
        BY <2>3, <3>2
      <3>4. e + 1 \in 1..d(n + 1) /\ e + 2 \in 1..d(n + 1) /\ e + 1 \in 1..Len(W) /\ e + 2 \in 1..Len(W)
        BY <1>b, <2>2, <2>4, <3>3
      <3>5. L[e + 2] = Backslash /\ L[e + 3] = c
        <4>1. W[e + 1] = Backslash /\ W[e + 2] = c
          BY <2>4, <3>3, <3>4
        <4>2. L[(e + 1) + 1] = W[e + 1] /\ L[(e + 2) + 1] = W[e + 2]
          BY <1>2, <3>4
        <4>3. (e + 1) + 1 = e + 2 /\ (e + 2) + 1 = e + 3
          BY <2>2
        <4> QED BY <4>1, <4>2, <4>3
      <3>6. /\ e + 2 \in 1..Len(L) /\ e + 3 \in 1..Len(L) /\ (e + 2) - 1 = e + 1 /\ (e + 3) - 1 = e + 2
            /\ e + 1 \in 0..Len(L) /\ e + 2 \in 0..Len(L)
        BY <1>2, <1>b, <2>2, <3>4
      <3>7. a[e + 2] = Step(st(n), Backslash) /\ st(n) \in States
        BY <1>5, <2>2, <3>5, <3>6
      <3>8. a[e + 2] = [st(n) EXCEPT !.mode = "escaped"]
        <4> HIDE DEF st
        <4> QED BY <1>c, <2>6, <3>7, StepFacts
      <3>9. a[e + 3] = Step(a[e + 2], c) /\ a[e + 2] \in States
        BY <1>5, <3>5, <3>6
      <3>10. a[e + 2].mode = "escaped" /\ a[e + 2].text = First(l, n)
        BY <3>8
      <3>11. a[e + 3] = [a[e + 2] EXCEPT !.mode = "quoted",
                                         !.text = Append(a[e + 2].text, Meaning(c))]
        BY <2>2, <3>9, <3>10, StepFacts
      <3>12. Meaning(c) = c
        BY <1>c, <2>7
      <3>13. a[e + 3] = st(n + 1)
        BY <2>5, <3>8, <3>10, <3>11, <3>12
      <3>14. d(n + 1) + 1 = e + 3
        BY <2>2, <3>3
      <3> HIDE DEF st
      <3> QED BY <2>1, <3>13, <3>14
    <2>8. CASE c \notin {q, Backslash}
      <3>1. Part(q, c) = <<c>>
        BY <2>8 DEF Part
      <3>2. Len(Part(q, c)) = 1 /\ Part(q, c)[1] = c
        BY <3>1
      <3>3. d(n + 1) = e + 1 /\ w[n + 1][e + 1] = c
        BY <2>3, <3>2
      <3>4. e + 1 \in 1..d(n + 1) /\ e + 1 \in 1..Len(W)
        BY <1>b, <2>2, <2>4, <3>3
      <3>5. L[e + 2] = c
        <4>1. W[e + 1] = c
          BY <2>4, <3>3, <3>4
        <4>2. L[(e + 1) + 1] = W[e + 1]
          BY <1>2, <3>4
        <4>3. (e + 1) + 1 = e + 2
          BY <2>2
        <4> QED BY <4>1, <4>2, <4>3
      <3>6. e + 2 \in 1..Len(L) /\ (e + 2) - 1 = e + 1 /\ e + 1 \in 0..Len(L)
        BY <1>2, <1>b, <2>2, <3>4
      <3>7. a[e + 2] = Step(st(n), c) /\ st(n) \in States
        BY <1>5, <2>2, <3>5, <3>6
      <3>8. a[e + 2] = [st(n) EXCEPT !.text = Append(st(n).text, c)]
        <4>1. c \notin {Backslash, st(n).quote}
          BY <2>6, <2>8
        <4> HIDE DEF st
        <4> QED BY <2>2, <2>6, <3>7, <4>1, StepFacts
      <3>9. a[e + 2] = st(n + 1)
        BY <2>5, <3>8
      <3>10. d(n + 1) + 1 = e + 2
        BY <2>2, <3>3
      <3> HIDE DEF st
      <3> QED BY <2>1, <3>9, <3>10
    <2> QED BY <2>7, <2>8
  <1>8. N \in T
    <2>1. \A n \in 0..(N - 1) : n \in T => n + 1 \in T
      <3> HIDE DEF T
      <3> QED BY <1>7
    <2> HIDE DEF T
    <2>2. \A n \in 0..N : n \in T
      BY <1>0, <1>6, <2>1, Upward
    <2> QED BY <1>0, <2>2
  <1>9. a[Len(W) + 1] = [mode |-> "quoted", quote |-> q, text |-> l, read |-> << >>]
    <2>1. First(l, N) = l
      BY SubSeqFull DEF First, N
    <2>2. d(N) = Len(W)
      BY DEF d, W
    <2> QED BY <1>8, <2>1, <2>2
  <1> DEFINE s == a[Len(W) + 1]
  <1>10. /\ s.mode = "quoted" /\ s.quote = q /\ s.text = l /\ s.read = << >>
    BY <1>9
  <1>11. /\ Len(W) + 2 \in 1..Len(L) /\ (Len(W) + 2) - 1 = Len(W) + 1 /\ Len(W) + 1 \in 0..Len(L)
    BY <1>2, <1>b
  <1>12. a[Len(L)] = Step(s, q) /\ s \in States
    BY <1>2, <1>5, <1>11
  <1> HIDE DEF s
  <1>13. a[Len(L)] = [s EXCEPT !.mode = "blank", !.text = << >>,
                        !.read = Append(s.read, [kind |-> s.mode, text |-> s.text])]
    BY <1>10, <1>12, <1>c, StepFacts
  <1>14. a[Len(L)].mode = "blank" /\ a[Len(L)].read = Append(<< >>, [kind |-> "quoted", text |-> l])
    BY <1>10, <1>12, <1>13 DEF States
  <1>15. Append(<< >>, [kind |-> "quoted", text |-> l]) = <<[kind |-> "quoted", text |-> l]>>
    OBVIOUS
  <1>16. Automaton(L) = <<[kind |-> "quoted", text |-> l]>>
    BY <1>5, <1>14, <1>15 DEF Final
  <1>17. Len(L) \in Nat /\ Len(L) >= 2
    BY <1>2, <1>b
  <1> QED BY <1>2, <1>16, <1>17 DEF L

(* What is read of a line, by its first token and what follows it.         *)
LEMMA ReadByFirst ==
    ASSUME NEW l \in Seq(Char)
    PROVE  /\ NextToken(l, 1) \in Found /\ NextToken(l, 1).next \in 1..(Len(l) + 1)
           /\ NextToken(l, 1).kind = "end" => Read(l) = << >>
           /\ NextToken(l, 1).kind # "end" =>
                IF SkipWspc(l, NextToken(l, 1).next) > Len(l)
                THEN Read(l) = <<Token(NextToken(l, 1))>>
                ELSE Len(Read(l)) > 1
  <1> DEFINE t == NextToken(l, 1)
             g == Taker(l)
  <1>0. Len(l) \in Nat /\ 1 \in 1..(Len(l) + 1)
    BY LineFacts
  <1>1. t \in Found /\ t.next \in 1..(Len(l) + 1)
    BY <1>0, NextTokenFacts
  <1>2. /\ Read(l) = ReadOf(g[1])
        /\ t.kind = "end" => g[1] = << >>
        /\ t.kind # "end" => g[1] = <<t>> \o g[t.next]
        /\ g[t.next] \in Seq(Found)
        /\ NextToken(l, t.next).kind = "end" => g[t.next] = << >>
        /\ NextToken(l, t.next).kind # "end" =>
             g[t.next] = <<NextToken(l, t.next)>> \o g[NextToken(l, t.next).next]
        /\ NextToken(l, t.next).kind = "end" <=> SkipWspc(l, t.next) > Len(l)
    <2>1. Read(l) = ReadOf(g[1])
      BY ReadIsAutomaton
    <2>2. (t.kind = "end" => g[1] = << >>) /\ (t.kind # "end" => g[1] = <<t>> \o g[t.next])
      BY <1>0, TakerFacts
    <2> HIDE DEF t
    <2>3. /\ g[t.next] \in Seq(Found)
          /\ NextToken(l, t.next).kind = "end" => g[t.next] = << >>
          /\ NextToken(l, t.next).kind # "end" =>
               g[t.next] = <<NextToken(l, t.next)>> \o g[NextToken(l, t.next).next]
      BY <1>1, TakerFacts
    <2>4. NextToken(l, t.next).kind = "end" <=> SkipWspc(l, t.next) > Len(l)
      BY <1>1, NextTokenFacts
    <2> QED BY <2>1, <2>2, <2>3, <2>4
  <1> HIDE DEF t, g
  <1>3. /\ ReadOf(<< >>) = << >> /\ Token(t) \in Texts
        /\ ReadOf(<<t>> \o g[t.next]) = <<Token(t)>> \o ReadOf(g[t.next])
        /\ ReadOf(g[t.next]) \in Seq(Texts) /\ Len(ReadOf(g[t.next])) = Len(g[t.next])
    BY <1>1, <1>2, ReadOfFacts
  <1>4. t.kind = "end" => Read(l) = << >>
    BY <1>2, <1>3
  <1> DEFINE o == Token(t)
             z == ReadOf(g[t.next])
  <1>5. o \in Texts /\ z \in Seq(Texts) /\ Len(z) = Len(g[t.next])
        /\ (t.kind # "end" => Read(l) = <<o>> \o z)
    BY <1>2, <1>3
  <1>6. SkipWspc(l, t.next) > Len(l) => z = << >>
    BY <1>2, <1>3
  <1>7. ~ (SkipWspc(l, t.next) > Len(l)) => Len(g[t.next]) > 0
    <2>1. SUFFICES ASSUME ~ (SkipWspc(l, t.next) > Len(l)) PROVE Len(g[t.next]) > 0
      OBVIOUS
    <2> DEFINE n == NextToken(l, t.next)
    <2>2. g[t.next] = <<n>> \o g[n.next]
      BY <1>2, <2>1
    <2>3. n \in Found /\ n.next \in 1..(Len(l) + 1)
      BY <1>1, NextTokenFacts
    <2>4. g[n.next] \in Seq(Found)
      <3> HIDE DEF n
      <3> QED BY <2>3, TakerFacts DEF g
    <2> DEFINE x == g[n.next]
    <2>5. n \in Found /\ x \in Seq(Found) /\ g[t.next] = <<n>> \o x
      BY <2>2, <2>3, <2>4
    <2> HIDE DEF n, x
    <2>6. <<n>> \in Seq(Found) /\ Len(<<n>>) = 1
      BY <2>5
    <2>7. Len(<<n>> \o x) = Len(<<n>>) + Len(x)
      BY <2>5, <2>6, ConcatProperties
    <2>8. Len(x) \in Nat
      BY <2>5, LenProperties
    <2> QED BY <2>5, <2>6, <2>7, <2>8
  <1> HIDE DEF z, o
  <1>8. <<o>> \in Seq(Texts) /\ Len(<<o>>) = 1
    BY <1>5
  <1>9. <<o>> \o << >> = <<o>> /\ Len(<<o>> \o z) = 1 + Len(z) /\ Len(z) \in Nat
    <2>1. <<o>> \o << >> = <<o>>
      BY <1>8, ConcatEmptySeq
    <2>2. Len(<<o>> \o z) = Len(<<o>>) + Len(z)
      BY <1>5, <1>8, ConcatProperties
    <2>3. Len(z) \in Nat
      BY <1>5, LenProperties
    <2> QED BY <1>8, <2>1, <2>2, <2>3
  <1>10. t.kind # "end" =>
           IF SkipWspc(l, t.next) > Len(l) THEN Read(l) = <<o>> ELSE Len(Read(l)) > 1
    <2>1. SUFFICES ASSUME t.kind # "end"
                   PROVE  IF SkipWspc(l, t.next) > Len(l) THEN Read(l) = <<o>> ELSE Len(Read(l)) > 1
      OBVIOUS
    <2>2. CASE SkipWspc(l, t.next) > Len(l)
      BY <1>5, <1>6, <1>9, <2>1, <2>2
    <2>3. CASE ~ (SkipWspc(l, t.next) > Len(l))
      <3>1. Len(z) > 0
        BY <1>5, <1>7, <2>3
      <3> QED BY <1>5, <1>9, <2>1, <2>3, <3>1
    <2> QED BY <2>2, <2>3
  <1> QED BY <1>1, <1>4, <1>10 DEF t, o

(* Where the rest of a line ends without the blanks at its end.            *)
LastAt(l, i) == Least({e \in i..Len(l) : \A j \in (e + 1)..Len(l) : l[j] \in Blank})

(* Only blanks follow, and there is none at its end.                       *)
LEMMA LastFacts ==
    ASSUME NEW l \in Seq(Char), NEW i \in 1..Len(l), l[i] \notin Blank
    PROVE  /\ LastAt(l, i) \in i..Len(l) /\ l[LastAt(l, i)] \notin Blank
           /\ \A j \in (LastAt(l, i) + 1)..Len(l) : l[j] \in Blank
  <1> DEFINE S == {e \in i..Len(l) : \A j \in (e + 1)..Len(l) : l[j] \in Blank}
             m == LastAt(l, i)
  <1>0. Len(l) \in Nat /\ i \in Nat /\ 1 <= i /\ i <= Len(l)
    BY LineFacts
  <1>1. S \in SUBSET Nat /\ Len(l) \in S
    BY <1>0
  <1>2. m = Least(S)
    BY DEF LastAt
  <1>3. m \in S /\ \A e \in S : m <= e
    <2> HIDE DEF S, m
    <2> QED BY <1>1, <1>2, LeastFacts
  <1> HIDE DEF m
  <1>4. m \in i..Len(l) /\ \A j \in (m + 1)..Len(l) : l[j] \in Blank
    BY <1>3
  <1>5. l[m] \notin Blank
    <2>1. SUFFICES ASSUME l[m] \in Blank PROVE FALSE
      OBVIOUS
    <2>2. m # i
      BY <2>1
    <2>3. m - 1 \in i..Len(l) /\ (m - 1) + 1 = m /\ m \in Nat /\ ~ (m <= m - 1)
      BY <1>0, <1>4, <2>2
    <2>4. \A j \in ((m - 1) + 1)..Len(l) : l[j] \in Blank
      <3>1. \A j \in m..Len(l) : j = m \/ j \in (m + 1)..Len(l)
        BY <1>0, <2>3
      <3> QED BY <1>4, <2>1, <2>3, <3>1
    <2>5. m - 1 \in S
      BY <2>3, <2>4
    <2> QED BY <1>3, <2>3, <2>5
  <1> QED BY <1>4, <1>5 DEF m

(* The three ways in which next_token_end comes back.                      *)
LEMMA NextTokenEndCases ==
    ASSUME NEW l \in Seq(Char)
    PROVE  /\ SkipWspc(l, 1) <= Len(l) /\ l[SkipWspc(l, 1)] \notin Quotes =>
                NextTokenEnd(l, 1) =
                  [kind |-> "plain", text |-> SubSeq(l, SkipWspc(l, 1), LastAt(l, SkipWspc(l, 1)))]
           /\ /\ ~ (SkipWspc(l, 1) <= Len(l) /\ l[SkipWspc(l, 1)] \notin Quotes)
              /\ SkipWspc(l, NextToken(l, 1).next) <= Len(l)
              => NextTokenEnd(l, 1) = [kind |-> "more", text |-> << >>]
           /\ /\ ~ (SkipWspc(l, 1) <= Len(l) /\ l[SkipWspc(l, 1)] \notin Quotes)
              /\ ~ (SkipWspc(l, NextToken(l, 1).next) <= Len(l))
              => NextTokenEnd(l, 1) = [kind |-> NextToken(l, 1).kind, text |-> NextToken(l, 1).text]
  <1> DEFINE i == SkipWspc(l, 1)
  <1>0. Len(l) \in Nat /\ 1 \in 1..(Len(l) + 1)
    BY LineFacts
  <1>1. NextToken(l, i) = NextToken(l, 1)
    <2>1. i \in 1..(Len(l) + 1)
      BY <1>0, SkipFacts
    <2>2. i \in 1..SkipWspc(l, 1)
      <3>1. i = SkipWspc(l, 1)
        OBVIOUS
      <3> HIDE DEF i
      <3> QED BY <1>0, <2>1, <3>1
    <2> HIDE DEF i
    <2> QED BY <1>0, <2>2, TakeFrom
  <1>2. NextTokenEnd(l, 1) =
          IF i <= Len(l) /\ l[i] \notin Quotes
          THEN [kind |-> "plain", text |-> SubSeq(l, i, LastAt(l, i))]
          ELSE IF SkipWspc(l, NextToken(l, i).next) <= Len(l) THEN [kind |-> "more", text |-> << >>]
          ELSE [kind |-> NextToken(l, i).kind, text |-> NextToken(l, i).text]
    BY DEF NextTokenEnd, LastAt
  <1> HIDE DEF i
  <1>3. NextTokenEnd(l, 1) =
          IF i <= Len(l) /\ l[i] \notin Quotes
          THEN [kind |-> "plain", text |-> SubSeq(l, i, LastAt(l, i))]
          ELSE IF SkipWspc(l, NextToken(l, 1).next) <= Len(l) THEN [kind |-> "more", text |-> << >>]
          ELSE [kind |-> NextToken(l, 1).kind, text |-> NextToken(l, 1).text]
    BY <1>1, <1>2, Zenon
  <1> QED BY <1>3 DEF i

(* A text between quotes is read as one argument, the rest of a line too.  *)
LEMMA WrittenIsOne ==
    ASSUME NEW l \in Seq(Char), NEW q \in Quotes
    PROVE  /\ Read(Escaped(q, l)) = <<[kind |-> "quoted", text |-> l]>>
           /\ NextTokenEnd(Escaped(q, l), 1) = [kind |-> "quoted", text |-> l]
  <1> DEFINE L == Escaped(q, l)
             t == NextToken(L, 1)
             o == [kind |-> "quoted", text |-> l]
  <1>1. /\ L \in Seq(Char) /\ Len(L) \in Nat /\ Len(L) >= 2 /\ L[1] = q
        /\ Automaton(L) = <<o>>
    BY WrittenRead
  <1> HIDE DEF L, o
  <1>2. Read(L) = <<o>>
    BY <1>1, ReadIsAutomaton
  <1>3. /\ t \in Found
        /\ t.kind = "end" => Read(L) = << >>
        /\ t.kind # "end" => IF SkipWspc(L, t.next) > Len(L) THEN Read(L) = <<Token(t)>>
                             ELSE Len(Read(L)) > 1
    BY <1>1, ReadByFirst
  <1>4. SkipWspc(L, 1) = 1
    <2>1. 1 \in 1..(Len(L) + 1)
      BY <1>1
    <2>2. /\ SkipWspc(L, 1) \in 1..(Len(L) + 1)
          /\ \A j \in 1..(SkipWspc(L, 1) - 1) : j <= Len(L) /\ L[j] \in Blank
      BY <1>1, <2>1, SkipFacts
    <2>3. L[1] \notin Blank
      BY <1>1, CharFacts
    <2>4. ~ (1 \in 1..(SkipWspc(L, 1) - 1))
      BY <2>2, <2>3
    <2>5. SkipWspc(L, 1) \in Nat /\ SkipWspc(L, 1) >= 1
      BY <1>1, <2>2
    <2> QED BY <2>4, <2>5
  <1>5. Len(<<o>>) = 1 /\ <<o>> # << >>
    OBVIOUS
  <1>6. t.kind # "end" /\ SkipWspc(L, t.next) > Len(L) /\ Read(L) = <<Token(t)>>
    BY <1>2, <1>3, <1>5
  <1>7. Token(t) = o
    BY <1>2, <1>6
  <1>8. ~ (SkipWspc(L, t.next) <= Len(L))
    <2>1. SkipWspc(L, t.next) \in Nat
      <3>1. t.next \in 1..(Len(L) + 1)
        BY <1>1, ReadByFirst
      <3>2. SkipWspc(L, t.next) \in t.next..(Len(L) + 1)
        <4> HIDE DEF t
        <4> QED BY <1>1, <3>1, SkipFacts
      <3> HIDE DEF t
      <3> QED BY <1>1, <3>1, <3>2
    <2> HIDE DEF t
    <2> QED BY <1>1, <1>6, <2>1
  <1>9. ~ (SkipWspc(L, 1) <= Len(L) /\ L[SkipWspc(L, 1)] \notin Quotes)
    BY <1>1, <1>4
  <1>10. NextTokenEnd(L, 1) = [kind |-> t.kind, text |-> t.text]
    BY <1>1, <1>8, <1>9, NextTokenEndCases
  <1>11. NextTokenEnd(L, 1) = o
    BY <1>7, <1>10 DEF Token
  <1> QED BY <1>2, <1>11 DEF L, o

(* The last line that was interpreted is a line. *)
LEMMA NewLineFacts ==
    ASSUME TypeOK, NEW l \in NewLines
    PROVE  l \in Seq(Char)
  <1> DEFINE C == Char \ {NewLine, Nul}
  <1>1. lines \in Seq(Seq(C)) /\ lines # << >> /\ l = lines[Len(lines)]
    BY DEF TypeOK, NewLines
  <1> HIDE DEF C
  <1>2. Len(lines) \in 1..Len(lines)
    BY <1>1, EmptySeq
  <1>3. l \in Seq(C)
    BY <1>1, <1>2, ElementOfSeq
  <1>4. C \subseteq Char
    BY DEF C
  <1> QED BY <1>3, <1>4, SeqMonotonic

(* The tokens of each line are those of one pass over its characters, and  *)
(* any text can be written as one argument of a command.                   *)
THEOREM TokensCorrect == Spec => []TokensRight
  <1>1. TypeOK => TokensRight
    <2>1. SUFFICES ASSUME TypeOK PROVE TokensRight
      OBVIOUS
    <2>2. \A l \in NewLines : Read(l) = Automaton(l)
      BY <2>1, NewLineFacts, ReadIsAutomaton
    <2>3. ASSUME NEW l \in NewLines, NEW q \in Quotes
          PROVE  /\ Read(Escaped(q, l)) = <<[kind |-> "quoted", text |-> l]>>
                 /\ NextTokenEnd(Escaped(q, l), 1) = [kind |-> "quoted", text |-> l]
      <3>1. l \in Seq(Char)
        BY <2>1, NewLineFacts
      <3> QED BY <3>1, WrittenIsOne
    <2> QED BY <2>2, <2>3, Zenon DEF TokensRight, TextsExpressible
  <1>2. Inv => TypeOK
    BY DEF Inv
  <1> QED BY <1>1, <1>2, AlwaysInv, PTL

(* What next_token_end says of one line. *)
RestIs(l, r) ==
    CASE r.kind = "plain" ->
           /\ r.text # << >> /\ r.text[Len(r.text)] \notin Blank
           /\ \E i, j \in 0..Len(l) :
                 /\ l = First(l, i) \o r.text \o After(l, j)
                 /\ \A k \in (1..i) \cup ((j + 1)..Len(l)) : l[k] \in Blank
      [] r.kind = "more" -> Len(Read(l)) > 1
      [] r.kind = "end" -> Read(l) = << >>
      [] OTHER -> Read(l) = <<r>>

(* It is what is between the blanks, or what one pass over the line reads. *)
LEMMA RestFacts ==
    ASSUME NEW l \in Seq(Char)
    PROVE  RestIs(l, NextTokenEnd(l, 1))
  <1> DEFINE i == SkipWspc(l, 1)
             t == NextToken(l, 1)
             r == NextTokenEnd(l, 1)
             m == LastAt(l, i)
  <1>0. /\ Len(l) \in Nat /\ 1 \in 1..(Len(l) + 1) /\ i \in 1..(Len(l) + 1)
        /\ i <= Len(l) => l[i] \notin Blank
        /\ \A j \in 1..(i - 1) : l[j] \in Blank
    <2>1. Len(l) \in Nat /\ 1 \in 1..(Len(l) + 1)
      BY LineFacts
    <2> QED BY <2>1, SkipFacts
  <1>1. CASE i <= Len(l) /\ l[i] \notin Quotes
    <2>1. r = [kind |-> "plain", text |-> SubSeq(l, i, m)]
      BY <1>1, NextTokenEndCases
    <2>2. i \in 1..Len(l) /\ l[i] \notin Blank
      BY <1>0, <1>1
    <2> HIDE DEF i, r
    <2>3. m \in i..Len(l) /\ l[m] \notin Blank /\ \A j \in (m + 1)..Len(l) : l[j] \in Blank
      BY <2>2, LastFacts
    <2> HIDE DEF m
    <2>4. i \in Nat /\ m \in Nat /\ 1 <= i /\ i <= m /\ m <= Len(l)
      BY <1>0, <2>2, <2>3
    <2>5. /\ SubSeq(l, i, m) \in Seq(Char)
          /\ Len(SubSeq(l, i, m)) = m - i + 1
          /\ SubSeq(l, i, m)[Len(SubSeq(l, i, m))] = l[m]
      <3>1. \A j \in i..m : l[j] \in Char
        BY <1>0, <2>4, LineFacts
      <3>2. /\ SubSeq(l, i, m) \in Seq(Char)
            /\ Len(SubSeq(l, i, m)) = IF i <= m THEN m - i + 1 ELSE 0
            /\ \A j \in 1..m - i + 1 : SubSeq(l, i, m)[j] = l[i + j - 1]
        BY <2>4, <3>1, SubSeqProperties
      <3>3. m - i + 1 \in 1..m - i + 1 /\ i + (m - i + 1) - 1 = m
        BY <2>4
      <3> QED BY <2>4, <3>2, <3>3
    <2>6. SubSeq(l, i, m) # << >>
      <3>1. Len(<< >>) = 0
        BY EmptySeq
      <3> QED BY <2>4, <2>5, <3>1
    <2>7. l = First(l, i - 1) \o SubSeq(l, i, m) \o After(l, m)
      <3>1. SubSeq(l, 1, i - 1) \o SubSeq(l, i, m) = SubSeq(l, 1, m)
        <4> DEFINE k == i - 1
        <4>1. 1 \in 1..(Len(l) + 1) /\ k \in (1 - 1)..Len(l) /\ m \in k..Len(l) /\ k + 1 = i
          BY <1>0, <2>4
        <4> HIDE DEF k
        <4>2. SubSeq(l, 1, k) \o SubSeq(l, k + 1, m) = SubSeq(l, 1, m)
          BY <4>1, ConcatAdjacentSubSeq
        <4> QED BY <4>1, <4>2 DEF k
      <3>2. SubSeq(l, 1, m) \o SubSeq(l, m + 1, Len(l)) = SubSeq(l, 1, Len(l))
        <4>1. 1 \in 1..(Len(l) + 1) /\ m \in (1 - 1)..Len(l) /\ Len(l) \in m..Len(l)
          BY <1>0, <2>4
        <4> QED BY <4>1, ConcatAdjacentSubSeq
      <3>3. SubSeq(l, 1, Len(l)) = l
        BY SubSeqFull
      <3> QED BY <3>1, <3>2, <3>3 DEF First, After
    <2>8. \E x, y \in 0..Len(l) :
            /\ l = First(l, x) \o r.text \o After(l, y)
            /\ \A k \in (1..x) \cup ((y + 1)..Len(l)) : l[k] \in Blank
      <3>1. i - 1 \in 0..Len(l) /\ m \in 0..Len(l)
        BY <1>0, <2>4
      <3>2. \A k \in (1..(i - 1)) \cup ((m + 1)..Len(l)) : l[k] \in Blank
        BY <1>0, <2>3
      <3>3. r.text = SubSeq(l, i, m)
        BY <2>1
      <3> QED BY <2>7, <3>1, <3>2, <3>3
    <2>9. r.kind = "plain" /\ r.text = SubSeq(l, i, m)
      BY <2>1
    <2>10. r.text # << >> /\ r.text[Len(r.text)] \notin Blank
      BY <2>3, <2>5, <2>6, <2>9
    <2>11. RestIs(l, r)
      BY <2>8, <2>9, <2>10 DEF RestIs
    <2> QED BY <2>11 DEF r
  <1>2. CASE ~ (i <= Len(l) /\ l[i] \notin Quotes)
    <2>1. /\ t \in Found /\ t.next \in 1..(Len(l) + 1)
          /\ t.kind = "end" => Read(l) = << >>
          /\ t.kind # "end" => IF SkipWspc(l, t.next) > Len(l) THEN Read(l) = <<Token(t)>>
                               ELSE Len(Read(l)) > 1
      BY ReadByFirst
    <2>2. t.kind # "plain" /\ t.kind \in Kinds
      <3>1. i > Len(l) => t.kind = "end"
        BY <1>0, NextTokenFacts
      <3>2. i <= Len(l) => t.kind \in {"open", "quoted"}
        <4>1. SUFFICES ASSUME i <= Len(l) PROVE t.kind \in {"open", "quoted"}
          OBVIOUS
        <4>2. l[i] \in Quotes /\ i \in 1..Len(l)
          BY <1>0, <1>2, <4>1
        <4>3. QuotedEnd(l, i) \in (i + 1)..(Len(l) + 1)
          BY <4>2, QuotedEndFacts
        <4>4. QuotedEnd(l, i) > Len(l) \/ QuotedEnd(l, i) <= Len(l)
          <5> HIDE DEF i
          <5> QED BY <1>0, <4>2, <4>3
        <4>5. CASE QuotedEnd(l, i) > Len(l)
          <5>1. t.kind = "open"
            BY <1>0, <4>1, <4>2, <4>5, NextTokenCases
          <5> QED BY <5>1
        <4>6. CASE QuotedEnd(l, i) <= Len(l)
          <5>1. t.kind = "quoted"
            BY <1>0, <4>1, <4>2, <4>6, NextTokenCases
          <5> QED BY <5>1
        <4> QED BY <4>4, <4>5, <4>6
      <3>3. i > Len(l) \/ i <= Len(l)
        <4> HIDE DEF i
        <4> QED BY <1>0
      <3> HIDE DEF i, t
      <3>4. t.kind \in Kinds
        BY <2>1 DEF Found
      <3> QED BY <3>1, <3>2, <3>3, <3>4
    <2>a. t.kind = "end" => SkipWspc(l, t.next) > Len(l)
      <3>1. SUFFICES ASSUME t.kind = "end" PROVE SkipWspc(l, t.next) > Len(l)
        OBVIOUS
      <3>2. i > Len(l)
        BY <1>0, <3>1, NextTokenFacts
      <3>3. t.next = i
        BY <1>0, <3>2, NextTokenCases
      <3>4. i \in 1..SkipWspc(l, 1)
        <4> DEFINE x == i
        <4>1. x \in 1..(Len(l) + 1) /\ x = SkipWspc(l, 1)
          BY <1>0
        <4> HIDE DEF x
        <4>2. x \in 1..x
          BY <1>0, <4>1
        <4> QED BY <4>2 DEF x
      <3>5. SkipWspc(l, i) = SkipWspc(l, 1)
        <4> HIDE DEF i
        <4> QED BY <1>0, <3>4, SkipFrom
      <3> QED BY <3>2, <3>3, <3>5
    <2>b. SkipWspc(l, t.next) <= Len(l) <=> ~ (SkipWspc(l, t.next) > Len(l))
      <3> DEFINE x == SkipWspc(l, t.next)
      <3>1. x \in t.next..(Len(l) + 1)
        <4> HIDE DEF t
        <4> QED BY <2>1, SkipFacts
      <3>2. x \in Nat
        <4> HIDE DEF x, t
        <4> QED BY <1>0, <2>1, <3>1
      <3> HIDE DEF x
      <3>3. x <= Len(l) <=> ~ (x > Len(l))
        BY <1>0, <3>2
      <3> QED BY <3>3 DEF x
    <2>3. CASE SkipWspc(l, t.next) <= Len(l)
      <3>1. r = [kind |-> "more", text |-> << >>]
        BY <1>2, <2>3, NextTokenEndCases
      <3>2. Len(Read(l)) > 1
        <4> HIDE DEF t
        <4> QED BY <2>1, <2>3, <2>a, <2>b
      <3> HIDE DEF r
      <3>3. RestIs(l, r)
        BY <3>1, <3>2 DEF RestIs
      <3> QED BY <3>3 DEF r
    <2>4. CASE ~ (SkipWspc(l, t.next) <= Len(l))
      <3>1. r = [kind |-> t.kind, text |-> t.text]
        BY <1>2, <2>4, NextTokenEndCases
      <3>2. r = Token(t)
        BY <3>1 DEF Token
      <3> HIDE DEF r, t
      <3>3. t.kind = "end" => Read(l) = << >>
        BY <2>1
      <3>4. t.kind # "end" => Read(l) = <<r>>
        BY <2>1, <2>4, <2>b, <3>2
      <3>5. r.kind = t.kind /\ t.kind \in {"end", "open", "quoted"}
        BY <2>2, <3>1 DEF Kinds
      <3>6. RestIs(l, r)
        BY <3>3, <3>4, <3>5 DEF RestIs
      <3> QED BY <3>6 DEF r
    <2> QED BY <2>3, <2>4
  <1> QED BY <1>1, <1>2

(* The rest of a line is one argument without the blanks around it, or a   *)
(* quoted token that nothing follows.                                      *)
THEOREM RestCorrect == Spec => []RestRight
  <1>1. TypeOK => RestRight
    <2>1. SUFFICES ASSUME TypeOK PROVE RestRight
      OBVIOUS
    <2>2. \A l \in NewLines : RestIs(l, NextTokenEnd(l, 1))
      BY <2>1, NewLineFacts, RestFacts
    <2> QED BY <2>2, Zenon DEF RestRight, RestIs
  <1>2. Inv => TypeOK
    BY DEF Inv
  <1> QED BY <1>1, <1>2, AlwaysInv, PTL
===============================================================================
