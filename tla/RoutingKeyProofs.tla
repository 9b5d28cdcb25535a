-------------------------- MODULE RoutingKeyProofs --------------------------
(***************************************************************************)
(* Proofs about RoutingKey.                                                *)
(***************************************************************************)
EXTENDS RoutingKey, SequenceTheorems, WellFoundedInduction, TLAPS

-----------------------------------------------------------------------------
(* Functions that are defined step by step. *)


(* Every set of numbers that is not empty has a least one.  *)
LEMMA NatMin ==
  ASSUME NEW T, T \subseteq Nat, T # {}
  PROVE  \E n \in T : \A m \in T : n <= m
<1>1. PICK x \in T : \A y \in T : ~(<<y, x>> \in OpToRel(<, Nat))
  BY NatLessThanWellFounded, WFMin
<1>2. \A y \in T : ~(y < x)
  BY <1>1 DEF OpToRel
<1> QED BY <1>2

(* What holds of 0, and of i if it holds of i - 1, holds up to n. *)
LEMMA Upwards ==
  ASSUME NEW n \in Nat, NEW T \in SUBSET (0 .. n), 0 \in T,
         \A i \in 1 .. n : i - 1 \in T => i \in T
  PROVE  T = 0 .. n
<1> SUFFICES ASSUME (0 .. n) \ T # {} PROVE FALSE
  OBVIOUS
<1>1. PICK m \in (0 .. n) \ T : \A k \in (0 .. n) \ T : m <= k
  BY (0 .. n) \ T \subseteq Nat, NatMin
<1>2. m \in 1 .. n
  BY <1>1
<1>3. m - 1 \in 0 .. n /\ ~(m <= m - 1)
  BY <1>2
<1>4. m - 1 \in T
  BY <1>1, <1>3
<1> QED BY <1>1, <1>2, <1>4

(* f[0] is c, and each f[i] comes from the one before by d. *)
Iterated(S, n, c, d) ==
  \E f \in [0 .. n -> S] : f[0] = c /\ \A i \in 1 .. n : f[i] = d[<<f[i - 1], i>>]

(* A function that is defined step by step exists. *)
LEMMA Iteration ==
  ASSUME NEW S, NEW n \in Nat, NEW c \in S, NEW d \in [S \X (1 .. n) -> S]
  PROVE  Iterated(S, n, c, d)
<1> DEFINE Upto(m) == \E f \in [0 .. m -> S] :
                        f[0] = c /\ \A i \in 1 .. m : f[i] = d[<<f[i - 1], i>>]
           T == {m \in 0 .. n : Upto(m)}
<1>1. Upto(0)
  <2> DEFINE f == [i \in 0 .. 0 |-> c]
  <2> f \in [0 .. 0 -> S] /\ f[0] = c /\ 1 .. 0 = {}
    OBVIOUS
  <2> QED OBVIOUS
<1>2. ASSUME NEW m \in 1 .. n, Upto(m - 1) PROVE Upto(m)
  <2>1. PICK f \in [0 .. (m - 1) -> S] :
          f[0] = c /\ \A i \in 1 .. (m - 1) : f[i] = d[<<f[i - 1], i>>]
    BY <1>2
  <2> DEFINE g == [i \in 0 .. m |-> IF i = m THEN d[<<f[m - 1], m>>] ELSE f[i]]
  <2>2. f[m - 1] \in S /\ <<f[m - 1], m>> \in S \X (1 .. n)
    OBVIOUS
  <2>3. g \in [0 .. m -> S]
    BY <2>2
  <2>4. g[0] = c
    BY <2>1
  <2>5. ASSUME NEW i \in 1 .. m PROVE g[i] = d[<<g[i - 1], i>>]
    <3>1. i - 1 \in 0 .. m /\ i - 1 # m /\ g[i - 1] = f[i - 1]
      OBVIOUS
    <3>2. CASE i = m
      BY <3>1, <3>2
    <3>3. CASE i # m
      <4>1. i \in 1 .. (m - 1) /\ g[i] = f[i]
        BY <3>3
      <4> QED BY <2>1, <3>1, <4>1
    <3> QED BY <3>2, <3>3
  <2> QED BY <2>3, <2>4, <2>5
<1>3. T = 0 .. n
  <2> HIDE DEF Upto
  <2>1. T \in SUBSET (0 .. n) /\ 0 \in T
    BY <1>1
  <2>2. \A i \in 1 .. n : i - 1 \in T => i \in T
    BY <1>2
  <2> HIDE DEF T
  <2> QED BY <2>1, <2>2, Upwards
<1> QED
  <2>1. n \in T
    BY <1>3, SMTT(30)
  <2> QED BY <2>1 DEF Iterated

-----------------------------------------------------------------------------
(* What the recursive definitions compute. *)

Char == STRING \cup {".", "*", "#"}

(* The texts of the first words of a sequence, one word after the other. *)
LEMMA TextsSteps ==
  ASSUME NEW s \in Seq(Seq(Char))
  PROVE  /\ Texts(s) \in [0 .. Len(s) -> Seq(Char)]
         /\ Texts(s)[0] = << >>
         /\ 1 \in 1 .. Len(s) => Texts(s)[1] = s[1]
         /\ \A i \in 2 .. Len(s) : Texts(s)[i] = Texts(s)[i - 1] \o <<".">> \o s[i]
<1> DEFINE S == Seq(Char)
           n == Len(s)
           d == [x \in S \X (1 .. n) |->
                   IF x[2] = 1 THEN s[1] ELSE x[1] \o <<".">> \o s[x[2]]]
           Step(T) == [i \in 0 .. n |->
                         CASE i = 0 -> << >>
                           [] i = 1 -> s[1]
                           [] OTHER -> T[i - 1] \o <<".">> \o s[i]]
<1>1. n \in Nat /\ << >> \in S
  OBVIOUS
<1>2. d \in [S \X (1 .. n) -> S]
  <2>1. ASSUME NEW t \in S, NEW i \in 1 .. n
        PROVE  (IF i = 1 THEN s[1] ELSE t \o <<".">> \o s[i]) \in S
    <3>1. s[i] \in S /\ s[1] \in S /\ <<".">> \in S
      <4>1. i \in 1 .. n /\ 1 \in 1 .. n
        OBVIOUS
      <4>2. "." \in Char
        BY DEF Char
      <4>3. <<".">> \in S
        BY <4>2
      <4> QED BY <4>1, <4>3
    <3>2. t \o <<".">> \in S
      BY <3>1
    <3>3. t \o <<".">> \o s[i] \in S
      BY <3>1, <3>2
    <3> QED BY <3>1, <3>3
  <2> QED BY <2>1
<1>3. PICK f \in [0 .. n -> S] :
        f[0] = << >> /\ \A i \in 1 .. n : f[i] = d[<<f[i - 1], i>>]
  <2>1. Iterated(S, n, << >>, d)
    <3> HIDE DEF S, n, d
    <3> QED BY <1>1, <1>2, Iteration
  <2> QED BY <2>1 DEF Iterated
<1>4. f = Step(f)
  <2>1. ASSUME NEW i \in 0 .. n PROVE f[i] = Step(f)[i]
    <3>1. CASE i = 0
      BY <3>1, <1>3
    <3>2. CASE i # 0
      <4>1. i \in 1 .. n /\ i - 1 \in 0 .. n
        BY <3>2
      <4>2. f[i - 1] \in S
        BY <4>1
      <4>3. <<f[i - 1], i>> \in S \X (1 .. n)
        BY <4>1, <4>2
      <4>4. d[<<f[i - 1], i>>] = IF i = 1 THEN s[1] ELSE f[i - 1] \o <<".">> \o s[i]
        BY <4>3
      <4> QED BY <4>1, <4>4, <1>3, <3>2
    <3> QED BY <3>1, <3>2
  <2> QED BY <2>1
<1>5. Texts(s) = CHOOSE T : T = Step(T)
  BY DEF Texts
<1>6. Texts(s) = Step(Texts(s))
  <2> HIDE DEF Step
  <2> QED BY <1>4, <1>5, Zenon
<1> DEFINE P == {i \in 0 .. n : Texts(s)[i] \in S}
<1>7. \A i \in 0 .. n : Texts(s)[i] = Step(Texts(s))[i]
  <2> HIDE DEF Step
  <2> QED BY <1>6
<1>8. P = 0 .. n
  <2>1. P \in SUBSET (0 .. n) /\ 0 \in P
    <3>1. 0 \in 0 .. n
      BY <1>1
    <3>2. Texts(s)[0] = << >>
      BY <1>7, <3>1
    <3> QED BY <1>1, <3>1, <3>2
  <2>2. ASSUME NEW i \in 1 .. n, i - 1 \in P PROVE i \in P
    <3>1. i \in 0 .. n /\ s[i] \in S /\ <<Texts(s)[i - 1], i>> \in S \X (1 .. n)
      BY <2>2
    <3>2. Texts(s)[i] = d[<<Texts(s)[i - 1], i>>]
      BY <3>1, <1>7
    <3>3. Texts(s)[i] \in S
      <4> HIDE DEF S, d, n
      <4> QED BY <3>1, <3>2, <1>2
    <3> QED BY <3>1, <3>3
  <2> HIDE DEF P
  <2> QED BY <1>1, <2>1, <2>2, Upwards
<1>9. Texts(s) = [i \in 0 .. n |-> Texts(s)[i]]
  BY <1>6, Zenon
<1>10. Texts(s) \in [0 .. n -> S]
  <2> HIDE DEF S, n, Step
  <2>1. \A i \in 0 .. n : Texts(s)[i] \in S
    BY <1>8
  <2> QED BY <2>1, <1>9
<1>11. Texts(s)[0] = << >>
  BY <1>1, <1>7
<1>12. 1 \in 1 .. n => Texts(s)[1] = s[1]
  <2> SUFFICES ASSUME 1 \in 1 .. n PROVE Texts(s)[1] = s[1]
    OBVIOUS
  <2>1. 1 \in 0 .. n
    BY <1>1
  <2>2. Step(Texts(s))[1] = s[1]
    BY <2>1
  <2> HIDE DEF Step
  <2> QED BY <1>7, <2>1, <2>2
<1>13. ASSUME NEW i \in 2 .. n PROVE Texts(s)[i] = Texts(s)[i - 1] \o <<".">> \o s[i]
  <2>1. i \in 0 .. n /\ i # 0 /\ i # 1
    BY <1>1
  <2>2. Step(Texts(s))[i] = Texts(s)[i - 1] \o <<".">> \o s[i]
    BY <2>1
  <2> HIDE DEF Step
  <2> QED BY <1>7, <2>1, <2>2
<1> QED BY <1>10, <1>11, <1>12, <1>13

(* The ends of a match of the first characters of a pattern, one by one. *)
LEMMA EndsSteps ==
  ASSUME NEW p \in Seq(Char), NEW k \in Seq(Char)
  PROVE  /\ Ends(p, k)[0] = {0}
         /\ \A i \in 1 .. Len(p) : \A j :
              j \in Ends(p, k)[i]
                <=> \E h \in Ends(p, k)[i - 1] : j \in After(p[i], k, h)
<1> DEFINE S == SUBSET Nat
           n == Len(p)
           d == [x \in S \X (1 .. n) |-> UNION {After(p[x[2]], k, h) : h \in x[1]}]
           Step(E) == [i \in 0 .. n |->
                         IF i = 0 THEN {0} ELSE UNION {After(p[i], k, h) : h \in E[i - 1]}]
<1>1. n \in Nat /\ Len(k) \in Nat /\ {0} \in S
  OBVIOUS
<1>2. d \in [S \X (1 .. n) -> S]
  <2>1. ASSUME NEW H \in S, NEW i \in 1 .. n
        PROVE  UNION {After(p[i], k, h) : h \in H} \in S
    <3>1. \A h \in H : After(p[i], k, h) \subseteq Nat
      BY <1>1 DEF After
    <3> QED BY <3>1
  <2> QED BY <2>1
<1>3. PICK f \in [0 .. n -> S] :
        f[0] = {0} /\ \A i \in 1 .. n : f[i] = d[<<f[i - 1], i>>]
  <2>1. Iterated(S, n, {0}, d)
    <3> HIDE DEF S, n, d
    <3> QED BY <1>1, <1>2, Iteration
  <2> QED BY <2>1 DEF Iterated
<1>4. f = Step(f)
  <2>1. ASSUME NEW i \in 0 .. n PROVE f[i] = Step(f)[i]
    <3>1. CASE i = 0
      BY <3>1, <1>3
    <3>2. CASE i # 0
      <4>1. i \in 1 .. n /\ i - 1 \in 0 .. n
        BY <3>2
      <4>2. f[i - 1] \in S
        BY <4>1
      <4>3. <<f[i - 1], i>> \in S \X (1 .. n)
        BY <4>1, <4>2
      <4>4. d[<<f[i - 1], i>>] = UNION {After(p[i], k, h) : h \in f[i - 1]}
        BY <4>3
      <4> QED BY <4>1, <4>4, <1>3, <3>2
    <3> QED BY <3>1, <3>2
  <2> QED BY <2>1
<1>5. Ends(p, k) = CHOOSE E : E = Step(E)
  BY DEF Ends
<1>6. Ends(p, k) = Step(Ends(p, k))
  <2> HIDE DEF Step
  <2> QED BY <1>4, <1>5, Zenon
<1>7. \A i \in 0 .. n : Ends(p, k)[i] = Step(Ends(p, k))[i]
  <2> HIDE DEF Step
  <2> QED BY <1>6
<1>8. 0 \in 0 .. n /\ \A i \in 1 .. n : i \in 0 .. n /\ i # 0
  BY <1>1
<1>9. Ends(p, k)[0] = {0}
  BY <1>7, <1>8
<1>10. ASSUME NEW i \in 1 .. n
       PROVE  Ends(p, k)[i] = UNION {After(p[i], k, h) : h \in Ends(p, k)[i - 1]}
  <2>1. Step(Ends(p, k))[i] = UNION {After(p[i], k, h) : h \in Ends(p, k)[i - 1]}
    BY <1>8
  <2> HIDE DEF Step
  <2> QED BY <1>7, <1>8, <2>1, Zenon
<1>11. ASSUME NEW i \in 1 .. n, NEW j
       PROVE  j \in Ends(p, k)[i]
                <=> \E h \in Ends(p, k)[i - 1] : j \in After(p[i], k, h)
  BY <1>10
<1> QED BY <1>9, <1>11

(* The same for the words of a pattern. *)
LEMMA WordEndsSteps ==
  ASSUME NEW p \in Seq(Seq(Char)), NEW k \in Seq(Seq(Char)), NEW fewest \in Nat
  PROVE  /\ WordEnds(p, k, fewest)[0] = {0}
         /\ \A i \in 1 .. Len(p) : \A j :
              j \in WordEnds(p, k, fewest)[i]
                <=> \E h \in WordEnds(p, k, fewest)[i - 1] : j \in WordsAfter(p[i], k, h, fewest)
<1> DEFINE S == SUBSET Nat
           n == Len(p)
           d == [x \in S \X (1 .. n) |-> UNION {WordsAfter(p[x[2]], k, h, fewest) : h \in x[1]}]
           Step(E) == [i \in 0 .. n |->
                         IF i = 0 THEN {0} ELSE UNION {WordsAfter(p[i], k, h, fewest) : h \in E[i - 1]}]
<1>1. n \in Nat /\ Len(k) \in Nat /\ {0} \in S
  OBVIOUS
<1>2. d \in [S \X (1 .. n) -> S]
  <2>1. ASSUME NEW H \in S, NEW i \in 1 .. n
        PROVE  UNION {WordsAfter(p[i], k, h, fewest) : h \in H} \in S
    <3>1. \A h \in H : WordsAfter(p[i], k, h, fewest) \subseteq Nat
      BY <1>1 DEF WordsAfter
    <3> QED BY <3>1
  <2> QED BY <2>1
<1>3. PICK f \in [0 .. n -> S] :
        f[0] = {0} /\ \A i \in 1 .. n : f[i] = d[<<f[i - 1], i>>]
  <2>1. Iterated(S, n, {0}, d)
    <3> HIDE DEF S, n, d
    <3> QED BY <1>1, <1>2, Iteration
  <2> QED BY <2>1 DEF Iterated
<1>4. f = Step(f)
  <2>1. ASSUME NEW i \in 0 .. n PROVE f[i] = Step(f)[i]
    <3>1. CASE i = 0
      BY <3>1, <1>3
    <3>2. CASE i # 0
      <4>1. i \in 1 .. n /\ i - 1 \in 0 .. n
        BY <3>2
      <4>2. f[i - 1] \in S
        BY <4>1
      <4>3. <<f[i - 1], i>> \in S \X (1 .. n)
        BY <4>1, <4>2
      <4>4. d[<<f[i - 1], i>>] = UNION {WordsAfter(p[i], k, h, fewest) : h \in f[i - 1]}
        BY <4>3
      <4> QED BY <4>1, <4>4, <1>3, <3>2
    <3> QED BY <3>1, <3>2
  <2> QED BY <2>1
<1>5. WordEnds(p, k, fewest) = CHOOSE E : E = Step(E)
  BY DEF WordEnds
<1>6. WordEnds(p, k, fewest) = Step(WordEnds(p, k, fewest))
  <2> HIDE DEF Step
  <2> QED BY <1>4, <1>5, Zenon
<1>7. \A i \in 0 .. n : WordEnds(p, k, fewest)[i] = Step(WordEnds(p, k, fewest))[i]
  <2> HIDE DEF Step
  <2> QED BY <1>6
<1>8. 0 \in 0 .. n /\ \A i \in 1 .. n : i \in 0 .. n /\ i # 0
  BY <1>1
<1>9. WordEnds(p, k, fewest)[0] = {0}
  BY <1>7, <1>8
<1>10. ASSUME NEW i \in 1 .. n
       PROVE  WordEnds(p, k, fewest)[i] = UNION {WordsAfter(p[i], k, h, fewest) : h \in WordEnds(p, k, fewest)[i - 1]}
  <2>1. Step(WordEnds(p, k, fewest))[i] = UNION {WordsAfter(p[i], k, h, fewest) : h \in WordEnds(p, k, fewest)[i - 1]}
    BY <1>8
  <2> HIDE DEF Step
  <2> QED BY <1>7, <1>8, <2>1, Zenon
<1>11. ASSUME NEW i \in 1 .. n, NEW j
       PROVE  j \in WordEnds(p, k, fewest)[i]
                <=> \E h \in WordEnds(p, k, fewest)[i - 1] : j \in WordsAfter(p[i], k, h, fewest)
  BY <1>10
<1> QED BY <1>9, <1>11

-----------------------------------------------------------------------------
(* Where the words are in a text. *)

(* The place before the first character of word j. *)
Start(s, j) == IF j = 1 THEN 0 ELSE Len(Texts(s)[j - 1]) + 1

(* The text of one word more: what there was, a dot, and the word. *)
LEMMA TextsAppend ==
  ASSUME NEW s \in Seq(Seq(Char)), NEW j \in 1 .. Len(s)
  PROVE  /\ Start(s, j) \in Nat
         /\ Len(Texts(s)[j - 1]) <= Start(s, j)
         /\ Len(Texts(s)[j]) = Start(s, j) + Len(s[j])
         /\ \A x \in 1 .. Len(Texts(s)[j - 1]) : Texts(s)[j][x] = Texts(s)[j - 1][x]
         /\ \A x \in 1 .. Len(s[j]) : Texts(s)[j][Start(s, j) + x] = s[j][x]
         /\ j # 1 => Texts(s)[j][Start(s, j)] = "."
<1> DEFINE T == Texts(s)
<1>1. j \in 0 .. Len(s) /\ j - 1 \in 0 .. Len(s) /\ s[j] \in Seq(Char)
  OBVIOUS
<1>2. T[j - 1] \in Seq(Char)
  BY <1>1, TextsSteps
<1>3. CASE j = 1
  <2>1. T[0] = << >> /\ T[1] = s[1]
    BY <1>1, <1>3, TextsSteps
  <2> QED BY <1>1, <1>3, <2>1 DEF Start
<1>4. CASE j # 1
  <2>1. T[j] = T[j - 1] \o <<".">> \o s[j]
    <3>1. j \in 2 .. Len(s)
      BY <1>4
    <3> QED BY <3>1, TextsSteps
  <2> DEFINE t == T[j - 1]
             u == t \o <<".">>
             w == s[j]
  <2>2. <<".">> \in Seq(Char) /\ Len(<<".">>) = 1 /\ <<".">>[1] = "."
    <3>1. "." \in Char
      BY DEF Char
    <3> QED BY <3>1
  <2>3. t \in Seq(Char) /\ w \in Seq(Char) /\ Len(t) \in Nat /\ Len(w) \in Nat
    BY <1>1, <1>2
  <2>4. /\ u \in Seq(Char)
        /\ Len(u) = Len(t) + 1
        /\ u[Len(t) + 1] = "."
        /\ \A x \in 1 .. Len(t) : u[x] = t[x]
    <3> HIDE DEF t
    <3> QED BY <2>2, <2>3
  <2>5. /\ Len(u \o w) = Len(u) + Len(w)
        /\ \A x \in 1 .. Len(u) : (u \o w)[x] = u[x]
        /\ \A x \in 1 .. Len(w) : (u \o w)[Len(u) + x] = w[x]
    <3> HIDE DEF u, w
    <3>1. /\ Len(u \o w) = Len(u) + Len(w)
          /\ \A i \in 1 .. Len(u) + Len(w) :
               (u \o w)[i] = IF i <= Len(u) THEN u[i] ELSE w[i - Len(u)]
      BY <2>3, <2>4, ConcatProperties
    <3>2. ASSUME NEW x \in 1 .. Len(u) PROVE (u \o w)[x] = u[x]
      <4>1. x \in 1 .. Len(u) + Len(w) /\ x <= Len(u)
        BY <2>3, <2>4
      <4> QED BY <3>1, <4>1
    <3>3. ASSUME NEW x \in 1 .. Len(w) PROVE (u \o w)[Len(u) + x] = w[x]
      <4>1. /\ Len(u) + x \in 1 .. Len(u) + Len(w)
            /\ ~(Len(u) + x <= Len(u))
            /\ (Len(u) + x) - Len(u) = x
        BY <2>3, <2>4
      <4> QED BY <3>1, <4>1
    <3> QED BY <3>1, <3>2, <3>3
  <2>6. Start(s, j) = Len(u)
    <3>1. Start(s, j) = Len(t) + 1
      BY <1>4 DEF Start
    <3> HIDE DEF t, u
    <3> QED BY <2>4, <3>1
  <2>7. Len(t) + 1 \in 1 .. Len(u) /\ 1 .. Len(t) \subseteq 1 .. Len(u)
    BY <2>3, <2>4
  <2> HIDE DEF u, t, w
  <2>8. T[j] = u \o w
    BY <2>1 DEF u, t, w
  <2>9. /\ Start(s, j) \in Nat
        /\ Len(t) <= Start(s, j)
        /\ Len(T[j]) = Start(s, j) + Len(w)
        /\ \A x \in 1 .. Len(t) : T[j][x] = t[x]
        /\ \A x \in 1 .. Len(w) : T[j][Start(s, j) + x] = w[x]
        /\ T[j][Start(s, j)] = "."
    BY <2>3, <2>4, <2>5, <2>6, <2>7, <2>8
  <2> QED BY <2>9 DEF t, w
<1> QED BY <1>3, <1>4

(* The text of the first words begins the text of more words. *)
LEMMA TextsBegin ==
  ASSUME NEW s \in Seq(Seq(Char)), NEW j \in 0 .. Len(s), NEW l \in j .. Len(s)
  PROVE  /\ Len(Texts(s)[j]) \in Nat
         /\ Len(Texts(s)[j]) <= Len(Texts(s)[l])
         /\ \A x \in 1 .. Len(Texts(s)[j]) : Texts(s)[l][x] = Texts(s)[j][x]
<1> DEFINE T == Texts(s)
           n == Len(s)
           Begins(i) == /\ Len(T[j]) <= Len(T[i])
                        /\ \A x \in 1 .. Len(T[j]) : T[i][x] = T[j][x]
           P == {i \in 0 .. n : j <= i => Begins(i)}
<1>1. n \in Nat /\ \A i \in 0 .. n : Len(T[i]) \in Nat
  BY TextsSteps
<1>2. P \in SUBSET (0 .. n) /\ 0 \in P
  BY <1>1
<1>3. ASSUME NEW i \in 1 .. n, i - 1 \in P PROVE i \in P
  <2>1. CASE j <= i - 1
    <3>1. Begins(i - 1)
      BY <1>3, <2>1
    <3>2. /\ Start(s, i) \in Nat
          /\ Len(T[i - 1]) <= Start(s, i)
          /\ Len(T[i]) = Start(s, i) + Len(s[i])
          /\ \A x \in 1 .. Len(T[i - 1]) : T[i][x] = T[i - 1][x]
      BY TextsAppend
    <3>3. Len(s[i]) \in Nat /\ i - 1 \in 0 .. n
      OBVIOUS
    <3> HIDE DEF T
    <3>4. Len(T[j]) <= Len(T[i]) /\ 1 .. Len(T[j]) \subseteq 1 .. Len(T[i - 1])
      BY <1>1, <3>1, <3>2, <3>3, SMTT(30)
    <3>5. Begins(i)
      BY <3>1, <3>2, <3>4
    <3> QED BY <3>5
  <2>2. CASE i = j
    BY <2>2, <1>1
  <2>3. CASE i < j
    BY <2>3
  <2> QED BY <2>1, <2>2, <2>3
<1>4. P = 0 .. n
  <2> HIDE DEF P, n
  <2> QED BY <1>1, <1>2, <1>3, Upwards
<1>5. Begins(l)
  <2>1. l \in P
    BY <1>4
  <2> QED BY <2>1
<1> QED BY <1>1, <1>5

(* The text is a text, and the text of the first words begins it. *)
LEMMA TextsPrefix ==
  ASSUME NEW s \in Seq(Seq(Char)), NEW j \in 0 .. Len(s)
  PROVE  /\ Text(s) \in Seq(Char)
         /\ Len(Texts(s)[j]) \in Nat
         /\ Len(Texts(s)[j]) <= Len(Text(s))
         /\ \A x \in 1 .. Len(Texts(s)[j]) : Text(s)[x] = Texts(s)[j][x]
<1>1. Len(s) \in j .. Len(s) /\ Len(s) \in 0 .. Len(s)
  OBVIOUS
<1>2. Texts(s)[Len(s)] \in Seq(Char)
  BY <1>1, TextsSteps
<1> QED BY <1>1, <1>2, TextsBegin DEF Text

(* Each word in the whole text. *)
LEMMA TextWord ==
  ASSUME NEW s \in Seq(Seq(Char)), NEW j \in 1 .. Len(s)
  PROVE  /\ Start(s, j) \in Nat
         /\ Len(Texts(s)[j]) = Start(s, j) + Len(s[j])
         /\ Len(Texts(s)[j]) <= Len(Text(s))
         /\ \A x \in 1 .. Len(s[j]) : Text(s)[Start(s, j) + x] = s[j][x]
         /\ j # 1 => Text(s)[Start(s, j)] = "."
<1> DEFINE T == Texts(s)
<1>1. /\ Len(T[j]) \in Nat
      /\ Len(T[j]) <= Len(Text(s))
      /\ \A x \in 1 .. Len(T[j]) : Text(s)[x] = T[j][x]
  <2>1. j \in 0 .. Len(s)
    OBVIOUS
  <2> QED BY <2>1, TextsPrefix
<1>2. /\ Start(s, j) \in Nat
      /\ Len(T[j]) = Start(s, j) + Len(s[j])
      /\ \A x \in 1 .. Len(s[j]) : T[j][Start(s, j) + x] = s[j][x]
      /\ j # 1 => T[j][Start(s, j)] = "."
  BY TextsAppend
<1>3. Len(s[j]) \in Nat
  OBVIOUS
<1>4. j # 1 => Start(s, j) >= 1
  <2>1. j # 1 => Len(T[j - 1]) \in Nat
    BY TextsPrefix
  <2> QED BY <2>1 DEF Start
<1> HIDE DEF T
<1>5. \A x \in 1 .. Len(s[j]) : Start(s, j) + x \in 1 .. Len(T[j])
  BY <1>2, <1>3
<1>6. j # 1 => Start(s, j) \in 1 .. Len(T[j])
  BY <1>2, <1>3, <1>4
<1> QED BY <1>1, <1>2, <1>5, <1>6 DEF T

-----------------------------------------------------------------------------
(* The client follows the broker, word by word. *)

(* Words without a special character, and what a pattern is made of. *)
Plain == {w \in Seq(Char) : w # << >> /\ ToSet(w) \cap Special = {}}
PatternWord == Plain \cup {Star, Hash}

LEMMA PlainWord ==
  ASSUME NEW w \in Plain
  PROVE  /\ w \in Seq(Char)
         /\ Len(w) \in Nat \ {0}
         /\ \A x \in 1 .. Len(w) : w[x] \notin {".", "*", "#"}
<1>1. w \in Seq(Char) /\ w # << >>
  BY DEF Plain
<1>2. \A x \in 1 .. Len(w) : w[x] \in ToSet(w)
  BY <1>1 DEF ToSet
<1>3. \A x \in ToSet(w) : x \notin {".", "*", "#"}
  BY DEF Plain, Special
<1> QED BY <1>1, <1>2, <1>3

LEMMA PatternWordTexts ==
  Star \in Seq(Char) /\ Hash \in Seq(Char) /\ PatternWord \subseteq Seq(Char)
<1>1. "*" \in Char /\ "#" \in Char
  BY DEF Char
<1>2. Star \in Seq(Char) /\ Hash \in Seq(Char)
  BY <1>1 DEF Star, Hash
<1> QED BY <1>2 DEF PatternWord, Plain

(* One character of the pattern. *)
LEMMA CharacterStep ==
  ASSUME NEW P \in Seq(Char), NEW K \in Seq(Char), NEW i \in 1 .. Len(P),
         NEW h \in Ends(P, K)[i - 1], h \in Nat, NEW j \in h .. Len(K),
         Repeats(P[i], j - h), \A x \in (h + 1) .. j : Allows(P[i], K[x])
  PROVE  j \in Ends(P, K)[i]
<1>1. j \in After(P[i], K, h)
  BY DEF After
<1> QED BY <1>1, EndsSteps

(* The characters of a word that stands for itself. *)
LEMMA LiteralStep ==
  ASSUME NEW P \in Seq(Char), NEW K \in Seq(Char), NEW w \in Plain,
         NEW a \in Nat, NEW b \in Ends(P, K)[a], b \in Nat,
         a + Len(w) <= Len(P), b + Len(w) <= Len(K),
         \A x \in 1 .. Len(w) : P[a + x] = w[x] /\ K[b + x] = w[x]
  PROVE  b + Len(w) \in Ends(P, K)[a + Len(w)]
<1> DEFINE n == Len(w)
           T == {c \in 0 .. n : b + c \in Ends(P, K)[a + c]}
<1>1. n \in Nat /\ \A x \in 1 .. n : w[x] \notin {".", "*", "#"}
  BY PlainWord
<1>2. T \in SUBSET (0 .. n) /\ 0 \in T
  BY <1>1
<1>3. ASSUME NEW c \in 1 .. n, c - 1 \in T PROVE c \in T
  <2>1. /\ a + c \in 1 .. Len(P)
        /\ b + (c - 1) \in Nat
        /\ b + c \in (b + (c - 1)) .. Len(K)
        /\ (b + c) - (b + (c - 1)) = 1
        /\ ((b + (c - 1)) + 1) .. (b + c) = {b + c}
        /\ (a + c) - 1 = a + (c - 1)
    BY <1>1
  <2>2. b + (c - 1) \in Ends(P, K)[(a + c) - 1]
    BY <1>3, <2>1
  <2>3. P[a + c] = w[c] /\ K[b + c] = w[c] /\ w[c] \notin {".", "*", "#"}
    BY <1>1
  <2>4. Repeats(P[a + c], 1) /\ Allows(P[a + c], K[b + c])
    BY <2>3 DEF Repeats, Allows
  <2>5. b + c \in Ends(P, K)[a + c]
    <3> HIDE DEF T, n
    <3> QED BY <2>1, <2>2, <2>4, CharacterStep
  <2> QED BY <2>5
<1>4. T = 0 .. n
  <2> HIDE DEF T, n
  <2> QED BY <1>1, <1>2, <1>3, Upwards
<1>5. n \in T
  BY <1>1, <1>4, SMTT(30)
<1> QED BY <1>5

(* One word of the pattern, from the end of word h of the key: behind the   *)
(* first word, the dot of the pattern takes the dot of the key.             *)
LEMMA WordStep ==
  ASSUME NEW p \in Seq(PatternWord), NEW k \in Seq(Plain), NEW i \in 1 .. Len(p),
         NEW h \in 0 .. Len(k), i = 1 <=> h = 0,
         Len(Texts(k)[h]) \in Ends(Text(p), Text(k))[Len(Texts(p)[i - 1])],
         NEW j \in WordsAfter(p[i], k, h, 1)
  PROVE  /\ j \in 1 .. Len(k)
         /\ Len(Texts(k)[j]) \in Ends(Text(p), Text(k))[Len(Texts(p)[i])]
<1> DEFINE P == Text(p)
           K == Text(k)
           a == Start(p, i)
           b == Start(k, h + 1)
           E == Ends(P, K)
<1>1. p \in Seq(Seq(Char)) /\ k \in Seq(Seq(Char)) /\ Len(p) \in Nat /\ Len(k) \in Nat
  BY PatternWordTexts, PlainWord, SMTT(30)
<1>2. P \in Seq(Char) /\ K \in Seq(Char)
  <2>1. 0 \in 0 .. Len(p) /\ 0 \in 0 .. Len(k)
    BY <1>1
  <2> QED BY <1>1, <2>1, TextsPrefix
<1>3. j \in (h + 1) .. Len(k) /\ h + 1 \in 1 .. Len(k) /\ j \in 1 .. Len(k)
  <2>1. j \in h .. Len(k) /\ (j >= h + 1 \/ j = h + 1)
    BY DEF WordsAfter
  <2> QED BY <1>1, <2>1
<1>4. /\ a \in Nat
      /\ Len(Texts(p)[i]) = a + Len(p[i])
      /\ Len(Texts(p)[i]) <= Len(P)
      /\ \A x \in 1 .. Len(p[i]) : P[a + x] = p[i][x]
      /\ i # 1 => P[a] = "."
  BY <1>1, TextWord
<1>5. /\ b \in Nat
      /\ Len(Texts(k)[h + 1]) = b + Len(k[h + 1])
      /\ Len(Texts(k)[h + 1]) <= Len(K)
      /\ \A x \in 1 .. Len(k[h + 1]) : K[b + x] = k[h + 1][x]
  BY <1>1, <1>3, TextWord
<1>6. k[h + 1] \in Plain /\ p[i] \in PatternWord
  BY <1>3
<1>7. /\ Len(k[h + 1]) \in Nat \ {0}
      /\ \A x \in 1 .. Len(k[h + 1]) : k[h + 1][x] \notin {".", "*", "#"}
  BY <1>6, PlainWord
<1>8. Len(P) \in Nat /\ Len(K) \in Nat /\ Len(p[i]) \in Nat
  BY <1>2, <1>6, PatternWordTexts
<1>9. b \in E[a]
  <2>1. CASE i = 1
    <3>1. a = 0 /\ h = 0 /\ h + 1 = 1 /\ i - 1 = 0
      BY <2>1 DEF Start
    <3>2. b = 0
      BY <3>1 DEF Start
    <3>3. Texts(p)[0] = << >> /\ Texts(k)[0] = << >>
      BY <1>1, TextsSteps
    <3>4. 0 \in E[0]
      BY <3>1, <3>3
    <3> QED BY <3>1, <3>2, <3>4
  <2>2. CASE i # 1
    <3>1. /\ a = Len(Texts(p)[i - 1]) + 1
          /\ b = Len(Texts(k)[h]) + 1
      BY <2>2, <1>3 DEF Start
    <3>2. Len(Texts(p)[i - 1]) \in Nat /\ Len(Texts(k)[h]) \in Nat
      BY <1>1, TextsPrefix
    <3>3. a \in 1 .. Len(P) /\ b - 1 \in Nat /\ b \in (b - 1) .. Len(K) /\ b - (b - 1) = 1
      <4> HIDE DEF P, K, a, b
      <4>1. a + Len(p[i]) <= Len(P) /\ b + Len(k[h + 1]) <= Len(K)
        BY <1>4, <1>5
      <4>2. a >= 1 /\ b >= 1
        BY <3>1, <3>2
      <4>3. a \in Nat /\ b \in Nat /\ Len(p[i]) \in Nat /\ Len(k[h + 1]) \in Nat
        BY <1>4, <1>5, <1>7, <1>8
      <4>4. a <= Len(P) /\ b <= Len(K)
        BY <1>8, <4>1, <4>3, SMTT(30)
      <4> QED BY <1>8, <4>2, <4>3, <4>4
    <3>4. b - 1 \in E[a - 1]
      BY <3>1, <3>2
    <3>5. Repeats(P[a], b - (b - 1)) /\ \A x \in ((b - 1) + 1) .. b : Allows(P[a], K[x])
      BY <2>2, <1>4, <3>3 DEF Repeats, Allows
    <3> HIDE DEF P, K, a, b
    <3> QED BY <1>2, <3>3, <3>4, <3>5, CharacterStep
  <2> QED BY <2>1, <2>2
<1>10. CASE p[i] = Hash
  <2>1. Len(p[i]) = 1 /\ p[i][1] = "#"
    BY <1>10 DEF Hash
  <2>2. P[a + 1] = "#" /\ a + 1 \in 1 .. Len(P) /\ (a + 1) - 1 = a
    BY <2>1, <1>4, <1>8
  <2>3. Len(Texts(k)[j]) \in b .. Len(K)
    <3>1. /\ Start(k, j) \in Nat
          /\ Len(Texts(k)[j]) = Start(k, j) + Len(k[j])
          /\ Len(Texts(k)[j]) <= Len(K)
      BY <1>1, <1>3, TextWord
    <3>2. b <= Len(Texts(k)[j])
      <4>1. CASE j = h + 1
        BY <4>1, <1>5, <1>7
      <4>2. CASE j # h + 1
        <5>1. Len(Texts(k)[h + 1]) <= Len(Texts(k)[j])
          <6>1. h + 1 \in 0 .. Len(k) /\ j \in (h + 1) .. Len(k)
            BY <1>3
          <6> QED BY <1>1, <6>1, TextsBegin
        <5> QED BY <5>1, <1>5, <1>7, SMTT(30)
      <4> QED BY <4>1, <4>2
    <3>3. Len(k[j]) \in Nat
      BY <1>1, <1>3, SMTT(30)
    <3> QED BY <1>5, <1>8, <3>1, <3>2, <3>3
  <2>4. Len(Texts(k)[j]) \in E[a + 1]
    <3>1. /\ Repeats(P[a + 1], Len(Texts(k)[j]) - b)
          /\ \A x \in (b + 1) .. Len(Texts(k)[j]) : Allows(P[a + 1], K[x])
      BY <2>2 DEF Repeats, Allows
    <3> HIDE DEF P, K, a, b
    <3> QED BY <1>2, <1>5, <1>9, <2>2, <2>3, <3>1, CharacterStep
  <2> QED BY <1>3, <1>4, <2>1, <2>4
<1>11. CASE p[i] = Star
  <2>1. Len(p[i]) = 1 /\ p[i][1] = "*"
    BY <1>11 DEF Star
  <2>2. P[a + 1] = "*" /\ a + 1 \in 1 .. Len(P) /\ (a + 1) - 1 = a
    BY <2>1, <1>4, <1>8
  <2>3. j = h + 1
    BY <1>11 DEF WordsAfter, Star, Hash
  <2>4. b + Len(k[h + 1]) \in b .. Len(K) /\ (b + Len(k[h + 1])) - b >= 1
    BY <1>5, <1>7, <1>8, SMTT(30)
  <2>5. ASSUME NEW x \in (b + 1) .. (b + Len(k[h + 1])) PROVE Allows(P[a + 1], K[x])
    <3>1. x - b \in 1 .. Len(k[h + 1]) /\ b + (x - b) = x
      <4> HIDE DEF b
      <4> QED BY <1>5, <1>7, SMTT(30)
    <3>2. K[x] # "."
      BY <1>5, <1>7, <3>1
    <3> QED BY <2>2, <3>2 DEF Allows
  <2>6. b + Len(k[h + 1]) \in E[a + 1]
    <3>1. Repeats(P[a + 1], (b + Len(k[h + 1])) - b)
      BY <2>2, <2>4 DEF Repeats
    <3> HIDE DEF P, K, a, b
    <3> QED BY <1>2, <1>5, <1>9, <2>2, <2>4, <2>5, <3>1, CharacterStep
  <2> QED BY <1>3, <1>4, <1>5, <2>1, <2>3, <2>6
<1>12. CASE p[i] \in Plain
  <2>1. p[i] # Hash /\ p[i] # Star
    BY <1>12, PlainWord DEF Hash, Star
  <2>2. j = h + 1 /\ k[h + 1] = p[i]
    BY <2>1 DEF WordsAfter
  <2>3. /\ a + Len(p[i]) <= Len(P)
        /\ b + Len(p[i]) <= Len(K)
        /\ \A x \in 1 .. Len(p[i]) : P[a + x] = p[i][x] /\ K[b + x] = p[i][x]
    BY <1>4, <1>5, <2>2
  <2>4. b + Len(p[i]) \in E[a + Len(p[i])]
    <3> HIDE DEF P, K, a, b
    <3> QED BY <1>2, <1>4, <1>5, <1>9, <1>12, <2>3, LiteralStep
  <2> QED BY <1>3, <1>4, <1>5, <2>2, <2>4
<1> QED BY <1>6, <1>10, <1>11, <1>12 DEF PatternWord

(* What the broker matches on words, the client matches on characters: any  *)
(* words, a pattern and a key of any length, with at least one word for "#".*)
THEOREM RoutedTextIsMatched ==
  ASSUME NEW p \in Seq(PatternWord), NEW k \in Seq(Plain), TopicMatch(p, k, 1)
  PROVE  MatchRoutingKey(Text(p), Text(k))
<1> DEFINE n == Len(p)
           W == WordEnds(p, k, 1)
           E == Ends(Text(p), Text(k))
           Follows(i, j) == /\ j \in 0 .. Len(k)
                            /\ i = 0 <=> j = 0
                            /\ Len(Texts(k)[j]) \in E[Len(Texts(p)[i])]
           T == {i \in 0 .. n : \A j \in W[i] : Follows(i, j)}
<1>1. p \in Seq(Seq(Char)) /\ k \in Seq(Seq(Char)) /\ n \in Nat /\ Len(k) \in Nat
  BY PatternWordTexts, PlainWord
<1>2. T \in SUBSET (0 .. n) /\ 0 \in T
  <2>1. W[0] = {0}
    BY <1>1, WordEndsSteps
  <2>2. Texts(p)[0] = << >> /\ Texts(k)[0] = << >>
    BY <1>1, TextsSteps
  <2>3. Text(p) \in Seq(Char) /\ Text(k) \in Seq(Char)
    <3>1. 0 \in 0 .. Len(p) /\ 0 \in 0 .. Len(k)
      BY <1>1
    <3> QED BY <1>1, <3>1, TextsPrefix
  <2>4. 0 \in E[0]
    BY <2>3, EndsSteps
  <2>5. Follows(0, 0)
    BY <1>1, <2>2, <2>4
  <2>6. \A j \in W[0] : Follows(0, j)
    <3> HIDE DEF Follows, W
    <3> QED BY <2>1, <2>5
  <2> QED BY <1>1, <2>6
<1>3. ASSUME NEW i \in 1 .. n, i - 1 \in T PROVE i \in T
  <2>1. ASSUME NEW j \in W[i] PROVE Follows(i, j)
    <3>1. PICK h \in W[i - 1] : j \in WordsAfter(p[i], k, h, 1)
      BY <1>1, WordEndsSteps
    <3>2. Follows(i - 1, h)
      BY <1>3, <3>1
    <3>3. h \in 0 .. Len(k) /\ (i = 1 <=> h = 0)
      BY <3>2
    <3>4. /\ j \in 1 .. Len(k)
          /\ Len(Texts(k)[j]) \in E[Len(Texts(p)[i])]
      BY <3>1, <3>2, <3>3, WordStep
    <3> QED BY <1>1, <3>4
  <2> QED BY <2>1
<1>4. T = 0 .. n
  <2> HIDE DEF T, n
  <2> QED BY <1>1, <1>2, <1>3, Upwards
<1>5. Len(k) \in W[n]
  BY DEF TopicMatch
<1>6. Follows(n, Len(k))
  <2> HIDE DEF Follows, W
  <2>1. n \in T
    BY <1>1, <1>4
  <2> QED BY <1>5, <2>1
<1> QED BY <1>6 DEF MatchRoutingKey, Text

-----------------------------------------------------------------------------
(* The specification. *)

(* A pattern and a key grow by a word at a time. *)
TypeInv == pattern \in Seq(PatternWord) /\ key \in Seq(Plain)

LEMMA WordsArePlain == KeyWords \subseteq Plain /\ PatternWords \subseteq PatternWord
<1>1. ASSUME NEW w \in KeyWords PROVE w \in Plain
  <2>1. w \in Seq(STRING) /\ w # << >> /\ ToSet(w) \cap Special = {}
    BY RoutingAssumption
  <2>2. w \in Seq(Char)
    BY <2>1 DEF Char
  <2> QED BY <2>1, <2>2 DEF Plain
<1> QED BY <1>1 DEF PatternWords, PatternWord

LEMMA TypeInvariant == Spec => []TypeInv
<1>1. ASSUME Init PROVE TypeInv
  <2>1. PICK w \in PatternWords : pattern = <<w>>
    BY <1>1 DEF Init
  <2>2. PICK v \in KeyWords : key = <<v>>
    BY <1>1 DEF Init
  <2>3. w \in PatternWord /\ v \in Plain
    BY WordsArePlain
  <2> QED BY <2>1, <2>2, <2>3 DEF TypeInv
<1>2. TypeInv /\ [Next]_vars => TypeInv'
  <2> SUFFICES ASSUME TypeInv, [Next]_vars PROVE TypeInv'
    OBVIOUS
  <2>1. ASSUME NEW w \in PatternWords, pattern' = Append(pattern, w), UNCHANGED key
        PROVE  TypeInv'
    BY <2>1, WordsArePlain DEF TypeInv
  <2>2. ASSUME NEW w \in KeyWords, key' = Append(key, w), UNCHANGED pattern
        PROVE  TypeInv'
    BY <2>2, WordsArePlain DEF TypeInv
  <2>3. CASE UNCHANGED vars
    BY <2>3 DEF vars, TypeInv
  <2> QED BY <2>1, <2>2, <2>3 DEF Next
<1> QED BY <1>1, <1>2, PTL DEF Spec

(* A message that the broker routes because of a pattern meets the callback *)
(* of that pattern, unless a "#" has to stand for no word: whatever the     *)
(* words are, however long the pattern and the key.                         *)
THEOREM RoutedIsMatchedHolds == Spec => []RoutedIsMatched
<1>1. TypeInv => RoutedIsMatched
  BY RoutedTextIsMatched DEF TypeInv, RoutedIsMatched, Client
<1> QED BY <1>1, TypeInvariant, PTL
=============================================================================
