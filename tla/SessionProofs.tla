---------------------------- MODULE SessionProofs ----------------------------
(***************************************************************************)
(* Requests and paths of every length are taken apart as they were put     *)
(* together, and what a session does to the file is what FileEdit says.    *)
(*                                                                         *)
(* The recursive functions of Requests and Session exist and are computed  *)
(* by induction.  The induction is that every set of numbers that is not   *)
(* empty has a least element (WFMin).                                      *)
(***************************************************************************)
EXTENDS Session, FileEditProofs, FiniteSetTheorems, SequenceTheorems,
        WellFoundedInduction

LEMMA NatOrder == IsWellFoundedOn({s \in Nat \X Nat : s[1] < s[2]}, Nat)
BY NatLessThanWellFounded, Zenon DEF OpToRel

LEMMA LeastNumber ==
    ASSUME NEW T, T \subseteq Nat, T # {}
    PROVE  \E x \in T : \A y \in T : x <= y
<1> DEFINE R == {s \in Nat \X Nat : s[1] < s[2]}
<1>1. PICK x \in T : \A y \in T : <<y, x>> \notin R
  BY WFMin, NatOrder
<1>2. ASSUME NEW y \in T PROVE x <= y
  <2>1. x \in Nat /\ y \in Nat /\ <<y, x>> \notin R
    BY <1>1
  <2>2. <<y, x>> \in Nat \X Nat /\ ~(y < x)
    BY <2>1
  <2> QED
    BY <2>1, <2>2
<1> QED
  BY <1>2

LEMMA Induction ==
    ASSUME NEW A, 0 \in A, \A n \in Nat : n \in A => n + 1 \in A
    PROVE  Nat \subseteq A
<1>1. SUFFICES ASSUME Nat \ A # {} PROVE FALSE
  OBVIOUS
<1>2. PICK x \in Nat \ A : \A y \in Nat \ A : x <= y
  BY <1>1, LeastNumber
<1>3. x # 0 /\ x - 1 \in Nat /\ x - 1 \in A
  BY <1>2
<1> QED
  BY <1>2, <1>3

(* A function that goes from each number to the next.                      *)
Steps(g, n, c, F) == g[0] = c /\ \A k \in 1 .. n : g[k] = F[<<k, g[k - 1]>>]

LEMMA StepByStep ==
    ASSUME NEW n \in Nat, NEW S, NEW c \in S, NEW F \in [(1 .. n) \X S -> S]
    PROVE  \E g \in [0 .. n -> S] : Steps(g, n, c, F)
<1> DEFINE Good(g, e) == /\ g \in [0 .. e -> S] /\ g[0] = c
                         /\ \A k \in 1 .. e : g[k] = F[<<k, g[k - 1]>>]
           A == {e \in Nat : e <= n => \E g : Good(g, e)}
<1>1. 0 \in A
  <2>1. Good([k \in 0 .. 0 |-> c], 0)
    OBVIOUS
  <2> QED
    BY <2>1
<1>2. ASSUME NEW e \in Nat, e \in A PROVE e + 1 \in A
  <2>1. SUFFICES ASSUME e + 1 <= n PROVE \E g : Good(g, e + 1)
    OBVIOUS
  <2>2. PICK g : Good(g, e)
    BY <1>2, <2>1
  <2> DEFINE h == [k \in 0 .. e + 1 |-> IF k <= e THEN g[k] ELSE F[<<k, g[e]>>]]
  <2>3. g[e] \in S /\ <<e + 1, g[e]>> \in (1 .. n) \X S
    BY <2>1, <2>2
  <2>4. F[<<e + 1, g[e]>>] \in S
    BY <2>3
  <2>5. h \in [0 .. e + 1 -> S] /\ h[0] = c
    BY <2>2, <2>4
  <2>6. \A k \in 1 .. e + 1 : h[k] = F[<<k, h[k - 1]>>]
    <3> TAKE k \in 1 .. e + 1
    <3>1. CASE k <= e
      BY <2>2, <3>1
    <3>2. CASE k = e + 1
      BY <3>2
    <3> QED
      BY <3>1, <3>2
  <2>7. Good(h, e + 1)
    BY <2>5, <2>6
  <2> QED
    BY <2>7
<1>3. Nat \subseteq A
  <2> HIDE DEF A
  <2> QED
    BY <1>1, <1>2, Induction
<1> QED
  BY <1>3 DEF Steps

-----------------------------------------------------------------------------
(* The end of a part is the first stop.                                    *)
IsEnd(s, i, stops, e) ==
    /\ e \in i .. Len(s) + 1
    /\ e = Len(s) + 1 \/ s[e] \in stops
    /\ \A j \in i .. e - 1 : s[j] \notin stops

LEMMA EndIs ==
    ASSUME NEW s, Len(s) \in Nat, NEW i \in 1 .. Len(s) + 1, NEW stops
    PROVE  IsEnd(s, i, stops, End(s, i, stops))
<1> DEFINE T == {e \in i .. Len(s) + 1 : e = Len(s) + 1 \/ s[e] \in stops}
<1>1. Len(s) + 1 \in T /\ T \subseteq Nat
  OBVIOUS
<1>2. PICK e \in T : \A y \in T : e <= y
  BY <1>1, LeastNumber
<1>3. \A j \in i .. e - 1 : s[j] \notin stops
  BY <1>2
<1>4. \E x \in i .. Len(s) + 1 :
        /\ x = Len(s) + 1 \/ s[x] \in stops
        /\ \A j \in i .. x - 1 : s[j] \notin stops
  BY <1>2, <1>3
<1> QED
  BY <1>4 DEF End, IsEnd

LEMMA EndUnique ==
    ASSUME NEW s, Len(s) \in Nat, NEW i \in 1 .. Len(s) + 1, NEW stops, NEW e,
           IsEnd(s, i, stops, e)
    PROVE  End(s, i, stops) = e
<1> DEFINE d == End(s, i, stops)
<1>1. IsEnd(s, i, stops, d)
  BY EndIs
<1> HIDE DEF d
<1>2. d \in Int /\ e \in Int /\ i <= d /\ i <= e /\ d <= Len(s) + 1 /\ e <= Len(s) + 1
  BY <1>1 DEF IsEnd
<1>3. ~(d < e)
  BY <1>1, <1>2 DEF IsEnd
<1>4. ~(e < d)
  BY <1>1, <1>2 DEF IsEnd
<1> QED
  BY <1>2, <1>3, <1>4 DEF d
-----------------------------------------------------------------------------
(* The recursive functions exist.                                          *)
Grows(g, words, between) ==
    /\ g[1] = words[1]
    /\ \A k \in 2 .. Len(words) : g[k] = g[k - 1] \o between \o words[k]

LEMMA JoinedDef ==
    ASSUME NEW S, NEW words \in Seq(Seq(S)), words # <<>>, NEW between \in Seq(S)
    PROVE  \E g \in [1 .. Len(words) -> Seq(S)] :
              Joined(words, between) = g[Len(words)] /\ Grows(g, words, between)
<1> DEFINE n == Len(words)
           Longer(v, k) == v \o between \o words[k]
           F == [kv \in (1 .. n - 1) \X Seq(S) |-> Longer(kv[2], kv[1] + 1)]
           Rec(g) == g = [k \in 1 .. n |->
                            IF k = 1 THEN words[1] ELSE Longer(g[k - 1], k)]
<1>1. n \in Nat /\ n >= 1 /\ \A k \in 1 .. n : words[k] \in Seq(S)
  OBVIOUS
<1> HIDE DEF n
<1>2. Joined(words, between) = (CHOOSE g : Rec(g))[n]
  BY Zenon DEF Joined, n
<1>3. \A v \in Seq(S), k \in 1 .. n : Longer(v, k) \in Seq(S)
  <2> TAKE v \in Seq(S), k \in 1 .. n
  <2>1. words[k] \in Seq(S)
    BY <1>1
  <2>2. v \o between \in Seq(S)
    BY ConcatProperties
  <2> QED
    BY <2>1, <2>2, ConcatProperties
<1>4. words[1] \in Seq(S)
  BY <1>1
<1> HIDE DEF Longer
<1>5. F \in [(1 .. n - 1) \X Seq(S) -> Seq(S)]
  BY <1>1, <1>3
<1>6. PICK h \in [0 .. n - 1 -> Seq(S)] :
          Steps(h, n - 1, words[1], F)
  <2> HIDE DEF F
  <2>1. n - 1 \in Nat
    BY <1>1
  <2> QED
    BY <1>4, <1>5, <2>1, StepByStep
<1>7. \A k \in 1 .. n - 1 : h[k] = Longer(h[k - 1], k + 1)
  <2> TAKE k \in 1 .. n - 1
  <2>1. h[k - 1] \in Seq(S) /\ <<k, h[k - 1]>> \in (1 .. n - 1) \X Seq(S)
    BY <1>1, <1>6
  <2> QED
    BY <1>6, <2>1 DEF Steps
<1>8. Rec([k \in 1 .. n |-> h[k - 1]])
  <2> HIDE DEF F
  <2> QED
    BY <1>1, <1>6, <1>7 DEF Steps
<1> DEFINE f == CHOOSE g : Rec(g)
<1>9. Rec(f)
  <2> HIDE DEF Rec
  <2> QED
    BY <1>8
<1>10. Joined(words, between) = f[n]
  BY <1>2
<1> HIDE DEF f, F
<1>11. f[1] = words[1] /\ \A k \in 2 .. n : f[k] = Longer(f[k - 1], k)
  BY <1>1, <1>9
<1> DEFINE A == {k \in Nat : k + 1 <= n => f[k + 1] \in Seq(S)}
<1>12. 0 \in A
  BY <1>4, <1>11
<1>13. ASSUME NEW k \in Nat, k \in A PROVE k + 1 \in A
  <2>1. SUFFICES ASSUME k + 2 <= n PROVE f[k + 2] \in Seq(S)
    OBVIOUS
  <2>2. f[k + 1] \in Seq(S) /\ k + 2 \in 2 .. n /\ k + 2 \in 1 .. n
    BY <1>1, <1>13, <2>1
  <2>3. f[k + 2] = Longer(f[k + 1], k + 2)
    BY <1>11, <2>2
  <2> QED
    BY <1>3, <2>2, <2>3
<1>14. Nat \subseteq A
  <2> HIDE DEF A
  <2> QED
    BY <1>12, <1>13, Induction
<1>15. \A k \in 1 .. n : f[k] \in Seq(S)
  <2> TAKE k \in 1 .. n
  <2>1. k - 1 \in Nat /\ (k - 1) + 1 = k /\ k <= n
    BY <1>1
  <2>2. k - 1 \in A
    <3> HIDE DEF A
    <3> QED
      BY <1>14, <2>1
  <2>3. (k - 1) + 1 <= n => f[(k - 1) + 1] \in Seq(S)
    BY <2>2
  <2> QED
    BY <2>1, <2>3
<1>16. f \in [1 .. n -> Seq(S)]
  BY <1>9, <1>15
<1>17. Grows(f, words, between)
  BY <1>11 DEF Grows, Longer, n
<1> QED
  BY <1>10, <1>16, <1>17 DEF n

LEMMA NumberIsNat ==
    ASSUME NEW text \in Seq(Char)
    PROVE  Number(text) \in Nat
<1> DEFINE stops == (Char \cup {NUL}) \ DOMAIN Digit
           d == End(text, 1, stops) - 1
           F == [kv \in (1 .. d) \X Nat |-> 10 * kv[2] + Digit[text[kv[1]]]]
           Rec(g) == g = [k \in 0 .. d |->
                            IF k = 0 THEN 0 ELSE 10 * g[k - 1] + Digit[text[k]]]
<1>1. IsEnd(text, 1, stops, d + 1)
  <2>1. Len(text) \in Nat
    OBVIOUS
  <2>2. IsEnd(text, 1, stops, End(text, 1, stops))
    <3> HIDE DEF stops
    <3> QED
      BY <2>1, EndIs
  <2>3. End(text, 1, stops) \in Int
    BY <2>1, <2>2 DEF IsEnd
  <2>4. d + 1 = End(text, 1, stops)
    BY <2>3
  <2> QED
    BY <2>2, <2>4
<1>2. d \in Nat /\ d <= Len(text)
  <2> HIDE DEF d
  <2>1. d + 1 \in 1 .. Len(text) + 1
    BY <1>1 DEF IsEnd
  <2> QED
    <3> USE DEF d
    <3>1. End(text, 1, stops) \in 1 .. Len(text) + 1
      BY EndIs DEF IsEnd
    <3> QED
      BY <3>1
<1>3. \A k \in 1 .. d : text[k] \notin stops
  <2> HIDE DEF d, stops
  <2> QED
    BY <1>1, <1>2 DEF IsEnd
<1>4. \A k \in 1 .. d : Digit[text[k]] \in Nat
  <2> TAKE k \in 1 .. d
  <2>1. text[k] \in Char
    <3> HIDE DEF d
    <3> QED
      BY <1>2
  <2>2. text[k] \in DOMAIN Digit
    BY <1>3, <2>1
  <2> QED
    BY <2>2, SessionAssumption
<1>5. Number(text) = (CHOOSE g : Rec(g))[d]
  BY Zenon DEF Number
<1> HIDE DEF d
<1>6. F \in [(1 .. d) \X Nat -> Nat]
  <2>1. \A kv \in (1 .. d) \X Nat : 10 * kv[2] + Digit[text[kv[1]]] \in Nat
    BY <1>2, <1>4
  <2> QED
    BY <2>1
<1>7. PICK h \in [0 .. d -> Nat] :
          Steps(h, d, 0, F)
  <2> HIDE DEF F
  <2> QED
    BY <1>2, <1>6, StepByStep
<1>8. \A k \in 1 .. d : h[k] = 10 * h[k - 1] + Digit[text[k]]
  <2> TAKE k \in 1 .. d
  <2>1. h[k - 1] \in Nat /\ <<k, h[k - 1]>> \in (1 .. d) \X Nat
    BY <1>2, <1>7
  <2> QED
    BY <1>7, <2>1 DEF Steps
<1>9. Rec(h)
  BY <1>2, <1>7, <1>8 DEF Steps
<1>10. Rec(CHOOSE g : Rec(g))
  <2> HIDE DEF Rec
  <2> QED
    BY <1>9
<1> DEFINE f == CHOOSE g : Rec(g)
<1>11. Rec(f) /\ Number(text) = f[d]
  BY <1>5, <1>10
<1> HIDE DEF f
<1>12. f[0] = 0 /\ \A k \in 1 .. d : f[k] = 10 * f[k - 1] + Digit[text[k]]
  BY <1>2, <1>11
<1> DEFINE A == {k \in Nat : k <= d => f[k] \in Nat}
<1>13. 0 \in A
  BY <1>12
<1>14. ASSUME NEW k \in Nat, k \in A PROVE k + 1 \in A
  <2>1. SUFFICES ASSUME k + 1 <= d PROVE f[k + 1] \in Nat
    OBVIOUS
  <2>2. f[k] \in Nat /\ Digit[text[k + 1]] \in Nat /\ k + 1 \in 1 .. d
    BY <1>2, <1>4, <1>14, <2>1
  <2>3. f[k + 1] = 10 * f[k] + Digit[text[k + 1]]
    BY <1>12, <2>2
  <2> QED
    BY <2>2, <2>3
<1>15. Nat \subseteq A
  <2> HIDE DEF A
  <2> QED
    BY <1>13, <1>14, Induction
<1> QED
  BY <1>2, <1>11, <1>15

LEMMA FieldsDef ==
    ASSUME NEW path, Len(path) \in Nat
    PROVE  \E g : /\ Fields(path) = g[1]
                  /\ \A i \in 1 .. Len(path) + 2 :
                       g[i] = IF i > Len(path) THEN <<>>
                              ELSE <<Field(path, i)>> \o g[End(path, i, {"/"}) + 1]
<1> DEFINE L == Len(path)
           Value(g, i) == IF i > L THEN <<>>
                          ELSE <<Field(path, i)>> \o g[End(path, i, {"/"}) + 1]
           Good(g, d) == /\ g = [i \in d .. L + 2 |-> g[i]]
                         /\ \A i \in d .. L + 2 : g[i] = Value(g, i)
           Rec(g) == g = [i \in 1 .. L + 2 |-> Value(g, i)]
           A == {j \in Nat : j <= L + 1 => \E g : Good(g, L + 2 - j)}
<1>1. \A i \in 1 .. L : End(path, i, {"/"}) + 1 \in i + 1 .. L + 2
  <2> TAKE i \in 1 .. L
  <2>1. IsEnd(path, i, {"/"}, End(path, i, {"/"}))
    BY EndIs
  <2> QED
    BY <2>1 DEF IsEnd
<1>2. 0 \in A
  <2> DEFINE g == [i \in L + 2 .. L + 2 |-> <<>>]
  <2>1. Good(g, L + 2)
    OBVIOUS
  <2>2. L + 2 - 0 = L + 2
    OBVIOUS
  <2> QED
    BY <2>1, <2>2
<1>3. ASSUME NEW j \in Nat, j \in A PROVE j + 1 \in A
  <2>1. SUFFICES ASSUME j + 1 <= L + 1 PROVE \E g : Good(g, L + 2 - (j + 1))
    OBVIOUS
  <2> DEFINE d == L + 2 - (j + 1)
  <2>2. d \in Nat /\ 1 <= d /\ d <= L + 1 /\ d + 1 = L + 2 - j
    BY <2>1
  <2>3. PICK g : Good(g, d + 1)
    BY <1>3, <2>1, <2>2
  <2> DEFINE h == [i \in d .. L + 2 |-> IF i = d THEN Value(g, d) ELSE g[i]]
  <2> HIDE DEF d, L
  <2>4. L \in Nat
    BY DEF L
  <2>5. \A i \in d .. L + 2 : h[i] = Value(h, i)
    <3> TAKE i \in d .. L + 2
    <3>1. CASE i > L
      <4>1. i # d \/ Value(g, d) = <<>>
        BY <2>2, <2>4, <3>1
      <4>2. i = d \/ i \in d + 1 .. L + 2
        BY <2>2, <2>4
      <4>3. i = d \/ g[i] = <<>>
        BY <2>3, <3>1, <4>2
      <4> QED
        BY <3>1, <4>1, <4>3
    <3>2. CASE i <= L
      <4> DEFINE e == End(path, i, {"/"}) + 1
      <4>1. e \in d + 1 .. L + 2 /\ e # d
        <5>1. i \in 1 .. L
          BY <2>2, <2>4, <3>2
        <5>2. e \in i + 1 .. L + 2
          BY <1>1, <5>1 DEF L
        <5> HIDE DEF e
        <5> QED
          BY <2>2, <2>4, <5>2
      <4> HIDE DEF e
      <4>2. h[e] = g[e]
        <5>1. e \in d .. L + 2
          BY <2>2, <2>4, <4>1
        <5> HIDE DEF Value
        <5> QED
          BY <4>1, <5>1
      <4> HIDE DEF h
      <4>3. Value(h, i) = <<Field(path, i)>> \o g[e]
        BY <2>2, <2>4, <3>2, <4>2 DEF e
      <4>4. h[i] = Value(g, i)
        <5> USE DEF h
        <5>1. CASE i = d
          BY <5>1
        <5>2. CASE i # d
          <6>1. i \in d + 1 .. L + 2 /\ h[i] = g[i]
            BY <2>2, <2>4, <5>2
          <6> QED
            BY <2>3, <6>1
        <5> QED
          BY <5>1, <5>2
      <4>5. Value(g, i) = <<Field(path, i)>> \o g[e]
        BY <2>2, <2>4, <3>2 DEF e
      <4> QED
        BY <4>3, <4>4, <4>5
    <3> QED
      BY <2>2, <2>4, <3>1, <3>2
  <2>6. h = [i \in d .. L + 2 |-> h[i]]
    OBVIOUS
  <2>7. Good(h, d)
    <3> HIDE DEF h
    <3> QED
      BY <2>5, <2>6
  <2> QED
    BY <2>7 DEF d
<1>4. Nat \subseteq A
  <2> HIDE DEF A
  <2> QED
    BY <1>2, <1>3, Induction
<1>5. L + 1 \in A /\ L + 2 - (L + 1) = 1
  <2>1. L + 1 \in Nat /\ L + 2 - (L + 1) = 1
    OBVIOUS
  <2> HIDE DEF A
  <2> QED
    BY <1>4, <2>1
<1>6. PICK h : Good(h, 1)
  <2> HIDE DEF Good
  <2> QED
    BY <1>5
<1>7. Rec(h)
  <2> HIDE DEF Value
  <2> QED
    BY <1>6
<1> DEFINE f == CHOOSE g : Rec(g)
<1>8. Rec(f)
  <2> HIDE DEF Rec
  <2> QED
    BY <1>7
<1>9. Fields(path) = f[1]
  BY Zenon DEF Fields
<1> HIDE DEF f
<1>10. \A i \in 1 .. L + 2 : f[i] = Value(f, i)
  <2> HIDE DEF Value
  <2> QED
    BY <1>8
<1> QED
  BY <1>9, <1>10
-----------------------------------------------------------------------------
(* Lengths as numbers that the SMT solver adds up.                         *)
Size(s) == Len(s)

LEMMA SizeIs ==
    ASSUME NEW S, NEW s \in Seq(S)
    PROVE  /\ Size(s) \in Nat /\ Size(s) = Len(s)
           /\ \A i \in 1 .. Size(s) : s[i] \in S
BY DEF Size

(* t is s with w behind it.                                                *)
IsConcat(t, s, w) ==
    /\ Size(t) = Size(s) + Size(w)
    /\ \A i \in 1 .. Size(t) : t[i] = IF i <= Size(s) THEN s[i] ELSE w[i - Size(s)]

LEMMA ConcatIs ==
    ASSUME NEW S, NEW s \in Seq(S), NEW w \in Seq(S)
    PROVE  s \o w \in Seq(S) /\ IsConcat(s \o w, s, w)
BY ConcatProperties, Zenon DEF Size, IsConcat

(* t is s with b and then w behind it.                                     *)
Extends(t, s, b, w) ==
    /\ Size(t) = Size(s) + 1 + Size(w)
    /\ \A i \in 1 .. Size(s) : t[i] = s[i]
    /\ t[Size(s) + 1] = b
    /\ \A i \in 1 .. Size(w) : t[Size(s) + 1 + i] = w[i]

LEMMA TwiceExtended ==
    ASSUME NEW s, NEW c, NEW w, NEW u, NEW t, NEW b,
           Size(s) \in Nat, Size(w) \in Nat, Size(c) = 1, c[1] = b,
           IsConcat(u, s, c), IsConcat(t, u, w)
    PROVE  Extends(t, s, b, w)
BY DEF IsConcat, Extends

LEMMA Appended ==
    ASSUME NEW S, NEW s \in Seq(S), NEW b \in S, NEW w \in Seq(S)
    PROVE  s \o <<b>> \o w \in Seq(S) /\ Extends(s \o <<b>> \o w, s, b, w)
<1>1. <<b>> \in Seq(S) /\ Size(<<b>>) = 1 /\ <<b>>[1] = b
  BY DEF Size
<1>2. s \o <<b>> \in Seq(S) /\ IsConcat(s \o <<b>>, s, <<b>>)
  BY <1>1, ConcatIs, Zenon
<1>3. Size(s) \in Nat /\ Size(w) \in Nat
  BY SizeIs
<1>4. (s \o <<b>>) \o w \in Seq(S) /\ IsConcat((s \o <<b>>) \o w, s \o <<b>>, w)
  BY <1>2, ConcatIs, Zenon
<1> QED
  BY <1>1, <1>2, <1>3, <1>4, TwiceExtended, Zenon

(* Where the words of a request or of a path begin, and what separates     *)
(* them.                                                                   *)
Laid(s, words, n, b, at) ==
    /\ at \in [1 .. n -> Int] /\ at[1] = 1
    /\ \A k \in 1 .. n - 1 :
          at[k + 1] = at[k] + Size(words[k]) + 1 /\ s[at[k + 1] - 1] = b
    /\ Size(s) = at[n] + Size(words[n]) - 1
    /\ \A k \in 1 .. n : \A i \in 1 .. Size(words[k]) : s[at[k] + i - 1] = words[k][i]

(* What is joined is each word behind what was joined before.              *)
Builds(g, words, n, b) ==
    /\ g[1] = words[1]
    /\ \A k \in 2 .. n : Extends(g[k], g[k - 1], b, words[k])

LEMMA JoinedBuilds ==
    ASSUME NEW S, NEW words \in Seq(Seq(S)), words # <<>>, NEW b \in S
    PROVE  \E g \in [1 .. Len(words) -> Seq(S)] :
              Joined(words, <<b>>) = g[Len(words)] /\ Builds(g, words, Len(words), b)
<1> DEFINE n == Len(words)
           c == <<b>>
           Plus(s, w) == s \o c \o w
<1>1. n \in Nat /\ n >= 1 /\ \A k \in 1 .. n : words[k] \in Seq(S)
  OBVIOUS
<1>2. c \in Seq(S)
  OBVIOUS
<1>3. \A s, w \in Seq(S) : Extends(Plus(s, w), s, b, w)
  BY Appended
<1> HIDE DEF c
<1>4. PICK g \in [1 .. n -> Seq(S)] : Joined(words, c) = g[n] /\ Grows(g, words, c)
  BY <1>2, JoinedDef
<1>5. g[1] = words[1] /\ \A k \in 2 .. n : g[k] = Plus(g[k - 1], words[k])
  BY <1>4, Zenon DEF Grows
<1> HIDE DEF n, Plus
<1>6. \A k \in 2 .. n : Extends(g[k], g[k - 1], b, words[k])
  <2> TAKE k \in 2 .. n
  <2>1. k \in 1 .. n /\ k - 1 \in 1 .. n
    BY <1>1
  <2>2. g[k] = Plus(g[k - 1], words[k]) /\ g[k - 1] \in Seq(S) /\ words[k] \in Seq(S)
    BY <1>1, <1>4, <1>5, <2>1
  <2> QED
    BY <1>3, <2>2
<1>7. Builds(g, words, n, b)
  BY <1>6, <1>5 DEF Builds, n
<1> QED
  BY <1>4, <1>7 DEF n, c

LEMMA BuiltLaid ==
    ASSUME NEW words, NEW n \in Nat, n >= 1, NEW g, NEW b,
           \A k \in 1 .. n : Size(words[k]) \in Nat /\ Size(g[k]) \in Nat,
           Builds(g, words, n, b)
    PROVE  \E at : Laid(g[n], words, n, b, at)
<1>1. n \in Nat /\ n >= 1 /\ \A k \in 1 .. n : Size(words[k]) \in Nat
  OBVIOUS
<1>2. g[1] = words[1] /\ \A k \in 2 .. n : Extends(g[k], g[k - 1], b, words[k])
  BY DEF Builds
<1>3. \A k \in 1 .. n : Size(g[k]) \in Nat
  OBVIOUS
<1> DEFINE at == [k \in 1 .. n |-> Size(g[k]) - Size(words[k]) + 1]
<1>4. \A k \in 1 .. n - 1 :
        /\ Size(g[k + 1]) = Size(g[k]) + 1 + Size(words[k + 1])
        /\ \A i \in 1 .. Size(g[k]) : g[k + 1][i] = g[k][i]
        /\ g[k + 1][Size(g[k]) + 1] = b
        /\ \A i \in 1 .. Size(words[k + 1]) : g[k + 1][Size(g[k]) + 1 + i] = words[k + 1][i]
  <2> TAKE k \in 1 .. n - 1
  <2>1. /\ k + 1 \in 2 .. n /\ k + 1 \in 1 .. n /\ k \in 1 .. n /\ (k + 1) - 1 = k
    BY <1>1
  <2>2. Extends(g[k + 1], g[k], b, words[k + 1])
    BY <1>2, <2>1
  <2> HIDE DEF at
  <2> QED
    BY <2>2 DEF Extends
<1>5. \A k \in 1 .. n : at[k] = Size(g[k]) - Size(words[k]) + 1 /\ at[k] \in Int
  BY <1>1, <1>3
<1>6. at \in [1 .. n -> Int] /\ at[1] = 1
  BY <1>1, <1>2, <1>5
<1> HIDE DEF at
<1>7. \A k \in 1 .. n - 1 :
        at[k + 1] = Size(g[k]) + 2 /\ at[k + 1] = at[k] + Size(words[k]) + 1
  <2> TAKE k \in 1 .. n - 1
  <2>1. k + 1 \in 1 .. n /\ k \in 1 .. n
    BY <1>1
  <2> QED
    BY <1>1, <1>3, <1>4, <1>5, <2>1
<1> DEFINE Part(m) ==
      /\ \A k \in 1 .. m :
            /\ at[k] >= 1 /\ at[k] + Size(words[k]) - 1 <= Size(g[m])
            /\ \A i \in 1 .. Size(words[k]) : g[m][at[k] + i - 1] = words[k][i]
      /\ \A k \in 2 .. m : g[m][at[k] - 1] = b
           A == {m \in Nat : m + 1 <= n => Part(m + 1)}
<1>8. Part(1)
  <2>1. /\ at[1] >= 1 /\ at[1] + Size(words[1]) - 1 <= Size(g[1])
    BY <1>1, <1>2, <1>6
  <2>2. \A i \in 1 .. Size(words[1]) : g[1][at[1] + i - 1] = words[1][i]
    <3> TAKE i \in 1 .. Size(words[1])
    <3>1. at[1] + i - 1 = i
      BY <1>1, <1>6
    <3> QED
      BY <1>2, <3>1
  <2> QED
    BY <2>1, <2>2
<1>9. ASSUME NEW m \in 1 .. n - 1, Part(m) PROVE Part(m + 1)
  <2>1. m \in 1 .. n /\ m + 1 \in 1 .. n
    BY <1>1
  <2>2. at[m + 1] = Size(g[m]) + 2 /\ Size(g[m]) \in Nat /\ Size(words[m + 1]) \in Nat
    BY <1>1, <1>3, <1>7, <2>1
  <2>3. Size(g[m + 1]) = Size(g[m]) + 1 + Size(words[m + 1])
    BY <1>4
  <2>4. ASSUME NEW k \in 1 .. m
        PROVE  /\ at[k] >= 1 /\ at[k] + Size(words[k]) - 1 <= Size(g[m + 1])
               /\ \A i \in 1 .. Size(words[k]) : g[m + 1][at[k] + i - 1] = words[k][i]
               /\ k > 1 => g[m + 1][at[k] - 1] = b
    <3>1. at[k] \in Int /\ Size(words[k]) \in Nat /\ at[k] >= 1
          /\ at[k] + Size(words[k]) - 1 <= Size(g[m])
      BY <1>1, <1>5, <1>9, <2>1
    <3>2. \A i \in 1 .. Size(words[k]) : g[m + 1][at[k] + i - 1] = words[k][i]
      <4> TAKE i \in 1 .. Size(words[k])
      <4>1. at[k] + i - 1 \in 1 .. Size(g[m])
        BY <2>2, <3>1
      <4>2. g[m + 1][at[k] + i - 1] = g[m][at[k] + i - 1]
        BY <1>4, <4>1
      <4> QED
        BY <1>9, <4>2
    <3>3. ASSUME k > 1 PROVE g[m + 1][at[k] - 1] = b
      <4>1. k \in 2 .. m /\ k - 1 \in 1 .. n - 1 /\ k - 1 \in 1 .. n /\ (k - 1) + 1 = k
        BY <1>1, <3>3
      <4>2. at[k] = Size(g[k - 1]) + 2
        BY <1>7, <4>1
      <4>3. at[k] >= 2
        BY <1>3, <4>1, <4>2
      <4>4. at[k] - 1 \in 1 .. Size(g[m])
        BY <2>2, <3>1, <4>3
      <4>5. g[m + 1][at[k] - 1] = g[m][at[k] - 1]
        BY <1>4, <4>4
      <4> QED
        BY <1>9, <4>1, <4>5
    <3>4. at[k] + Size(words[k]) - 1 <= Size(g[m + 1])
      BY <2>2, <2>3, <3>1
    <3> QED
      BY <3>1, <3>2, <3>3, <3>4
  <2>5. /\ at[m + 1] >= 1 /\ at[m + 1] + Size(words[m + 1]) - 1 <= Size(g[m + 1])
        /\ \A i \in 1 .. Size(words[m + 1]) : g[m + 1][at[m + 1] + i - 1] = words[m + 1][i]
        /\ g[m + 1][at[m + 1] - 1] = b
    <3>1. at[m + 1] >= 1 /\ at[m + 1] + Size(words[m + 1]) - 1 <= Size(g[m + 1])
      BY <2>2, <2>3
    <3>2. at[m + 1] - 1 = Size(g[m]) + 1
      BY <2>2
    <3>3. \A i \in 1 .. Size(words[m + 1]) : at[m + 1] + i - 1 = Size(g[m]) + 1 + i
      BY <2>2
    <3> QED
      BY <1>4, <3>1, <3>2, <3>3
  <2>6. \A k \in 1 .. m + 1 : k \in 1 .. m \/ k = m + 1
    OBVIOUS
  <2> QED
    BY <2>4, <2>5, <2>6
<1>10. 0 \in A
  BY <1>8
<1>11. ASSUME NEW m \in Nat, m \in A PROVE m + 1 \in A
  <2>1. SUFFICES ASSUME m + 2 <= n PROVE Part((m + 1) + 1)
    <3> HIDE DEF Part
    <3> QED
      OBVIOUS
  <2>2. m + 1 \in 1 .. n - 1 /\ Part(m + 1)
    <3> HIDE DEF Part
    <3> QED
      BY <1>1, <1>11, <2>1
  <2> HIDE DEF Part
  <2> QED
    BY <1>9, <2>2
<1>12. Nat \subseteq A
  <2> HIDE DEF A
  <2> QED
    BY <1>10, <1>11, Induction
<1>13. Part(n)
  <2> HIDE DEF Part
  <2>1. n - 1 \in Nat /\ (n - 1) + 1 = n
    BY <1>1
  <2>2. n - 1 \in A
    <3> HIDE DEF A
    <3> QED
      BY <1>12, <2>1
  <2>3. (n - 1) + 1 <= n => Part((n - 1) + 1)
    BY <2>2
  <2> QED
    BY <2>1, <2>3
<1>14. Size(g[n]) = at[n] + Size(words[n]) - 1
  BY <1>1, <1>3, <1>5
<1>15. \A k \in 1 .. n - 1 : g[n][at[k + 1] - 1] = b
  <2> TAKE k \in 1 .. n - 1
  <2>1. k + 1 \in 2 .. n
    BY <1>1
  <2> QED
    BY <1>13, <2>1
<1>16. Laid(g[n], words, n, b, at)
  BY <1>6, <1>7, <1>13, <1>14, <1>15 DEF Laid
<1> QED
  BY <1>16

LEMMA JoinedLaid ==
    ASSUME NEW S, NEW words \in Seq(Seq(S)), words # <<>>, NEW b \in S
    PROVE  /\ Joined(words, <<b>>) \in Seq(S)
           /\ \E at : Laid(Joined(words, <<b>>), words, Len(words), b, at)
<1> DEFINE n == Len(words)
<1>1. n \in Nat /\ n >= 1 /\ \A k \in 1 .. n : words[k] \in Seq(S)
  OBVIOUS
<1>2. PICK g \in [1 .. n -> Seq(S)] :
        Joined(words, <<b>>) = g[n] /\ Builds(g, words, n, b)
  BY JoinedBuilds
<1>3. Len(words) = n
  OBVIOUS
<1> HIDE DEF n
<1>4. \A k \in 1 .. n : g[k] \in Seq(S)
  BY <1>2
<1>5. \A k \in 1 .. n : Size(words[k]) \in Nat /\ Size(g[k]) \in Nat
  BY <1>1, <1>4, SizeIs
<1>6. \E at : Laid(g[n], words, n, b, at)
  BY <1>1, <1>2, <1>3, <1>5, BuiltLaid
<1> QED
  BY <1>1, <1>2, <1>4, <1>6 DEF n

(* Later words lie behind earlier ones.                                    *)
LEMMA InLine ==
    ASSUME NEW n \in Nat, NEW words, NEW s, NEW b, NEW at,
           \A k \in 1 .. n : Size(words[k]) \in Nat,
           Laid(s, words, n, b, at)
    PROVE  /\ \A k \in 1 .. n : at[k] >= 1 /\ at[k] + Size(words[k]) <= Size(s) + 1
           /\ \A j, k \in 1 .. n : j < k => at[j] + Size(words[j]) + 1 <= at[k]
<1>1. \A k \in 1 .. n : Size(words[k]) \in Nat
  OBVIOUS
<1>2. /\ \A k \in 1 .. n : at[k] \in Int
      /\ n >= 1 => at[1] = 1
      /\ \A k \in 1 .. n - 1 : at[k + 1] = at[k] + Size(words[k]) + 1
      /\ Size(s) = at[n] + Size(words[n]) - 1
  BY DEF Laid
<1> DEFINE A == {m \in Nat : m + 1 <= n =>
                    /\ at[m + 1] >= 1
                    /\ \A j \in 1 .. m : at[j] + Size(words[j]) + 1 <= at[m + 1]}
<1>3. 0 \in A
  BY <1>1, <1>2
<1>4. ASSUME NEW m \in Nat, m \in A PROVE m + 1 \in A
  <2>1. SUFFICES ASSUME m + 2 <= n
                 PROVE  /\ at[m + 2] >= 1
                        /\ \A j \in 1 .. m + 1 : at[j] + Size(words[j]) + 1 <= at[m + 2]
    OBVIOUS
  <2>2. m + 1 \in 1 .. n - 1 /\ m + 1 \in 1 .. n /\ m + 2 \in 1 .. n /\ (m + 1) + 1 = m + 2
    BY <1>1, <2>1
  <2>3. at[m + 2] = at[m + 1] + Size(words[m + 1]) + 1 /\ Size(words[m + 1]) \in Nat
    BY <1>1, <1>2, <2>2
  <2>4. /\ at[m + 1] >= 1 /\ at[m + 1] \in Int
        /\ \A j \in 1 .. m : at[j] + Size(words[j]) + 1 <= at[m + 1]
    BY <1>2, <1>4, <2>1, <2>2
  <2>5. \A j \in 1 .. m + 1 : at[j] + Size(words[j]) + 1 <= at[m + 2]
    <3> TAKE j \in 1 .. m + 1
    <3>1. j \in 1 .. n
      BY <2>2
    <3>2. at[j] \in Int /\ Size(words[j]) \in Nat
      BY <1>1, <1>2, <3>1
    <3>3. CASE j = m + 1
      BY <2>3, <2>4, <3>3
    <3>4. CASE j \in 1 .. m
      BY <2>3, <2>4, <3>2, <3>4
    <3> QED
      BY <3>3, <3>4
  <2> QED
    BY <2>3, <2>4, <2>5
<1>5. Nat \subseteq A
  <2> HIDE DEF A
  <2> QED
    BY <1>3, <1>4, Induction
<1>6. \A k \in 1 .. n :
         at[k] >= 1 /\ \A j \in 1 .. n : j < k => at[j] + Size(words[j]) + 1 <= at[k]
  <2> TAKE k \in 1 .. n
  <2>1. k - 1 \in Nat /\ (k - 1) + 1 = k /\ k <= n
    BY <1>1
  <2>2. k - 1 \in A
    <3> HIDE DEF A
    <3> QED
      BY <1>5, <2>1
  <2>3. /\ at[(k - 1) + 1] >= 1
        /\ \A j \in 1 .. k - 1 : at[j] + Size(words[j]) + 1 <= at[(k - 1) + 1]
    BY <2>1, <2>2
  <2>4. \A j \in 1 .. n : j < k => j \in 1 .. k - 1
    BY <1>1
  <2> QED
    BY <2>1, <2>3, <2>4
<1>7. \A k \in 1 .. n : at[k] + Size(words[k]) <= Size(s) + 1
  <2> TAKE k \in 1 .. n
  <2>1. n \in 1 .. n /\ (k = n \/ k < n)
    BY <1>1
  <2>2. /\ at[k] \in Int /\ at[n] \in Int /\ Size(words[k]) \in Nat /\ Size(words[n]) \in Nat
    BY <1>1, <1>2, <2>1
  <2>3. k = n \/ at[k] + Size(words[k]) + 1 <= at[n]
    BY <1>6, <2>1
  <2> QED
    BY <1>2, <2>2, <2>3
<1> QED
  BY <1>6, <1>7
-----------------------------------------------------------------------------
(* Requests are cut where their words were put together.                   *)
Places(s, b, i) == {j \in 1 .. i : s[j] = b}

LEMMA PlacesCounted ==
    ASSUME NEW n \in Nat, NEW words, NEW s, NEW b, NEW at,
           \A k \in 1 .. n : Size(words[k]) \in Nat,
           Laid(s, words, n, b, at),
           \A k \in 1 .. n - 1 : \A i \in 1 .. Size(words[k]) : words[k][i] # b
    PROVE  \A k \in 1 .. n - 1 :
              /\ at[k + 1] - 1 \in 1 .. Size(s) /\ s[at[k + 1] - 1] = b
              /\ Cardinality(Places(s, b, at[k + 1] - 1)) = k
<1>1. \A k \in 1 .. n : /\ at[k] \in Int /\ at[k] >= 1 /\ Size(words[k]) \in Nat
                        /\ at[k] + Size(words[k]) <= Size(s) + 1
  <2>1. \A k \in 1 .. n : at[k] >= 1 /\ at[k] + Size(words[k]) <= Size(s) + 1
    BY InLine
  <2> QED
    BY <2>1 DEF Laid
<1>2. /\ \A k \in 1 .. n - 1 :
            at[k + 1] = at[k] + Size(words[k]) + 1 /\ s[at[k + 1] - 1] = b
      /\ n >= 1 => at[1] = 1
      /\ Size(s) = at[n] + Size(words[n]) - 1
      /\ \A k \in 1 .. n : \A i \in 1 .. Size(words[k]) : s[at[k] + i - 1] = words[k][i]
  BY DEF Laid
<1> DEFINE P(i, k) == /\ IsFiniteSet(Places(s, b, i)) /\ Cardinality(Places(s, b, i)) = k
           A == {k \in Nat : k + 1 <= n => P(at[k + 1] - 1, k)}
<1>3. 0 \in A
  <2>1. SUFFICES ASSUME 1 <= n PROVE P(at[1] - 1, 0)
    OBVIOUS
  <2>2. Places(s, b, 0) = {} /\ at[1] - 1 = 0
    BY <1>2, <2>1 DEF Places
  <2> QED
    BY <2>2, FS_EmptySet
<1>4. ASSUME NEW k \in Nat, k \in A PROVE k + 1 \in A
  <2>1. SUFFICES ASSUME k + 2 <= n PROVE P(at[k + 2] - 1, k + 1)
    OBVIOUS
  <2> DEFINE m == k + 1
             w == words[m]
             e == at[m] - 1
             d == at[m + 1] - 1
  <2>2. m \in 1 .. n - 1 /\ m \in 1 .. n /\ m + 1 \in 1 .. n /\ m + 1 = k + 2
    BY <2>1
  <2>3. P(e, k)
    BY <1>4, <2>1
  <2>4. d = e + Size(w) + 1 /\ e \in Nat /\ Size(w) \in Nat /\ s[d] = b
    <3>1. at[m] \in Int /\ at[m] >= 1 /\ Size(words[m]) \in Nat
      BY <1>1, <2>2
    <3>2. at[m + 1] = at[m] + Size(words[m]) + 1 /\ s[at[m + 1] - 1] = b
      BY <1>2, <2>2
    <3> HIDE DEF m
    <3> QED
      BY <3>1, <3>2
  <2>5. ASSUME NEW j \in e + 1 .. d - 1 PROVE s[j] # b
    <3>1. j - e \in 1 .. Size(w) /\ at[m] + (j - e) - 1 = j
      <4>1. at[m] = e + 1
        BY <1>1, <2>2
      <4> HIDE DEF e, d, w
      <4> QED
        BY <2>4, <4>1
    <3> HIDE DEF e, d
    <3>2. s[j] = w[j - e] /\ w[j - e] # b
      BY <1>2, <2>2, <3>1
    <3> QED
      BY <3>2
  <2>6. Places(s, b, d) = Places(s, b, e) \cup {d} /\ d \notin Places(s, b, e)
    <3> HIDE DEF e, d, w
    <3> QED
      BY <2>4, <2>5 DEF Places
  <2>7. P(d, k + 1)
    <3> HIDE DEF e, d
    <3>1. Cardinality(Places(s, b, d)) = Cardinality(Places(s, b, e)) + 1 /\ IsFiniteSet(Places(s, b, d))
      BY <2>3, <2>6, FS_AddElement
    <3> QED
      BY <2>3, <3>1
  <2> HIDE DEF P
  <2> QED
    BY <2>2, <2>7
<1>5. Nat \subseteq A
  <2> HIDE DEF A
  <2> QED
    BY <1>3, <1>4, Induction
<1>6. ASSUME NEW k \in 1 .. n - 1
      PROVE  /\ at[k + 1] - 1 \in 1 .. Size(s) /\ s[at[k + 1] - 1] = b
             /\ Cardinality(Places(s, b, at[k + 1] - 1)) = k
  <2>1. k \in Nat /\ k + 1 <= n /\ k + 1 \in 1 .. n /\ k \in 1 .. n
    OBVIOUS
  <2>2. k \in A
    <3> HIDE DEF A
    <3> QED
      BY <1>5, <2>1
  <2>3. P(at[k + 1] - 1, k)
    BY <2>1, <2>2
  <2>4. Size(s) \in Int
    <3>1. n \in 1 .. n
      BY <2>1
    <3> QED
      BY <1>1, <1>2, <3>1
  <2>5. at[k + 1] = at[k] + Size(words[k]) + 1
    BY <1>2
  <2>6. at[k + 1] - 1 \in 1 .. Size(s)
    BY <1>1, <2>1, <2>4, <2>5
  <2> QED
    BY <1>2, <2>3, <2>6
<1> QED
  BY <1>6

LEMMA OnlyPlace ==
    ASSUME NEW s, NEW b, NEW l \in Nat, NEW i \in 1 .. l, s[i] = b,
           NEW q \in 1 .. l, s[q] = b,
           Cardinality(Places(s, b, i)) = Cardinality(Places(s, b, q))
    PROVE  q = i
<1>1. ASSUME NEW x \in Nat, NEW y \in Nat, x < y, y >= 1, s[y] = b
      PROVE  Cardinality(Places(s, b, x)) # Cardinality(Places(s, b, y))
  <2>1. IsFiniteSet(1 .. y)
    BY FS_Interval
  <2>2. Places(s, b, y) \in SUBSET (1 .. y) /\ Places(s, b, x) \in SUBSET Places(s, b, y)
    BY <1>1 DEF Places
  <2>3. y \in Places(s, b, y) /\ y \notin Places(s, b, x)
    BY <1>1 DEF Places
  <2>4. IsFiniteSet(Places(s, b, y))
    BY <2>1, <2>2, FS_Subset
  <2> QED
    BY <2>2, <2>3, <2>4, FS_Subset
<1>2. /\ i \in Nat /\ i >= 1 /\ q \in Nat /\ q >= 1
      /\ q < i \/ i < q \/ q = i
  OBVIOUS
<1> QED
  BY <1>1, <1>2

Space == " "

(* A request that has been cut, and what cutting it once more makes of it. *)
Piece(b, l, t) == [buffer |-> b, left |-> l, starts |-> t, ok |-> TRUE]

With(b, i, c) == [b EXCEPT ![i] = c]

LEMMA CutAt ==
    ASSUME NEW b, NEW l \in Nat, NEW t, NEW k \in Nat, NEW i \in 1 .. l,
           b[i] = Space, Cardinality(Places(b, Space, i)) = k
    PROVE  Cut(Piece(b, l, t), k) =
             Piece(With(b, i, NUL), i - 1, <<i + 1>> \o t)
<1> DEFINE s == Piece(b, l, t)
<1>1. s.buffer = b /\ s.left = l /\ s.ok = TRUE
  BY DEF Piece
<1>2. NthSpace(s, k) = {q \in 1 .. l : b[q] = Space /\ Cardinality(Places(b, Space, q)) = k}
  BY <1>1, Zenon DEF NthSpace, Places, Space
<1> HIDE DEF s
<1>3. NthSpace(s, k) = {i}
  <2>1. ASSUME NEW q \in 1 .. l, b[q] = Space, Cardinality(Places(b, Space, q)) = k PROVE q = i
    BY <2>1, OnlyPlace, Zenon
  <2> QED
    BY <1>2, <2>1
<1>4. (CHOOSE q \in NthSpace(s, k) : TRUE) = i /\ NthSpace(s, k) # {}
  BY <1>3
<1>5. Cut(s, k) = [s EXCEPT !.buffer[i] = NUL, !.left = i - 1, !.starts = <<i + 1>> \o @]
  BY <1>1, <1>4, Zenon DEF Cut
<1> QED
  BY <1>5 DEF s, Piece, With
(* What is left of s when it has been cut before each word behind the k-th *)
Cutting(b, l, t, s, nul, at, n, k) ==
    /\ Size(b) = Size(s)
    /\ \A q \in 1 .. Size(s) :
          b[q] = IF \E j \in k + 1 .. n : q = at[j] - 1 THEN nul ELSE s[q]
    /\ l = IF k = n THEN Size(s) ELSE at[k + 1] - 2
    /\ Size(t) = n - k /\ \A j \in 1 .. n - k : t[j] = at[j + k]

LEMMA CutsAtPlace ==
    ASSUME NEW n \in Nat, NEW words, NEW s, NEW b, NEW at, Size(s) \in Nat,
           \A k \in 1 .. n : Size(words[k]) \in Nat,
           Laid(s, words, n, b, at),
           \A k \in 1 .. n - 1 : \A i \in 1 .. Size(words[k]) : words[k][i] # b,
           NEW k \in 1 .. n - 1, NEW c, NEW l, NEW t, NEW nul,
           Cutting(c, l, t, s, nul, at, n, k + 1)
    PROVE  /\ l \in Nat /\ at[k + 1] - 1 \in 1 .. l /\ at[k + 1] - 1 \in 1 .. Size(c)
           /\ c[at[k + 1] - 1] = b
           /\ Cardinality(Places(c, b, at[k + 1] - 1)) = k
<1> DEFINE i == at[k + 1] - 1
<1>1. /\ i \in 1 .. Size(s) /\ s[i] = b /\ Cardinality(Places(s, b, i)) = k
  BY PlacesCounted
<1>2. \A j \in k + 2 .. n : at[j] \in Int /\ at[j] >= i + 2
  <2> TAKE j \in k + 2 .. n
  <2>1. k + 1 \in 1 .. n /\ j \in 1 .. n /\ k + 1 < j
    OBVIOUS
  <2>2. at[k + 1] + Size(words[k + 1]) + 1 <= at[j]
    BY <2>1, InLine
  <2>3. at[j] \in Int /\ at[k + 1] \in Int /\ Size(words[k + 1]) \in Nat
    BY <2>1 DEF Laid
  <2> QED
    BY <2>2, <2>3
<1> HIDE DEF i
<1>3. l \in Nat /\ i <= l
  <2>1. l = IF k + 1 = n THEN Size(s) ELSE at[k + 2] - 2
    BY DEF Cutting
  <2>2. k + 1 = n \/ k + 2 \in k + 2 .. n
    OBVIOUS
  <2> QED
    BY <1>1, <1>2, <2>1, <2>2
<1>4. \A q \in 1 .. i : c[q] = s[q]
  <2> TAKE q \in 1 .. i
  <2>1. q \in 1 .. Size(s) /\ ~\E j \in k + 2 .. n : q = at[j] - 1
    BY <1>1, <1>2
  <2>2. c[q] = IF \E j \in (k + 1) + 1 .. n : q = at[j] - 1 THEN nul ELSE s[q]
    BY <2>1 DEF Cutting
  <2> QED
    BY <2>1, <2>2
<1>5. i \in 1 .. i /\ i \in 1 .. l
  BY <1>1, <1>3
<1>6. Places(c, b, i) = Places(s, b, i)
  BY <1>4 DEF Places
<1>7. Size(c) = Size(s)
  BY DEF Cutting
<1> QED
  BY <1>1, <1>3, <1>4, <1>5, <1>6, <1>7 DEF i

(* d and u are c and t after one cut more.                                 *)
CutMore(d, u, c, t, nul, at, k) ==
    /\ Size(d) = Size(c)
    /\ \A q \in 1 .. Size(c) : d[q] = IF q = at[k + 1] - 1 THEN nul ELSE c[q]
    /\ Size(u) = 1 + Size(t) /\ u[1] = at[k + 1]
    /\ \A j \in 1 .. Size(t) : u[1 + j] = t[j]

LEMMA CuttingOn ==
    ASSUME NEW n \in Nat, NEW s, NEW at, Size(s) \in Nat, at \in [1 .. n -> Int],
           NEW k \in 1 .. n - 1, NEW c, NEW l, NEW t, NEW nul,
           Cutting(c, l, t, s, nul, at, n, k + 1),
           NEW d, NEW u, CutMore(d, u, c, t, nul, at, k)
    PROVE  Cutting(d, at[k + 1] - 2, u, s, nul, at, n, k)
<1>1. \A q \in 1 .. Size(s) :
         d[q] = IF \E j \in k + 1 .. n : q = at[j] - 1 THEN nul ELSE s[q]
  <2> TAKE q \in 1 .. Size(s)
  <2>1. d[q] = IF q = at[k + 1] - 1 THEN nul ELSE c[q]
    BY DEF Cutting, CutMore
  <2>2. c[q] = IF \E j \in (k + 1) + 1 .. n : q = at[j] - 1 THEN nul ELSE s[q]
    BY DEF Cutting
  <2>3. /\ k + 1 \in k + 1 .. n
        /\ \A j \in (k + 1) + 1 .. n : j \in k + 1 .. n
        /\ \A j \in k + 1 .. n : j = k + 1 \/ j \in (k + 1) + 1 .. n
    OBVIOUS
  <2> QED
    BY <2>1, <2>2, <2>3
<1>2. Size(t) = n - (k + 1) /\ \A j \in 1 .. n - (k + 1) : t[j] = at[j + (k + 1)]
  BY DEF Cutting
<1>3. /\ Size(u) = n - k /\ u[1] = at[k + 1]
      /\ \A j \in 1 .. n - (k + 1) : u[1 + j] = t[j]
  BY <1>2 DEF CutMore
<1>4. \A j \in 1 .. n - k : u[j] = at[j + k]
  <2> TAKE j \in 1 .. n - k
  <2>1. CASE j = 1
    BY <1>3, <2>1
  <2>2. CASE j # 1
    <3>1. j - 1 \in 1 .. n - (k + 1) /\ 1 + (j - 1) = j /\ (j - 1) + (k + 1) = j + k
      BY <2>2
    <3> QED
      BY <1>2, <1>3, <3>1
  <2> QED
    BY <2>1, <2>2
<1>5. k # n /\ Size(d) = Size(s)
  BY DEF Cutting, CutMore
<1> QED
  BY <1>1, <1>3, <1>4, <1>5 DEF Cutting

Characters == Char \cup {NUL}

(* Cutting where a word ends.                                              *)
IsSeq(s, S) == s \in Seq(S)

LEMMA Prefixed ==
    ASSUME NEW x, NEW t, NEW u, Size(x) = 1, Size(t) \in Nat, IsConcat(u, x, t)
    PROVE  /\ Size(u) = 1 + Size(t) /\ u[1] = x[1]
           /\ \A j \in 1 .. Size(t) : u[1 + j] = t[j]
BY DEF IsConcat

LEMMA Changed ==
    ASSUME NEW S, NEW s \in Seq(S), NEW i \in 1 .. Len(s), NEW e \in S
    PROVE  LET c == With(s, i, e) IN
           /\ IsSeq(c, S) /\ Size(c) = Size(s)
           /\ \A q \in 1 .. Size(s) : c[q] = IF q = i THEN e ELSE s[q]
BY ExceptSeq DEF IsSeq, Size, With

LEMMA CutOnce ==
    ASSUME NEW n \in Nat, NEW words, NEW s, NEW at, Size(s) \in Nat,
           \A k \in 1 .. n : Size(words[k]) \in Nat,
           Laid(s, words, n, Space, at),
           \A k \in 1 .. n - 1 : \A i \in 1 .. Size(words[k]) : words[k][i] # Space,
           NEW k \in 1 .. n - 1, NEW b, NEW l, NEW t,
           IsSeq(b, Characters), IsSeq(t, Int),
           Cutting(b, l, t, s, NUL, at, n, k + 1)
    PROVE  \E c, m, u :
              /\ IsSeq(c, Characters) /\ IsSeq(u, Int)
              /\ Cut(Piece(b, l, t), k) = Piece(c, m, u)
              /\ Cutting(c, m, u, s, NUL, at, n, k)
<1> DEFINE i == at[k + 1] - 1
           x == i + 1
           c == With(b, i, NUL)
           first == <<x>>
           u == first \o t
<1>1. k \in Nat
  OBVIOUS
<1>2. /\ l \in Nat /\ i \in 1 .. l /\ i \in 1 .. Size(b) /\ b[i] = Space
      /\ Cardinality(Places(b, Space, i)) = k
  BY CutsAtPlace
<1> HIDE DEF c, first, u
<1>3. /\ at \in [1 .. n -> Int] /\ i + 1 = at[k + 1] /\ i \in Int
      /\ i - 1 = at[k + 1] - 2
  <2>1. at \in [1 .. n -> Int]
    BY DEF Laid
  <2> DEFINE y == at[k + 1]
  <2>2. y \in Int
    BY <2>1
  <2> HIDE DEF y
  <2>3. i + 1 = y /\ i \in Int /\ i - 1 = y - 2
    BY <2>2 DEF y
  <2> QED
    BY <2>1, <2>3 DEF y
<1> HIDE DEF i
<1>4. Cut(Piece(b, l, t), k) = Piece(c, i - 1, u)
  BY <1>1, <1>2, CutAt, Zenon DEF c, u, first, x
<1>5. IsSeq(first, Int) /\ Size(first) = 1 /\ first[1] = x
  <2>1. x \in Int
    BY <1>3
  <2> HIDE DEF x
  <2> QED
    BY <2>1 DEF Size, IsSeq, first
<1>6. IsSeq(u, Int) /\ IsConcat(u, first, t)
  BY <1>5, ConcatIs, Zenon DEF IsSeq, u
<1>7. /\ IsSeq(c, Characters) /\ Size(c) = Size(b)
      /\ \A q \in 1 .. Size(b) : c[q] = IF q = i THEN NUL ELSE b[q]
  <2>1. NUL \in Characters
    BY DEF Characters
  <2>2. b \in Seq(Characters) /\ i \in 1 .. Len(b)
    BY <1>2 DEF IsSeq, Size
  <2> QED
    BY <2>1, <2>2, Changed DEF c
<1>8. Size(t) \in Nat
  BY SizeIs DEF IsSeq
<1>9. /\ Size(u) = 1 + Size(t) /\ u[1] = at[k + 1]
      /\ \A j \in 1 .. Size(t) : u[1 + j] = t[j]
  <2>1. /\ Size(u) = 1 + Size(t) /\ u[1] = first[1]
        /\ \A j \in 1 .. Size(t) : u[1 + j] = t[j]
    BY <1>5, <1>6, <1>8, Prefixed
  <2> QED
    BY <1>3, <1>5, <2>1
<1>10. Cutting(c, at[k + 1] - 2, u, s, NUL, at, n, k)
  <2>1. \A q \in 1 .. Size(b) : c[q] = IF q = at[k + 1] - 1 THEN NUL ELSE b[q]
    BY <1>7 DEF i
  <2>2. CutMore(c, u, b, t, NUL, at, k)
    BY <1>7, <1>9, <2>1 DEF CutMore
  <2> QED
    BY <1>3, <2>2, CuttingOn
<1> QED
  BY <1>4, <1>3, <1>6, <1>7, <1>10
(* What the commands find in a request cut before every word but the first *)
Pieces(b, l, t, words, n, nul, at) ==
    /\ \A k \in 1 .. n : \A i \in 1 .. Size(words[k]) : b[at[k] + i - 1] = words[k][i]
    /\ \A k \in 1 .. n - 1 : b[at[k] + Size(words[k])] = nul
    /\ l = Size(words[1]) /\ Size(b) = at[n] + Size(words[n]) - 1
    /\ Size(t) = n - 1 /\ \A j \in 1 .. n - 1 : t[j] = at[j + 1]

LEMMA PiecesHold ==
    ASSUME NEW n \in Nat, n >= 2, NEW words, NEW s, NEW c, NEW at, Size(s) \in Nat,
           \A k \in 1 .. n : Size(words[k]) \in Nat,
           Laid(s, words, n, c, at),
           NEW b, NEW l, NEW t, NEW nul, Cutting(b, l, t, s, nul, at, n, 1)
    PROVE  Pieces(b, l, t, words, n, nul, at)
<1>1. /\ \A k \in 1 .. n : /\ at[k] \in Int /\ at[k] >= 1 /\ Size(words[k]) \in Nat
                           /\ at[k] + Size(words[k]) <= Size(s) + 1
      /\ \A j, k \in 1 .. n : j < k => at[j] + Size(words[j]) + 1 <= at[k]
  <2>1. /\ \A k \in 1 .. n : at[k] >= 1 /\ at[k] + Size(words[k]) <= Size(s) + 1
        /\ \A j, k \in 1 .. n : j < k => at[j] + Size(words[j]) + 1 <= at[k]
    BY InLine
  <2> QED
    BY <2>1 DEF Laid
<1>2. /\ at[1] = 1 /\ \A k \in 1 .. n - 1 : at[k + 1] = at[k] + Size(words[k]) + 1
      /\ Size(s) = at[n] + Size(words[n]) - 1
      /\ \A k \in 1 .. n : \A i \in 1 .. Size(words[k]) : s[at[k] + i - 1] = words[k][i]
  BY DEF Laid
<1>3. /\ Size(b) = Size(s) /\ l = at[2] - 2
      /\ \A q \in 1 .. Size(s) : b[q] = IF \E j \in 2 .. n : q = at[j] - 1 THEN nul ELSE s[q]
      /\ Size(t) = n - 1 /\ \A j \in 1 .. n - 1 : t[j] = at[j + 1]
  BY DEF Cutting
<1>4. ASSUME NEW k \in 1 .. n, NEW i \in 1 .. Size(words[k])
      PROVE  b[at[k] + i - 1] = words[k][i]
  <2> DEFINE q == at[k] + i - 1
  <2>1. at[k] \in Int /\ Size(words[k]) \in Nat /\ i \in Int
    BY <1>1
  <2>2. q \in 1 .. Size(s) /\ q >= at[k] /\ q < at[k] + Size(words[k])
    BY <1>1, <2>1
  <2>3. ASSUME NEW j \in 2 .. n PROVE q # at[j] - 1
    <3>1. j \in 1 .. n /\ at[j] \in Int /\ (j <= k \/ k < j)
      BY <1>1
    <3>2. CASE j <= k
      <4>1. at[j] <= at[k]
        <5>1. j = k \/ j < k
          BY <3>2
        <5>2. j = k \/ at[j] + Size(words[j]) + 1 <= at[k]
          BY <1>1, <3>1, <5>1
        <5> QED
          BY <1>1, <2>1, <3>1, <5>2
      <4> HIDE DEF q
      <4> QED
        BY <2>1, <2>2, <3>1, <4>1
    <3>3. CASE k < j
      <4>1. at[k] + Size(words[k]) + 1 <= at[j]
        BY <1>1, <3>1, <3>3
      <4> HIDE DEF q
      <4> QED
        BY <2>1, <2>2, <3>1, <4>1
    <3> QED
      BY <3>1, <3>2, <3>3
  <2>4. s[q] = words[k][i]
    BY <1>2
  <2> HIDE DEF q
  <2>5. b[q] = s[q]
    BY <1>3, <2>2, <2>3
  <2> QED
    BY <2>4, <2>5 DEF q
<1>5. ASSUME NEW k \in 1 .. n - 1 PROVE b[at[k] + Size(words[k])] = nul
  <2>1. k + 1 \in 2 .. n /\ k + 1 \in 1 .. n /\ k \in 1 .. n
    OBVIOUS
  <2>2. at[k] + Size(words[k]) = at[k + 1] - 1
    BY <1>1, <1>2, <2>1
  <2>3. at[k + 1] - 1 \in 1 .. Size(s)
    BY <1>1, <1>2, <2>1
  <2> QED
    BY <1>3, <2>1, <2>2, <2>3
<1>6. l = Size(words[1])
  <2>1. 1 \in 1 .. n - 1 /\ 1 \in 1 .. n
    OBVIOUS
  <2> QED
    BY <1>1, <1>2, <1>3, <2>1
<1> QED
  BY <1>2, <1>3, <1>4, <1>5, <1>6 DEF Pieces

LEMMA EndAt ==
    ASSUME NEW s, Size(s) \in Nat, NEW i \in 1 .. Size(s) + 1, NEW stops,
           NEW e \in i .. Size(s) + 1, e = Size(s) + 1 \/ s[e] \in stops,
           \A j \in i .. e - 1 : s[j] \notin stops
    PROVE  End(s, i, stops) = e
BY EndUnique, Zenon DEF Size, IsEnd

(* w stands in b at p.                                                     *)
StandsIn(b, p, w) ==
    /\ p \in Nat /\ p >= 1 /\ p + Size(w) <= Size(b) + 1
    /\ \A i \in 1 .. Size(w) : b[p + i - 1] = w[i]

LEMMA Slice ==
    ASSUME NEW S, NEW b, NEW w, IsSeq(b, S), IsSeq(w, S), NEW p, StandsIn(b, p, w)
    PROVE  SubSeq(b, p, (p + Size(w)) - 1) = w
<1> DEFINE q == (p + Size(w)) - 1
           c == SubSeq(b, p, q)
<1>1. /\ Size(b) \in Nat /\ Size(w) \in Nat
      /\ \A i \in 1 .. Size(b) : b[i] \in S
  BY SizeIs DEF IsSeq
<1>2. /\ p \in Nat /\ p >= 1 /\ p + Size(w) <= Size(b) + 1
      /\ \A i \in 1 .. Size(w) : b[p + i - 1] = w[i]
  BY DEF StandsIn
<1>3. q \in Int /\ p \in Int /\ \A i \in p .. q : b[i] \in S
  BY <1>1, <1>2
<1>4. c \in Seq(S) /\ Len(c) = (IF p <= q THEN q - p + 1 ELSE 0)
      /\ \A i \in 1 .. q - p + 1 : c[i] = b[p + i - 1]
  <2> HIDE DEF q
  <2> QED
    BY <1>3, SubSeqProperties
<1>5. q - p + 1 = Size(w) /\ (p <= q \/ Size(w) = 0)
  BY <1>1, <1>2
<1> HIDE DEF q, c
<1>6. Len(c) = Size(w)
  BY <1>1, <1>4, <1>5
<1>7. \A i \in 1 .. Size(w) : c[i] = w[i]
  BY <1>4, <1>5, <1>2
<1>8. c = w
  BY <1>4, <1>6, <1>7, SeqEqual DEF Size, IsSeq
<1> QED
  BY <1>8 DEF c, q

LEMMA TextIs ==
    ASSUME NEW S, NEW m, NEW w, IsSeq(m, S), IsSeq(w, S), NEW p, StandsIn(m, p, w),
           p + Size(w) <= Size(m), m[p + Size(w)] = NUL,
           \A i \in 1 .. Size(w) : w[i] # NUL
    PROVE  Text(m, p) = w
<1> DEFINE e == p + Size(w)
<1>1. /\ Size(m) \in Nat /\ Size(w) \in Nat
  BY SizeIs DEF IsSeq
<1>2. p \in Nat /\ p >= 1 /\ \A i \in 1 .. Size(w) : m[p + i - 1] = w[i]
  BY DEF StandsIn
<1>3. \A j \in p .. e - 1 : m[j] \notin {NUL}
  <2> TAKE j \in p .. e - 1
  <2>1. j - p + 1 \in 1 .. Size(w) /\ p + (j - p + 1) - 1 = j
    BY <1>1, <1>2
  <2> QED
    BY <1>2, <2>1
<1>4. p \in 1 .. Size(m) + 1 /\ e \in p .. Size(m) + 1 /\ m[e] \in {NUL}
  BY <1>1, <1>2
<1>5. End(m, p, {NUL}) = e
  <2> HIDE DEF e
  <2> QED
    BY <1>1, <1>3, <1>4, EndAt
<1>6. SubSeq(m, p, e - 1) = w
  BY Slice, Zenon
<1> QED
  BY <1>5, <1>6, Zenon DEF Text
(* What the words of a request become: a name, texts and data, and the     *)
(* last text runs on into what follows.                                    *)
Taken(a, words, n, after) ==
    /\ a.ok /\ a.name = words[1] /\ a.data = words[n]
    /\ \A j \in 1 .. n - 2 : a.text[j] = words[j + 1]
    /\ a.text[n - 1] = words[n] \o after
    /\ a.text = [j \in 1 .. n - 1 |-> a.text[j]]

(* The memory from the copy on, as far as it is read.                      *)
Memory(b, after) == b \o after \o <<NUL>>

LEMMA MemoryIs ==
    ASSUME NEW b, IsSeq(b, Characters), NEW after, IsSeq(after, Characters)
    PROVE  LET m == Memory(b, after) IN
           /\ IsSeq(m, Characters) /\ Size(m) = Size(b) + Size(after) + 1
           /\ \A i \in 1 .. Size(b) : m[i] = b[i]
           /\ \A i \in 1 .. Size(after) : m[Size(b) + i] = after[i]
           /\ m[Size(b) + Size(after) + 1] = NUL
<1> DEFINE c == b \o after
           d == <<NUL>>
           m == c \o d
<1>1. IsSeq(d, Characters) /\ Size(d) = 1 /\ d[1] = NUL
  BY DEF Size, IsSeq, Characters
<1> HIDE DEF d
<1>2. IsSeq(c, Characters) /\ IsConcat(c, b, after)
  BY ConcatIs, Zenon DEF IsSeq
<1> HIDE DEF c
<1>3. IsSeq(m, Characters) /\ IsConcat(m, c, d)
  BY <1>1, <1>2, ConcatIs, Zenon DEF IsSeq
<1>4. m = Memory(b, after)
  BY Zenon DEF Memory, c, d
<1> HIDE DEF m
<1>5. Size(b) \in Nat /\ Size(after) \in Nat
  BY SizeIs DEF IsSeq
<1>6. /\ Size(c) = Size(b) + Size(after)
      /\ \A i \in 1 .. Size(c) : c[i] = IF i <= Size(b) THEN b[i] ELSE after[i - Size(b)]
  BY <1>2 DEF IsConcat
<1>7. /\ Size(m) = Size(c) + 1
      /\ \A i \in 1 .. Size(m) : m[i] = IF i <= Size(c) THEN c[i] ELSE d[i - Size(c)]
  BY <1>1, <1>3 DEF IsConcat
<1>8. \A i \in 1 .. Size(b) : m[i] = b[i]
  BY <1>5, <1>6, <1>7
<1>9. \A i \in 1 .. Size(after) : m[Size(b) + i] = after[i]
  <2> TAKE i \in 1 .. Size(after)
  <2>1. /\ Size(b) + i \in 1 .. Size(c) /\ Size(b) + i \in 1 .. Size(m)
        /\ ~(Size(b) + i <= Size(b)) /\ Size(b) + i <= Size(c) /\ (Size(b) + i) - Size(b) = i
    BY <1>5, <1>6, <1>7
  <2> QED
    BY <1>6, <1>7, <2>1
<1>10. m[Size(b) + Size(after) + 1] = NUL
  <2>1. /\ Size(c) + 1 \in 1 .. Size(m) /\ ~(Size(c) + 1 <= Size(c)) /\ (Size(c) + 1) - Size(c) = 1
    BY <1>5, <1>6, <1>7
  <2> QED
    BY <1>1, <1>6, <1>7, <2>1
<1> QED
  BY <1>3, <1>4, <1>6, <1>7, <1>8, <1>9, <1>10

LEMMA Characterwise ==
    ASSUME NEW w, IsSeq(w, Char)
    PROVE  /\ Size(w) \in Nat /\ \A i \in 1 .. Size(w) : w[i] # NUL
           /\ IsSeq(w, Characters)
<1>1. NUL \notin Char
  BY CharAssumption
<1>2. Size(w) \in Nat /\ \A i \in 1 .. Size(w) : w[i] \in Char
  BY SizeIs DEF IsSeq
<1>3. w \in Seq(Characters)
  BY DEF Characters, IsSeq
<1> QED
  BY <1>1, <1>2, <1>3 DEF IsSeq

LEMMA ArgumentsTaken ==
    ASSUME NEW n \in Nat, n >= 2, NEW words, NEW s, NEW at, Size(s) \in Nat,
           \A k \in 1 .. n : IsSeq(words[k], Char),
           NEW after, IsSeq(after, Char),
           Laid(s, words, n, Space, at),
           NEW b, NEW l, NEW t, IsSeq(b, Characters), IsSeq(t, Int),
           Cutting(b, l, t, s, NUL, at, n, 1)
    PROVE  Taken(Arguments(Piece(b, l, t), after), words, n, after)
<1>1. \A k \in 1 .. n : /\ Size(words[k]) \in Nat
                        /\ \A i \in 1 .. Size(words[k]) : words[k][i] # NUL
                        /\ IsSeq(words[k], Characters)
  BY Characterwise
<1>2. /\ Size(after) \in Nat /\ \A i \in 1 .. Size(after) : after[i] # NUL
      /\ IsSeq(after, Characters)
  BY Characterwise
<1>3. /\ \A k \in 1 .. n : /\ at[k] \in Int /\ at[k] >= 1
                           /\ at[k] + Size(words[k]) <= Size(s) + 1
      /\ at[1] = 1
  <2>1. \A k \in 1 .. n : at[k] >= 1 /\ at[k] + Size(words[k]) <= Size(s) + 1
    BY <1>1, InLine
  <2> QED
    BY <2>1 DEF Laid
<1>4. /\ \A k \in 1 .. n : \A i \in 1 .. Size(words[k]) : b[at[k] + i - 1] = words[k][i]
      /\ \A k \in 1 .. n - 1 : b[at[k] + Size(words[k])] = NUL
      /\ l = Size(words[1]) /\ Size(b) = at[n] + Size(words[n]) - 1
      /\ Size(t) = n - 1 /\ \A j \in 1 .. n - 1 : t[j] = at[j + 1]
  <2>1. \A k \in 1 .. n : Size(words[k]) \in Nat
    BY <1>1
  <2>2. Pieces(b, l, t, words, n, NUL, at)
    BY <2>1, PiecesHold
  <2> QED
    BY <2>2 DEF Pieces
<1>5. /\ Size(b) = Size(s) /\ Size(b) \in Nat /\ 1 \in 1 .. n /\ n \in 1 .. n /\ n - 1 \in 1 .. n - 1
  BY DEF Cutting
<1> DEFINE m == Memory(b, after)
<1>6. /\ IsSeq(m, Characters) /\ Size(m) = Size(b) + Size(after) + 1
      /\ \A i \in 1 .. Size(b) : m[i] = b[i]
      /\ \A i \in 1 .. Size(after) : m[Size(b) + i] = after[i]
      /\ m[Size(b) + Size(after) + 1] = NUL
  BY <1>2, MemoryIs
<1> HIDE DEF m
<1>7. Size(b) \in Nat /\ Size(after) \in Nat /\ Size(m) = Size(b) + Size(after) + 1
  BY <1>2, <1>5, <1>6
<1>8. SubSeq(b, 1, l) = words[1]
  <2>1. 1 + Size(words[1]) <= Size(b) + 1 /\ (1 + Size(words[1])) - 1 = l
    BY <1>1, <1>3, <1>4, <1>5
  <2>2. \A i \in 1 .. Size(words[1]) : b[1 + i - 1] = words[1][i]
    BY <1>3, <1>4, <1>5
  <2>3. StandsIn(b, 1, words[1])
    BY <2>1, <2>2 DEF StandsIn
  <2>4. SubSeq(b, 1, (1 + Size(words[1])) - 1) = words[1]
    BY <1>1, <1>5, <2>3, Slice
  <2> QED
    BY <2>1, <2>4
<1>9. SubSeq(b, at[n], Size(b)) = words[n]
  <2>1. /\ at[n] \in Nat /\ at[n] >= 1 /\ at[n] + Size(words[n]) <= Size(b) + 1
        /\ (at[n] + Size(words[n])) - 1 = Size(b)
    BY <1>1, <1>3, <1>4, <1>5
  <2>2. StandsIn(b, at[n], words[n])
    BY <1>4, <1>5, <2>1 DEF StandsIn
  <2>3. SubSeq(b, at[n], (at[n] + Size(words[n])) - 1) = words[n]
    BY <1>1, <1>5, <2>2, Slice
  <2> QED
    BY <2>1, <2>3
<1>10. ASSUME NEW j \in 1 .. n - 2 PROVE Text(m, t[j]) = words[j + 1]
  <2> DEFINE k == j + 1
             w == words[k]
             p == at[k]
  <2>1. k \in 1 .. n /\ k \in 1 .. n - 1 /\ j \in 1 .. n - 1
    OBVIOUS
  <2>2. t[j] = p
    BY <1>4, <2>1
  <2>3. /\ p \in Nat /\ p >= 1 /\ p + Size(w) <= Size(b) + 1 /\ Size(w) \in Nat
        /\ IsSeq(w, Characters) /\ b[p + Size(w)] = NUL
    BY <1>1, <1>3, <1>4, <1>5, <2>1
  <2>4. \A i \in 1 .. Size(w) : b[p + i - 1] = w[i] /\ w[i] # NUL
    BY <1>1, <1>4, <2>1
  <2>5. p + Size(w) <= Size(b)
    <3>1. at[k] + Size(words[k]) + 1 <= at[n]
      <4>1. k < n /\ \A i \in 1 .. n : Size(words[i]) \in Nat
        BY <1>1, <2>1
      <4> HIDE DEF k
      <4> QED
        BY <1>5, <2>1, <4>1, InLine
    <3>2. Size(words[n]) \in Nat /\ at[n] \in Int
      BY <1>1, <1>3, <1>5
    <3> HIDE DEF k
    <3> QED
      BY <1>4, <2>3, <3>1, <3>2
  <2> HIDE DEF p, w
  <2>6. Size(m) \in Int /\ p + Size(w) <= Size(m) /\ p + Size(w) \in 1 .. Size(b)
    BY <1>7, <2>3, <2>5
  <2>7. m[p + Size(w)] = NUL
    BY <1>6, <2>3, <2>6
  <2>8. \A i \in 1 .. Size(w) : m[p + i - 1] = w[i] /\ w[i] # NUL
    <3> TAKE i \in 1 .. Size(w)
    <3>1. p + i - 1 \in 1 .. Size(b)
      BY <1>7, <2>3, <2>5
    <3> QED
      BY <1>6, <2>4, <3>1
  <2>9. StandsIn(m, p, w)
    BY <1>7, <2>3, <2>6, <2>8 DEF StandsIn
  <2>10. Text(m, p) = w
    BY <1>6, <2>3, <2>6, <2>7, <2>8, <2>9, TextIs
  <2> QED
    BY <2>2, <2>10 DEF w
<1>11. Text(m, t[n - 1]) = words[n] \o after
  <2> DEFINE w == words[n] \o after
             p == at[n]
  <2>1. IsSeq(w, Characters) /\ IsConcat(w, words[n], after)
    BY <1>1, <1>2, <1>5, ConcatIs, Zenon DEF IsSeq
  <2> HIDE DEF w
  <2>2. t[n - 1] = p /\ p \in Nat /\ p >= 1 /\ Size(b) = p + Size(words[n]) - 1
    BY <1>3, <1>4, <1>5
  <2> HIDE DEF p
  <2>3. /\ Size(words[n]) \in Nat /\ Size(w) = Size(words[n]) + Size(after)
        /\ \A i \in 1 .. Size(w) :
             w[i] = IF i <= Size(words[n]) THEN words[n][i] ELSE after[i - Size(words[n])]
    BY <1>1, <1>5, <2>1 DEF IsConcat
  <2>4. p + Size(w) <= Size(m) /\ m[p + Size(w)] = NUL
    <3>1. p + Size(w) = Size(b) + Size(after) + 1
      BY <1>2, <2>2, <2>3
    <3> QED
      BY <1>2, <1>6, <2>2, <2>3, <3>1
  <2>5. \A i \in 1 .. Size(w) : m[p + i - 1] = w[i] /\ w[i] # NUL
    <3> TAKE i \in 1 .. Size(w)
    <3>1. CASE i <= Size(words[n])
      <4>1. i \in 1 .. Size(words[n]) /\ p + i - 1 \in 1 .. Size(b)
        BY <2>2, <2>3, <3>1
      <4>2. b[p + i - 1] = words[n][i] /\ words[n][i] # NUL
        BY <1>1, <1>4, <1>5, <4>1 DEF p
      <4> QED
        BY <1>6, <2>3, <3>1, <4>1, <4>2
    <3>2. CASE ~(i <= Size(words[n]))
      <4> DEFINE j == i - Size(words[n])
      <4>1. j \in 1 .. Size(after) /\ p + i - 1 = Size(b) + j
        BY <1>2, <2>2, <2>3, <3>2
      <4> HIDE DEF j
      <4>2. m[Size(b) + j] = after[j] /\ after[j] # NUL
        BY <1>2, <1>6, <4>1
      <4> QED
        BY <2>3, <3>2, <4>1, <4>2 DEF j
    <3> QED
      BY <3>1, <3>2
  <2>6. StandsIn(m, p, w)
    BY <1>7, <2>2, <2>3, <2>4, <2>5 DEF StandsIn
  <2>7. Text(m, p) = w
    BY <1>6, <2>1, <2>4, <2>5, <2>6, TextIs
  <2> QED
    BY <2>2, <2>7 DEF w
<1> DEFINE a == Arguments(Piece(b, l, t), after)
<1>12. /\ a.ok /\ a.name = SubSeq(b, 1, l)
       /\ a.text = [k \in 1 .. Len(t) |-> Text(m, t[k])]
       /\ a.data = IF Len(t) = 0 THEN <<>> ELSE SubSeq(b, t[Len(t)], Len(b))
  BY DEF Arguments, Piece, Memory, m
<1> HIDE DEF a
<1>13. Len(t) = n - 1 /\ Len(b) = Size(b) /\ t[n - 1] = at[n]
  BY <1>4, <1>5 DEF Size
<1>14. n - 1 # 0
  OBVIOUS
<1>15. a.data = words[n] /\ a.name = words[1] /\ a.ok
  BY <1>8, <1>9, <1>12, <1>13, <1>14
<1>16. a.text = [k \in 1 .. n - 1 |-> Text(m, t[k])]
  BY <1>12, <1>13
<1>17. /\ \A j \in 1 .. n - 2 : a.text[j] = words[j + 1]
       /\ a.text[n - 1] = words[n] \o after
  <2>1. \A j \in 1 .. n - 2 : j \in 1 .. n - 1
    OBVIOUS
  <2> QED
    BY <1>5, <1>10, <1>11, <1>16, <2>1
<1>18. a.text = [j \in 1 .. n - 1 |-> a.text[j]]
  BY <1>16
<1> QED
  BY <1>15, <1>17, <1>18 DEF Taken, a
-----------------------------------------------------------------------------
(* The requests of a session.                                              *)
Request(s, words, n, at) ==
    /\ n \in Nat /\ n >= 2 /\ Size(s) \in Nat /\ IsSeq(s, Char)
    /\ \A k \in 1 .. n : IsSeq(words[k], Char) /\ Size(words[k]) \in Nat
    /\ Laid(s, words, n, Space, at)
    /\ \A k \in 1 .. n - 1 : \A i \in 1 .. Size(words[k]) : words[k][i] # Space

IsCut(p, s, n, at, k) ==
    \E b, l, t :
       /\ IsSeq(b, Characters) /\ IsSeq(t, Int)
       /\ p = Piece(b, l, t) /\ Cutting(b, l, t, s, NUL, at, n, k)

LEMMA CopyIsCut ==
    ASSUME NEW s, NEW words, NEW n, NEW at, Request(s, words, n, at)
    PROVE  IsCut(Copied(s), s, n, at, n)
<1>1. n \in Nat /\ Size(s) \in Nat /\ IsSeq(s, Char)
  BY DEF Request
<1>2. IsSeq(s, Characters)
  BY <1>1, Characterwise
<1> DEFINE t == <<>>
<1>3. IsSeq(t, Int) /\ Size(t) = 0
  BY DEF IsSeq, Size
<1>4. Copied(s) = Piece(s, Size(s), t)
  BY DEF Copied, Piece, Size
<1> HIDE DEF t
<1>5. Cutting(s, Size(s), t, s, NUL, at, n, n)
  BY <1>1, <1>3 DEF Cutting
<1> QED
  BY <1>2, <1>3, <1>4, <1>5 DEF IsCut

LEMMA CutsOn ==
    ASSUME NEW s, NEW words, NEW n, NEW at, Request(s, words, n, at),
           NEW p, NEW k \in 1 .. n - 1, IsCut(p, s, n, at, k + 1)
    PROVE  IsCut(Cut(p, k), s, n, at, k)
<1>1. PICK b, l, t : /\ IsSeq(b, Characters) /\ IsSeq(t, Int)
                     /\ p = Piece(b, l, t) /\ Cutting(b, l, t, s, NUL, at, n, k + 1)
  BY DEF IsCut
<1>2. /\ n \in Nat /\ Size(s) \in Nat /\ Laid(s, words, n, Space, at)
      /\ \A j \in 1 .. n : Size(words[j]) \in Nat
      /\ \A j \in 1 .. n - 1 : \A i \in 1 .. Size(words[j]) : words[j][i] # Space
  BY DEF Request
<1>3. \E c, m, u : /\ IsSeq(c, Characters) /\ IsSeq(u, Int)
                   /\ Cut(Piece(b, l, t), k) = Piece(c, m, u)
                   /\ Cutting(c, m, u, s, NUL, at, n, k)
  BY <1>1, <1>2, CutOnce
<1> QED
  BY <1>1, <1>3 DEF IsCut

LEMMA CutIsTaken ==
    ASSUME NEW s, NEW words, NEW n, NEW at, Request(s, words, n, at),
           NEW p, IsCut(p, s, n, at, 1), NEW after, IsSeq(after, Char)
    PROVE  Taken(Arguments(p, after), words, n, after)
<1>1. PICK b, l, t : /\ IsSeq(b, Characters) /\ IsSeq(t, Int)
                     /\ p = Piece(b, l, t) /\ Cutting(b, l, t, s, NUL, at, n, 1)
  BY DEF IsCut
<1>2. /\ n \in Nat /\ n >= 2 /\ Size(s) \in Nat /\ Laid(s, words, n, Space, at)
      /\ \A j \in 1 .. n : IsSeq(words[j], Char)
  BY DEF Request
<1> QED
  BY <1>1, <1>2, ArgumentsTaken

(* Words without spaces, but for the last.                                 *)
Plain(words) ==
    /\ words \in Seq(Seq(Char)) /\ Len(words) >= 2
    /\ \A k \in 1 .. Len(words) - 1 : \A i \in 1 .. Size(words[k]) : words[k][i] # Space

LEMMA SpacedIsRequest ==
    ASSUME NEW words, Plain(words)
    PROVE  \E at : Request(Spaced(words), words, Len(words), at)
<1> DEFINE s == Joined(words, <<Space>>)
           n == Len(words)
<1>1. words \in Seq(Seq(Char)) /\ n \in Nat /\ n >= 2 /\ words # <<>>
      /\ \A k \in 1 .. n : words[k] \in Seq(Char)
  BY DEF Plain
<1>2. Space \in Char
  BY CharAssumption DEF Space
<1>3. s \in Seq(Char) /\ \E at : Laid(s, words, n, Space, at)
  BY <1>1, <1>2, JoinedLaid
<1>4. s = Spaced(words)
  BY Zenon DEF Spaced, Space
<1>5. \A k \in 1 .. n - 1 : \A i \in 1 .. Size(words[k]) : words[k][i] # Space
  BY DEF Plain
<1> HIDE DEF s, n
<1>6. Size(s) \in Nat /\ IsSeq(s, Char)
  BY <1>3, SizeIs DEF IsSeq
<1>7. \A k \in 1 .. n : IsSeq(words[k], Char) /\ Size(words[k]) \in Nat
  BY <1>1, SizeIs DEF IsSeq
<1>8. PICK at : Laid(s, words, n, Space, at)
  BY <1>3
<1>9. Request(s, words, n, at)
  BY <1>1, <1>5, <1>6, <1>7, <1>8 DEF Request
<1> QED
  BY <1>4, <1>9 DEF n

(* The four ways in which requests are cut.                                *)
LEMMA TakenOf4 ==
    ASSUME NEW words, Plain(words), Len(words) = 4, NEW after, IsSeq(after, Char)
    PROVE  Taken(InsertArguments(Spaced(words), after), words, 4, after)
<1> DEFINE s == Spaced(words)
<1>1. PICK at : Request(s, words, 4, at)
  BY SpacedIsRequest
<1> HIDE DEF s
<1>2. IsCut(Copied(s), s, 4, at, 3 + 1)
  BY <1>1, CopyIsCut
<1>3. IsCut(Cut(Copied(s), 3), s, 4, at, 2 + 1)
  BY <1>1, <1>2, CutsOn
<1>4. IsCut(Cut(Cut(Copied(s), 3), 2), s, 4, at, 1 + 1)
  BY <1>1, <1>3, CutsOn
<1>5. IsCut(Cut(Cut(Cut(Copied(s), 3), 2), 1), s, 4, at, 1)
  BY <1>1, <1>4, CutsOn
<1> QED
  BY <1>1, <1>5, CutIsTaken DEF InsertArguments, s

LEMMA TakenOf3 ==
    ASSUME NEW words, Plain(words), Len(words) = 3, NEW after, IsSeq(after, Char)
    PROVE  /\ Taken(WriteArguments(Spaced(words), after), words, 3, after)
           /\ Taken(DeleteArguments(Spaced(words), after), words, 3, after)
<1> DEFINE s == Spaced(words)
<1>1. PICK at : Request(s, words, 3, at)
  BY SpacedIsRequest
<1> HIDE DEF s
<1>2. IsCut(Copied(s), s, 3, at, 2 + 1)
  BY <1>1, CopyIsCut
<1>3. IsCut(Cut(Copied(s), 2), s, 3, at, 1 + 1)
  BY <1>1, <1>2, CutsOn
<1>4. IsCut(Cut(Cut(Copied(s), 2), 1), s, 3, at, 1)
  BY <1>1, <1>3, CutsOn
<1> QED
  BY <1>1, <1>4, CutIsTaken DEF WriteArguments, DeleteArguments, s

LEMMA TakenOf2 ==
    ASSUME NEW words, Plain(words), Len(words) = 2, NEW after, IsSeq(after, Char)
    PROVE  Taken(ModeArguments(Spaced(words), after), words, 2, after)
<1> DEFINE s == Spaced(words)
<1>1. PICK at : Request(s, words, 2, at)
  BY SpacedIsRequest
<1> HIDE DEF s
<1>2. IsCut(Copied(s), s, 2, at, 1 + 1)
  BY <1>1, CopyIsCut
<1>3. IsCut(Cut(Copied(s), 1), s, 2, at, 1)
  BY <1>1, <1>2, CutsOn
<1> QED
  BY <1>1, <1>3, CutIsTaken DEF ModeArguments, s
LEMMA Bounds ==
    MaxWord \in Nat /\ MaxFields \in Nat /\ MaxData \in 0 .. MaxSize /\ MaxSize \in Nat
BY SessionAssumption, EditAssumption, Zenon

LEMMA WordIs ==
    ASSUME NEW w \in Word
    PROVE  /\ w \in Seq(Char) /\ IsSeq(w, Char)
           /\ \A i \in 1 .. Size(w) : w[i] # Space /\ w[i] # "/"
<1>1. PICK m \in 0 .. MaxWord : w \in [1 .. m -> DOMAIN Digit]
  BY DEF Word, BoundedSeq, SeqOf
<1>2. m \in Nat
  BY <1>1, Bounds
<1>3. w \in Seq(DOMAIN Digit)
  BY <1>1, <1>2
<1>4. \A c \in DOMAIN Digit : c \in Char /\ c # Space /\ c # "/"
  BY SessionAssumption DEF Space
<1>5. w \in Seq(Char)
  BY <1>3, <1>4
<1>6. \A i \in 1 .. Size(w) : w[i] \in DOMAIN Digit
  BY <1>3, SizeIs
<1> QED
  BY <1>4, <1>5, <1>6 DEF IsSeq

LEMMA DataIs ==
    ASSUME NEW data \in Data
    PROVE  data \in Seq(Char) /\ Len(data) \in 0 .. MaxSize
<1>1. PICK m \in 0 .. MaxData : data \in [1 .. m -> Char]
  BY DEF Data, BoundedSeq, SeqOf
<1>2. m \in Nat /\ m <= MaxSize
  BY <1>1, Bounds
<1> QED
  BY <1>1, <1>2

LEMMA PlainWords ==
    ASSUME NEW w1 \in Word, NEW w2 \in Word, NEW w3 \in Word, NEW data \in Seq(Char)
    PROVE  /\ Plain(<<w1, data>>) /\ Plain(<<w1, w2, data>>)
           /\ Plain(<<w1, w2, w3, data>>)
<1>1. w1 \in Seq(Char) /\ w2 \in Seq(Char) /\ w3 \in Seq(Char)
  BY WordIs
<1>2. /\ \A i \in 1 .. Size(w1) : w1[i] # Space
      /\ \A i \in 1 .. Size(w2) : w2[i] # Space
      /\ \A i \in 1 .. Size(w3) : w3[i] # Space
  BY WordIs
<1>3. Plain(<<w1, data>>)
  <2>1. <<w1, data>> \in Seq(Seq(Char)) /\ Len(<<w1, data>>) = 2
    BY <1>1
  <2> QED
    BY <1>2, <2>1 DEF Plain
<1>4. Plain(<<w1, w2, data>>)
  <2>1. <<w1, w2, data>> \in Seq(Seq(Char)) /\ Len(<<w1, w2, data>>) = 3
    BY <1>1
  <2> QED
    BY <1>2, <2>1 DEF Plain
<1>5. Plain(<<w1, w2, w3, data>>)
  <2>1. <<w1, w2, w3, data>> \in Seq(Seq(Char)) /\ Len(<<w1, w2, w3, data>>) = 4
    BY <1>1
  <2> QED
    BY <1>2, <2>1 DEF Plain
<1> QED
  BY <1>3, <1>4, <1>5

(* What a request can be.                                                  *)
Told(cmd, words) ==
    \E name, a, b \in Word, data \in Data :
       \/ cmd = "w" /\ words = <<name, a, data>>
       \/ cmd = "i" /\ words = <<name, a, b, data>>
       \/ cmd = "d" /\ words = <<name, a, b>>
       \/ cmd = "chmod" /\ words = <<name, a>>
       \/ cmd = "cd" /\ words \in Chain

RequestTyped ==
    \/ request = NoRequest
    \/ \E cmd, words : \E after \in Word :
          Told(cmd, words) /\ request = [cmd |-> cmd, words |-> words, after |-> after]

LEMMA SomeWord == <<>> \in Word /\ <<>> \in Data
<1>1. <<>> \in [1 .. 0 -> DOMAIN Digit] /\ <<>> \in [1 .. 0 -> Char]
  OBVIOUS
<1>2. 0 \in 0 .. MaxWord /\ 0 \in 0 .. MaxData
  BY Bounds
<1> QED
  BY <1>1, <1>2 DEF Word, Data, BoundedSeq, SeqOf

LEMMA RequestsTyped == Spec => []RequestTyped
<1>1. Init => RequestTyped
  BY DEF Init, RequestTyped
<1>2. RequestTyped /\ [Next]_vars => RequestTyped'
  <2> SUFFICES ASSUME RequestTyped, [Next]_vars PROVE RequestTyped'
    OBVIOUS
  <2>1. ASSUME NEW cmd, NEW words, Told(cmd, words), Send(cmd, words)
        PROVE  RequestTyped'
    BY <2>1 DEF Send, RequestTyped
  <2>2. ASSUME NEW name \in Word, NEW a \in Word, NEW b \in Word, NEW data \in Data,
               \/ Send("w", <<name, a, data>>) \/ Send("i", <<name, a, b, data>>)
               \/ Send("d", <<name, a, b>>) \/ Send("chmod", <<name, a>>)
        PROVE  RequestTyped'
    <3>1. /\ Told("w", <<name, a, data>>) /\ Told("i", <<name, a, b, data>>)
          /\ Told("d", <<name, a, b>>) /\ Told("chmod", <<name, a>>)
      BY Zenon DEF Told
    <3> QED
      BY <2>1, <2>2, <3>1
  <2>3. ASSUME NEW path \in Chain, Send("cd", path) PROVE RequestTyped'
    <3>1. Told("cd", path)
      BY SomeWord, Zenon DEF Told
    <3> QED
      BY <2>1, <2>3, <3>1
  <2>4. CASE Parse
    BY <2>4 DEF Parse, RequestTyped
  <2>5. CASE Refuse
    BY <2>5 DEF Refuse, RequestTyped
  <2>6. CASE UNCHANGED request
    BY <2>6 DEF RequestTyped
  <2> QED
    BY <2>2, <2>3, <2>4, <2>5, <2>6 DEF Next, vars
<1> QED
  BY <1>1, <1>2, PTL DEF Spec

LEMMA Texts ==
    ASSUME NEW f, NEW x, NEW y
    PROVE  /\ f = [j \in 1 .. 3 - 1 |-> f[j]] /\ f[1] = x /\ f[3 - 1] = y => f = <<x, y>>
           /\ f = [j \in 1 .. 2 - 1 |-> f[j]] /\ f[2 - 1] = y => f = <<y>>
OBVIOUS

LEMMA ReadBack ==
    ASSUME RequestTyped
    PROVE  RequestsReadBack
<1> DEFINE words == request.words
           after == request.after
           s == Spaced(words)
<1>1. CASE request = NoRequest
  BY <1>1 DEF NoRequest, RequestsReadBack
<1>2. ASSUME NEW cmd, NEW ws, NEW af \in Word,
             request = [cmd |-> cmd, words |-> ws, after |-> af],
             NEW name \in Word, NEW a \in Word, NEW b \in Word, NEW data \in Data,
             \/ cmd = "w" /\ ws = <<name, a, data>>
             \/ cmd = "i" /\ ws = <<name, a, b, data>>
             \/ cmd = "d" /\ ws = <<name, a, b>>
             \/ cmd = "chmod" /\ ws = <<name, a>>
             \/ cmd = "cd" /\ ws \in Chain
      PROVE  RequestsReadBack
  <2>1. request.cmd = cmd /\ words = ws /\ after = af /\ IsSeq(after, Char)
    BY <1>2, WordIs
  <2>2. data \in Seq(Char) /\ a \in Seq(Char) /\ b \in Seq(Char)
    BY DataIs, WordIs
  <2>3. CASE cmd = "w"
    <3>1. words = <<name, a, data>> /\ Plain(words) /\ Len(words) = 3
      BY <1>2, <2>1, <2>2, <2>3, PlainWords
    <3> DEFINE r == WriteArguments(s, after)
    <3>2. Taken(r, words, 3, after)
      BY <2>1, <3>1, TakenOf3
    <3> HIDE DEF r
    <3>3. r.ok /\ r.name = words[1] /\ r.text[1] = words[2] /\ r.data = words[3]
      BY <3>2 DEF Taken
    <3> QED
      BY <2>1, <2>3, <3>3 DEF RequestsReadBack, Sent, r
  <2>4. CASE cmd = "i"
    <3>1. words = <<name, a, b, data>> /\ Plain(words) /\ Len(words) = 4
      BY <1>2, <2>1, <2>2, <2>4, PlainWords
    <3> DEFINE r == InsertArguments(s, after)
    <3>2. Taken(r, words, 4, after)
      BY <2>1, <3>1, TakenOf4
    <3> HIDE DEF r
    <3>3. /\ r.ok /\ r.name = words[1] /\ r.text[1] = words[2] /\ r.text[2] = words[3]
          /\ r.data = words[4]
      BY <3>2 DEF Taken
    <3> QED
      BY <2>1, <2>4, <3>3 DEF RequestsReadBack, Sent, r
  <2>5. CASE cmd = "d"
    <3>1. words = <<name, a, b>> /\ Plain(words) /\ Len(words) = 3
      BY <1>2, <2>1, <2>2, <2>5, PlainWords
    <3> DEFINE r == DeleteArguments(s, after)
    <3>2. Taken(r, words, 3, after)
      BY <2>1, <3>1, TakenOf3
    <3> HIDE DEF r
    <3> DEFINE last == words[3] \o after
    <3>3. /\ r.ok /\ r.name = words[1] /\ r.text[1] = words[1 + 1] /\ r.data = words[3]
          /\ r.text[3 - 1] = last /\ r.text = [j \in 1 .. 3 - 1 |-> r.text[j]]
      <4>1. 1 \in 1 .. 3 - 2
        OBVIOUS
      <4> QED
        BY <3>2, <4>1, Zenon DEF Taken
    <3>4. r.text = <<words[2], last>>
      <4> HIDE DEF last
      <4> QED
        BY <3>3, Texts
    <3> QED
      BY <2>1, <2>5, <3>3, <3>4 DEF RequestsReadBack, Sent, r
  <2>6. CASE cmd = "chmod"
    <3>1. words = <<name, a>> /\ Plain(words) /\ Len(words) = 2
      BY <1>2, <2>1, <2>2, <2>6, PlainWords
    <3> DEFINE r == ModeArguments(s, after)
    <3>2. Taken(r, words, 2, after)
      BY <2>1, <3>1, TakenOf2
    <3> HIDE DEF r
    <3> DEFINE last == words[2] \o after
    <3>3. /\ r.ok /\ r.name = words[1] /\ r.data = words[2]
          /\ r.text[2 - 1] = last /\ r.text = [j \in 1 .. 2 - 1 |-> r.text[j]]
      BY <3>2, Zenon DEF Taken
    <3>4. r.text = <<last>>
      <4> HIDE DEF last
      <4> QED
        BY <3>3, Texts
    <3> QED
      BY <2>1, <2>6, <3>3, <3>4 DEF RequestsReadBack, Sent, r
  <2>7. CASE cmd = "cd"
    BY <2>1, <2>7 DEF RequestsReadBack
  <2> QED
    BY <1>2, <2>3, <2>4, <2>5, <2>6, <2>7
<1> QED
  BY <1>1, <1>2 DEF RequestTyped, Told

(* However many digits a client writes, whatever its data hold and         *)
(* whatever lies behind the copy, the commands take the words out of a     *)
(* request that it put in; the last number of d and chmod runs on          *)
(* (buffer.c:cut_at_n_space, fs.c:write_file, insert_file, delete_in_file, *)
(* chmod_file).                                                            *)
THEOREM RequestsAreReadBack == Spec => []RequestsReadBack
<1>1. RequestTyped => RequestsReadBack
  BY ReadBack
<1> QED
  BY <1>1, RequestsTyped, PTL
-----------------------------------------------------------------------------
(* Paths.  What is found field by field, the first before the rest.        *)
Rest(h, x, e, k) ==
    /\ Size(h[k]) = e + 1 - k
    /\ \A i \in 1 .. e + 1 - k : h[k][i] = x[k + i - 1]

LEMMA FirstAndRest ==
    ASSUME NEW S, NEW e \in Nat, NEW k \in 1 .. e, NEW x, NEW h, x[k] \in S,
           IsSeq(h[k + 1], S), Rest(h, x, e, k + 1), h[k] = <<x[k]>> \o h[k + 1]
    PROVE  IsSeq(h[k], S) /\ Rest(h, x, e, k)
<1> DEFINE f == <<x[k]>>
           t == h[k + 1]
           u == f \o t
<1>1. IsSeq(f, S) /\ Size(f) = 1 /\ f[1] = x[k]
  BY DEF IsSeq, Size
<1> HIDE DEF f
<1>2. IsSeq(u, S) /\ IsConcat(u, f, t)
  BY <1>1, ConcatIs, Zenon DEF IsSeq
<1>3. h[k] = u
  BY Zenon DEF f
<1> HIDE DEF u
<1>4. Size(t) = e - k /\ \A i \in 1 .. e - k : t[i] = x[k + i]
  <2>1. /\ Size(t) = e + 1 - (k + 1)
        /\ \A i \in 1 .. e + 1 - (k + 1) : t[i] = x[(k + 1) + i - 1]
    BY DEF Rest
  <2> HIDE DEF t
  <2>2. Size(t) = e - k /\ e + 1 - (k + 1) = e - k
    BY <2>1
  <2>3. ASSUME NEW i \in 1 .. e - k PROVE t[i] = x[k + i]
    <3>1. i \in 1 .. e + 1 - (k + 1) /\ (k + 1) + i - 1 = k + i
      OBVIOUS
    <3> QED
      BY <2>1, <3>1
  <2> QED
    BY <2>2, <2>3
<1> HIDE DEF t
<1>5. e - k \in Nat
  OBVIOUS
<1>6. /\ Size(u) = 1 + Size(t) /\ u[1] = f[1]
      /\ \A j \in 1 .. Size(t) : u[1 + j] = t[j]
  BY <1>1, <1>2, <1>4, <1>5, Prefixed
<1>7. ASSUME NEW i \in 1 .. e + 1 - k PROVE u[i] = x[k + i - 1]
  <2>1. CASE i = 1
    BY <1>1, <1>6, <2>1
  <2>2. CASE i # 1
    <3>1. i - 1 \in 1 .. e - k /\ 1 + (i - 1) = i /\ k + (i - 1) = k + i - 1
      BY <2>2
    <3> QED
      BY <1>4, <1>6, <3>1
  <2> QED
    BY <2>1, <2>2
<1>8. Size(u) = e + 1 - k
  BY <1>4, <1>6
<1>9. /\ Size(h[k]) = e + 1 - k
      /\ \A i \in 1 .. e + 1 - k : h[k][i] = x[k + i - 1]
  BY <1>3, <1>7, <1>8
<1> QED
  BY <1>2, <1>3, <1>9 DEF Rest

Put(f, t) == <<f>> \o t

Collects(h, x, e) ==
    h[e + 1] = <<>> /\ \A k \in 1 .. e : h[k] = Put(x[k], h[k + 1])

LEMMA Collected ==
    ASSUME NEW S, NEW e \in Nat, NEW x \in [1 .. e -> S], NEW h, Collects(h, x, e)
    PROVE  h[1] = x
<1> DEFINE P(k) == IsSeq(h[k], S) /\ Rest(h, x, e, k)
           A == {j \in Nat : j <= e => P(e + 1 - j)}
<1>1. \A k \in 1 .. e : x[k] \in S
  OBVIOUS
<1>2. 0 \in A
  <2>1. IsSeq(h[e + 1], S) /\ Size(h[e + 1]) = 0
    BY DEF IsSeq, Size, Collects
  <2>2. e + 1 - 0 = e + 1 /\ e + 1 - (e + 1) = 0
    OBVIOUS
  <2> QED
    BY <2>1, <2>2 DEF Rest
<1>3. ASSUME NEW j \in Nat, j \in A PROVE j + 1 \in A
  <2>1. SUFFICES ASSUME j + 1 <= e PROVE P(e + 1 - (j + 1))
    <3> HIDE DEF P
    <3> QED
      OBVIOUS
  <2> DEFINE k == e + 1 - (j + 1)
  <2>2. k \in 1 .. e /\ k + 1 = e + 1 - j
    BY <2>1
  <2>3. P(k + 1)
    <3> HIDE DEF P
    <3> QED
      BY <1>3, <2>1, <2>2
  <2> HIDE DEF k
  <2>4. h[k] = <<x[k]>> \o h[k + 1]
    BY <2>2, Zenon DEF Collects, Put
  <2>5. P(k)
    BY <1>1, <2>2, <2>3, <2>4, FirstAndRest
  <2> QED
    BY <2>5 DEF k
<1>4. Nat \subseteq A
  <2> HIDE DEF A
  <2> QED
    BY <1>2, <1>3, Induction
<1>5. e \in A
  <2> HIDE DEF A
  <2> QED
    BY <1>4
<1>6. P(1)
  <2>1. e + 1 - e = 1
    OBVIOUS
  <2> HIDE DEF P
  <2> QED
    BY <1>5, <2>1
<1>7. h[1] \in Seq(S) /\ Len(h[1]) = e
  BY <1>6 DEF Rest, IsSeq, Size
<1>8. \A i \in 1 .. e : h[1][i] = x[i]
  <2> TAKE i \in 1 .. e
  <2>1. i \in 1 .. e + 1 - 1 /\ 1 + i - 1 = i
    OBVIOUS
  <2> QED
    BY <1>6, <2>1 DEF Rest
<1>9. x \in Seq(S) /\ Len(x) = e
  OBVIOUS
<1> QED
  BY <1>7, <1>8, <1>9, SeqEqual

Slash == "/"

(* A path of words without a slash, and where they are.                    *)
Path(s, words, n, at) ==
    /\ IsSeq(s, Char) /\ Size(s) \in Nat
    /\ \A k \in 1 .. n : IsSeq(words[k], Char) /\ Size(words[k]) \in Nat
    /\ \A k \in 1 .. n : \A i \in 1 .. Size(words[k]) : words[k][i] # Slash
    /\ Laid(s, words, n, Slash, at)

Walked(word) == IF Size(word) = 0 THEN Root ELSE word

(* The field at the beginning of a word is the word.                       *)
FieldAt(s, words, n, at, k) ==
    /\ at[k] \in 1 .. Size(s) + 1
    /\ at[k] > Size(s) <=> k = n /\ Size(words[n]) = 0
    /\ End(s, at[k], {Slash}) = at[k] + Size(words[k])
    /\ Field(s, at[k]) = Walked(words[k])
    /\ at[k] + Size(words[k]) + 1 = IF k = n THEN Size(s) + 2 ELSE at[k + 1]

LEMMA FieldIsWord ==
    ASSUME NEW n \in Nat, NEW words, NEW s, NEW at, Path(s, words, n, at), NEW k \in 1 .. n
    PROVE  FieldAt(s, words, n, at, k)
<1> DEFINE w == words[k]
           p == at[k]
           e == p + Size(w)
<1>1. Size(w) \in Nat /\ IsSeq(w, Char) /\ \A i \in 1 .. Size(w) : w[i] # Slash
  BY DEF Path
<1>2. /\ \A j \in 1 .. n : Size(words[j]) \in Nat
       /\ Laid(s, words, n, Slash, at) /\ Size(s) \in Nat /\ IsSeq(s, Char)
  BY DEF Path
<1>3. /\ p >= 1 /\ e <= Size(s) + 1
      /\ \A j \in 1 .. n : k < j => e + 1 <= at[j]
  BY <1>2, InLine
<1>4. /\ \A j \in 1 .. n : at[j] \in Int /\ Size(words[j]) \in Nat
      /\ k # n => at[k + 1] = e + 1 /\ s[at[k + 1] - 1] = Slash
      /\ Size(s) = at[n] + Size(words[n]) - 1
      /\ \A i \in 1 .. Size(w) : s[p + i - 1] = w[i]
  <2>1. k # n => k \in 1 .. n - 1
    OBVIOUS
  <2> QED
    BY <1>2, <2>1 DEF Laid
<1>5. p \in Int /\ n \in 1 .. n /\ at[n] \in Int
  BY <1>4
<1> HIDE DEF w
<1>6. /\ e = p + Size(w) /\ e \in p .. Size(s) + 1 /\ p \in 1 .. Size(s) + 1
      /\ e = Size(s) + 1 \/ s[e] = Slash
  <2>1. CASE k = n
    <3>1. Size(s) = p + Size(w) - 1
      BY <1>4, <2>1 DEF w
    <3>2. e = Size(s) + 1
      BY <1>1, <1>5, <3>1
    <3> QED
      BY <1>1, <1>3, <1>5, <1>2, <3>2
  <2>2. CASE k # n
    <3>1. at[k + 1] - 1 = e
      BY <1>1, <1>4, <1>5, <2>2
    <3> QED
      BY <1>1, <1>3, <1>4, <1>5, <1>2, <2>2, <3>1
  <2> QED
    BY <2>1, <2>2
<1>7. p > Size(s) <=> k = n /\ Size(words[n]) = 0
  <2>1. CASE k = n
    BY <1>1, <1>4, <1>5, <2>1 DEF w
  <2>2. CASE k # n
    <3>1. e + 1 <= at[n] /\ Size(words[n]) \in Nat
      BY <1>3, <1>4, <1>5, <2>2
    <3>2. p <= Size(s)
      BY <1>1, <1>4, <1>5, <3>1
    <3> QED
      BY <1>5, <1>2, <2>2, <3>2
  <2> QED
    BY <2>1, <2>2
<1>8. e + 1 = IF k = n THEN Size(s) + 2 ELSE at[k + 1]
  BY <1>1, <1>4, <1>5 DEF w
<1> HIDE DEF p, e
<1>9. \A j \in p .. e - 1 : s[j] \notin {Slash}
  <2> TAKE j \in p .. e - 1
  <2>1. j - p + 1 \in 1 .. Size(w) /\ p + (j - p + 1) - 1 = j
    BY <1>1, <1>5, <1>6
  <2> QED
    BY <1>1, <1>4, <2>1
<1>10. End(s, p, {Slash}) = e
  BY <1>6, <1>9, <1>2, EndAt
<1>11. (e = p <=> Size(w) = 0) /\ p \in Nat
  BY <1>1, <1>5, <1>6
<1>12. SubSeq(s, p, e - 1) = w
  <2>1. StandsIn(s, p, w)
    BY <1>1, <1>4, <1>6, <1>11 DEF StandsIn
  <2>2. SubSeq(s, p, (p + Size(w)) - 1) = w
    BY <1>1, <1>2, <2>1, Slice
  <2> QED
    BY <2>2 DEF e
<1>13. Field(s, p) = Walked(w)
  <2>1. Field(s, p) = LET d == End(s, p, {Slash}) IN IF d = p THEN Root ELSE SubSeq(s, p, d - 1)
    BY Zenon DEF Field, Slash
  <2> QED
    BY <1>10, <1>11, <1>12, <2>1 DEF Walked
<1> QED
  BY <1>6, <1>7, <1>8, <1>10, <1>13 DEF p, e, w, FieldAt
(* What Fields does from each place on.                                    *)
LEMMA FieldsFrom ==
    ASSUME NEW s, Size(s) \in Nat
    PROVE  \E g : /\ Fields(s) = g[1]
                  /\ \A i \in 1 .. Size(s) + 2 :
                       g[i] = IF i > Size(s) THEN <<>>
                              ELSE <<Field(s, i)>> \o g[End(s, i, {Slash}) + 1]
BY FieldsDef, Zenon DEF Size, Slash

LEMMA FieldsOfPath ==
    ASSUME NEW n \in Nat, n >= 1, NEW words, NEW s, NEW at, Path(s, words, n, at)
    PROVE  Fields(s) = [k \in 1 .. (IF Size(words[n]) = 0 THEN n - 1 ELSE n) |->
                          Walked(words[k])]
<1> DEFINE e == IF Size(words[n]) = 0 THEN n - 1 ELSE n
           x == [k \in 1 .. e |-> Walked(words[k])]
<1>1. /\ Size(s) \in Nat /\ Laid(s, words, n, Slash, at)
      /\ \A k \in 1 .. n : IsSeq(words[k], Char) /\ Size(words[k]) \in Nat
  BY DEF Path
<1>2. PICK g : /\ Fields(s) = g[1]
               /\ \A i \in 1 .. Size(s) + 2 :
                     g[i] = IF i > Size(s) THEN <<>>
                            ELSE <<Field(s, i)>> \o g[End(s, i, {Slash}) + 1]
  BY <1>1, FieldsFrom
<1>3. \A i \in 1 .. Size(s) + 2 :
         g[i] = IF i > Size(s) THEN <<>> ELSE Put(Field(s, i), g[End(s, i, {Slash}) + 1])
  BY <1>2, Zenon DEF Put
<1>4. \A k \in 1 .. n : FieldAt(s, words, n, at, k)
  BY FieldIsWord
<1>5. \A k \in 1 .. n :
         /\ at[k] \in 1 .. Size(s) + 1
         /\ at[k] > Size(s) <=> k = n /\ Size(words[n]) = 0
         /\ End(s, at[k], {Slash}) = at[k] + Size(words[k])
         /\ Field(s, at[k]) = Walked(words[k])
         /\ at[k] + Size(words[k]) + 1 = IF k = n THEN Size(s) + 2 ELSE at[k + 1]
  BY <1>4 DEF FieldAt
<1> DEFINE q == [k \in 1 .. n + 1 |-> IF k <= n THEN at[k] ELSE Size(s) + 2]
           h == [k \in 1 .. e + 1 |-> g[q[k]]]
<1>6. /\ e \in Nat /\ e <= n /\ e + 1 \in 1 .. n + 1
      /\ \A k \in 1 .. e : k \in 1 .. n /\ k + 1 \in 1 .. n + 1 /\ ~(k = n /\ Size(words[n]) = 0)
  OBVIOUS
<1>7. \A k \in 1 .. e : q[k] = at[k] /\ at[k] + Size(words[k]) + 1 = q[k + 1]
  BY <1>5, <1>6
<1>8. q[e + 1] \in 1 .. Size(s) + 2 /\ q[e + 1] > Size(s)
  BY <1>1, <1>5
<1>9. q[1] = 1
  BY <1>1 DEF Laid
<1> HIDE DEF q, e
<1>10. \A k \in 1 .. e : g[q[k]] = Put(Walked(words[k]), g[q[k + 1]])
  <2> TAKE k \in 1 .. e
  <2>1. /\ k \in 1 .. n /\ ~(k = n /\ Size(words[n]) = 0) /\ q[k] = at[k]
        /\ at[k] + Size(words[k]) + 1 = q[k + 1]
    BY <1>6, <1>7
  <2>2. /\ at[k] \in 1 .. Size(s) + 1 /\ ~(at[k] > Size(s))
        /\ End(s, at[k], {Slash}) = at[k] + Size(words[k])
        /\ Field(s, at[k]) = Walked(words[k])
    BY <1>5, <2>1
  <2>3. at[k] \in 1 .. Size(s) + 2
    BY <1>1, <2>2
  <2>4. g[at[k]] = Put(Field(s, at[k]), g[End(s, at[k], {Slash}) + 1])
    BY <1>3, <2>2, <2>3
  <2> QED
    BY <2>1, <2>2, <2>4
<1>11. h[e + 1] = <<>> /\ h[1] = g[1]
  <2>1. e + 1 \in 1 .. e + 1 /\ 1 \in 1 .. e + 1
    BY <1>6
  <2>2. g[q[e + 1]] = <<>>
    BY <1>3, <1>8
  <2> QED
    BY <1>9, <2>1, <2>2
<1>12. \A k \in 1 .. e : h[k] = Put(x[k], h[k + 1])
  <2> TAKE k \in 1 .. e
  <2>1. k \in 1 .. e + 1 /\ k + 1 \in 1 .. e + 1
    BY <1>6
  <2>2. h[k] = g[q[k]] /\ h[k + 1] = g[q[k + 1]] /\ x[k] = Walked(words[k])
    BY <2>1
  <2> HIDE DEF h, x
  <2> QED
    BY <1>10, <2>2
<1>13. x \in [1 .. e -> Seq(Char)]
  <2>1. Slash \in Char
    BY CharAssumption, Zenon DEF Slash
  <2>2. Root \in Seq(Char)
    <3>1. Root = <<Slash>>
      BY Zenon DEF Root, Slash
    <3> QED
      BY <2>1, <3>1
  <2>3. \A k \in 1 .. e : Walked(words[k]) \in Seq(Char)
    BY <1>1, <1>6, <2>2 DEF Walked, IsSeq
  <2> QED
    BY <2>3
<1> HIDE DEF h, x
<1>14. h[1] = x
  <2>1. Collects(h, x, e)
    BY <1>11, <1>12 DEF Collects
  <2> QED
    BY <1>6, <1>13, <2>1, Collected
<1> QED
  BY <1>2, <1>11, <1>14, Zenon DEF x, e

(* The fields of a path are its words, Root for an empty one, without the  *)
(* last if it is empty.                                                    *)
LEMMA FieldsAreWords ==
    ASSUME NEW words \in Seq(Seq(Char)), words # <<>>,
           \A k \in 1 .. Len(words) : \A i \in 1 .. Size(words[k]) : words[k][i] # Slash
    PROVE  LET n == Len(words)
               e == IF Size(words[n]) = 0 THEN n - 1 ELSE n
           IN Fields(Slashed(words)) = [k \in 1 .. e |-> Walked(words[k])]
<1> DEFINE n == Len(words)
           s == Joined(words, <<Slash>>)
<1>1. n \in Nat /\ n >= 1 /\ \A k \in 1 .. n : words[k] \in Seq(Char)
  OBVIOUS
<1>2. Slash \in Char
  BY CharAssumption, Zenon DEF Slash
<1>3. s \in Seq(Char) /\ \E at : Laid(s, words, n, Slash, at)
  BY <1>2, JoinedLaid
<1>4. s = Slashed(words)
  BY Zenon DEF Slashed, Slash
<1>5. \A k \in 1 .. n : \A i \in 1 .. Size(words[k]) : words[k][i] # Slash
  OBVIOUS
<1> HIDE DEF s, n
<1>6. Size(s) \in Nat /\ IsSeq(s, Char)
  BY <1>3, SizeIs DEF IsSeq
<1>7. \A k \in 1 .. n : IsSeq(words[k], Char) /\ Size(words[k]) \in Nat
  BY <1>1, SizeIs DEF IsSeq
<1>8. PICK at : Laid(s, words, n, Slash, at)
  BY <1>3
<1>9. Path(s, words, n, at)
  BY <1>5, <1>6, <1>7, <1>8, Zenon DEF Path
<1>10. Fields(s) = [k \in 1 .. (IF Size(words[n]) = 0 THEN n - 1 ELSE n) |-> Walked(words[k])]
  BY <1>1, <1>9, FieldsOfPath
<1> QED
  BY <1>4, <1>10, Zenon DEF n

LEMMA FieldByField ==
    ASSUME NEW words \in Chain
    PROVE  LET walked == [k \in DOMAIN words |-> IF words[k] = <<>> THEN Root ELSE words[k]]
           IN Fields(Slashed(words)) =
                IF Last(words) = <<>> THEN Front(walked) ELSE walked
<1> DEFINE n == Len(words)
           walked == [k \in DOMAIN words |-> IF words[k] = <<>> THEN Root ELSE words[k]]
           e == IF Size(words[n]) = 0 THEN n - 1 ELSE n
           x == [k \in 1 .. e |-> Walked(words[k])]
<1>1. words # <<>> /\ \E m \in 0 .. MaxFields : words \in [1 .. m -> Word]
  BY DEF Chain, BoundedSeq, SeqOf
<1>2. MaxFields \in Nat
  BY Bounds
<1>3. words \in Seq(Word)
  BY <1>1, <1>2
<1>4. \A k \in 1 .. n : words[k] \in Word
  BY <1>3
<1>5. words \in Seq(Seq(Char))
  BY <1>3, <1>4, WordIs
<1>6. \A k \in 1 .. n : \A i \in 1 .. Size(words[k]) : words[k][i] # Slash
  BY <1>4, WordIs DEF Slash
<1>7. Fields(Slashed(words)) = x
  BY <1>1, <1>5, <1>6, FieldsAreWords
<1>8. n \in Nat /\ n >= 1 /\ DOMAIN words = 1 .. n /\ Last(words) = words[n]
  BY <1>1, <1>3 DEF Last
<1> HIDE DEF n
<1>9. \A k \in 1 .. n : words[k] = <<>> <=> Size(words[k]) = 0
  <2> TAKE k \in 1 .. n
  <2>1. words[k] \in Seq(Char)
    BY <1>4, WordIs
  <2> QED
    BY <2>1 DEF Size
<1>10. \A k \in 1 .. n : (IF words[k] = <<>> THEN Root ELSE words[k]) = Walked(words[k])
  BY <1>9 DEF Walked
<1>11. walked = [k \in 1 .. n |-> Walked(words[k])]
  BY <1>8, <1>10
<1>12. n \in 1 .. n /\ (Last(words) = <<>> <=> Size(words[n]) = 0)
  BY <1>8, <1>9
<1> HIDE DEF walked
<1>13. CASE Last(words) = <<>>
  <2>1. x = [k \in 1 .. n - 1 |-> Walked(words[k])]
    BY <1>13, <1>12
  <2>2. Len(walked) = n
    BY <1>8, <1>11
  <2>3. Front(walked) = [k \in 1 .. n - 1 |-> Walked(words[k])]
    BY <1>8, <1>11, <2>2 DEF Front
  <2> QED
    BY <1>7, <1>13, <2>1, <2>3, Zenon DEF walked
<1>14. CASE Last(words) # <<>>
  <2>1. x = [k \in 1 .. n |-> Walked(words[k])]
    BY <1>14, <1>12
  <2> QED
    BY <1>7, <1>11, <1>14, <2>1, Zenon DEF walked
<1> QED
  BY <1>13, <1>14

(* A path of any length is walked word by word: an empty word leads back   *)
(* to the root, and an empty last one nowhere                              *)
(* (buffer.c:buffer_get_first_field, fs.c:change_dir).                     *)
THEOREM PathsAreWalked == Spec => []PathsFieldByField
<1>1. RequestTyped => PathsFieldByField
  <2> SUFFICES ASSUME RequestTyped, request.cmd = "cd" PROVE PathsFieldByField
    BY DEF PathsFieldByField
  <2>1. request # NoRequest
    BY DEF NoRequest
  <2>2. PICK cmd, words : \E after \in Word :
          Told(cmd, words) /\ request = [cmd |-> cmd, words |-> words, after |-> after]
    BY <2>1, Zenon DEF RequestTyped
  <2>3. request.words \in Chain
    BY <2>2 DEF Told
  <2> QED
    BY <2>3, FieldByField, Zenon DEF PathsFieldByField
<1> QED
  BY <1>1, RequestsTyped, PTL
-----------------------------------------------------------------------------
(* What is parsed is an edit of the file.                                  *)
LEMMA DataIsFile ==
    ASSUME NEW data \in Seq(Char), Len(data) \in 0 .. MaxSize
    PROVE  AsFile(data) \in File
<1> DEFINE n == Len(data)
<1>1. \A i \in 0 .. n - 1 : data[i + 1] \in Byte
  <2> TAKE i \in 0 .. n - 1
  <2>1. i + 1 \in 1 .. n /\ n \in Nat
    OBVIOUS
  <2>2. data[i + 1] \in Char
    BY <2>1
  <2> QED
    BY <2>2, SessionAssumption
<1>2. AsFile(data) \in [size : {n}, byte : [0 .. n - 1 -> Byte]]
  <2> HIDE DEF n
  <2>1. AsFile(data) = [size |-> n, byte |-> [i \in 0 .. n - 1 |-> data[i + 1]]]
    BY Zenon DEF AsFile, n
  <2> QED
    BY <1>1, <2>1
<1>3. n \in 0 .. MaxSize
  OBVIOUS
<1> HIDE DEF n
<1> QED
  BY <1>2, <1>3 DEF File

LEMMA ParsedIsEdit ==
    ASSUME RequestTyped, Parse
    PROVE  \E e \in Edit : CallKernel(e)
<1> DEFINE words == request.words
           after == request.after
           s == Spaced(words)
<1>1. request # NoRequest
  BY DEF NoRequest, Parse, write_file, insert_file, delete_in_file
<1>2. PICK cmd, ws : \E af \in Word :
        Told(cmd, ws) /\ request = [cmd |-> cmd, words |-> ws, after |-> af]
  BY <1>1, Zenon DEF RequestTyped
<1>3. request.cmd = cmd /\ words = ws /\ Told(cmd, words) /\ after \in Word
  BY <1>2
<1>4. PICK name \in Word, a \in Word, b \in Word, data \in Data :
        \/ cmd = "w" /\ words = <<name, a, data>>
        \/ cmd = "i" /\ words = <<name, a, b, data>>
        \/ cmd = "d" /\ words = <<name, a, b>>
        \/ cmd = "chmod" /\ words = <<name, a>>
        \/ cmd = "cd" /\ words \in Chain
  BY <1>3, Zenon DEF Told
<1>5. data \in Seq(Char) /\ Len(data) \in 0 .. MaxSize /\ AsFile(data) \in File
  BY DataIs, DataIsFile
<1>6. a \in Seq(Char) /\ b \in Seq(Char) /\ after \in Seq(Char) /\ IsSeq(after, Char)
  BY <1>3, WordIs
<1>7. CASE write_file
  <2>1. words = <<name, a, data>> /\ Plain(words) /\ Len(words) = 3
    BY <1>3, <1>4, <1>5, <1>7, PlainWords DEF write_file
  <2> DEFINE r == WriteArguments(s, after)
  <2>2. Taken(r, words, 3, after)
    BY <1>6, <2>1, TakenOf3
  <2>3. CallKernel([op |-> "w", data |-> AsFile(r.data)])
    BY <1>7, Zenon DEF write_file, Sent
  <2> HIDE DEF r
  <2>4. r.data = data
    BY <2>1, <2>2 DEF Taken
  <2>5. [op |-> "w", data |-> AsFile(r.data)] \in Edit
    BY <1>5, <2>4 DEF Edit
  <2> QED
    BY <2>3, <2>5, Zenon
<1>8. CASE insert_file
  <2>1. words = <<name, a, b, data>> /\ Plain(words) /\ Len(words) = 4
    BY <1>3, <1>4, <1>5, <1>8, PlainWords DEF insert_file
  <2> DEFINE r == InsertArguments(s, after)
  <2>2. Taken(r, words, 4, after)
    BY <1>6, <2>1, TakenOf4
  <2>3. CallKernel([op |-> "i", pos |-> Number(r.text[1]), data |-> AsFile(r.data)])
    BY <1>8, Zenon DEF insert_file, Sent
  <2> HIDE DEF r
  <2>4. r.data = data /\ r.text[1] = a
    BY <2>1, <2>2 DEF Taken
  <2>5. Number(r.text[1]) \in Nat
    BY <1>6, <2>4, NumberIsNat
  <2>6. [op |-> "i", pos |-> Number(r.text[1]), data |-> AsFile(r.data)] \in Edit
    BY <1>5, <2>4, <2>5 DEF Edit
  <2> QED
    BY <2>3, <2>6, Zenon
<1>9. CASE delete_in_file
  <2>1. words = <<name, a, b>> /\ Plain(words) /\ Len(words) = 3
    BY <1>3, <1>4, <1>6, <1>9, PlainWords DEF delete_in_file
  <2> DEFINE r == DeleteArguments(s, after)
             last == b \o after
  <2>2. Taken(r, words, 3, after)
    BY <1>6, <2>1, TakenOf3
  <2>3. CallKernel([op |-> "d", pos |-> Number(r.text[1]), len |-> Number(r.text[2])])
    BY <1>9, Zenon DEF delete_in_file, Sent
  <2> HIDE DEF r
  <2>4. r.text[1] = a /\ r.text[2] = last
    <3>1. words[2] = a /\ words[3] = b
      BY <2>1
    <3>2. r.text[1] = words[1 + 1] /\ r.text[3 - 1] = words[3] \o after
      <4>1. 1 \in 1 .. 3 - 2
        OBVIOUS
      <4> QED
        BY <2>2, <4>1, Zenon DEF Taken
    <3> QED
      BY <3>1, <3>2
  <2>5. last \in Seq(Char)
    BY <1>6, ConcatIs, Zenon
  <2> HIDE DEF last
  <2>6. Number(r.text[1]) \in Nat /\ Number(r.text[2]) \in Nat
    BY <1>6, <2>4, <2>5, NumberIsNat
  <2>7. [op |-> "d", pos |-> Number(r.text[1]), len |-> Number(r.text[2])] \in Edit
    BY <2>6 DEF Edit
  <2> QED
    BY <2>3, <2>7, Zenon
<1> QED
  BY <1>7, <1>8, <1>9 DEF Parse

(* Whatever a client sends, what the commands do to the file are edits     *)
(* with a file for data and natural numbers for places, made one at a time *)
(* (fs.c:write_file, insert_file, delete_in_file).                         *)
THEOREM SessionEdits == Spec => FileSpec
<1>1. Init => FileInit
  BY DEF Init
<1>2. RequestTyped /\ [Next]_vars => [FileNext]_fileVars
  <2> SUFFICES ASSUME RequestTyped, [Next]_vars
               PROVE  FileNext \/ UNCHANGED fileVars
    BY Zenon
  <2>1. CASE Parse
    BY <2>1, ParsedIsEdit DEF FileNext
  <2>2. CASE Refuse
    BY <2>2 DEF Refuse
  <2>3. ASSUME NEW cmd, NEW words, Send(cmd, words) PROVE UNCHANGED fileVars
    BY <2>3 DEF Send
  <2>4. CASE UNCHANGED vars
    BY <2>4 DEF vars
  <2> QED
    BY <2>1, <2>2, <2>3, <2>4, Zenon DEF Next, FileNext
<1> QED
  BY <1>1, <1>2, RequestsTyped, PTL DEF Spec, FileSpec

(* So in a session, too, w replaces, i splices and d cuts.                 *)
THEOREM SessionsAreExact == Spec => WriteReplaces /\ InsertSplices /\ DeleteCuts
BY SessionEdits, WriteIsExact, InsertIsExact, DeleteIsExact, PTL
=============================================================================
