----------------------------- MODULE PartsProofs -----------------------------
(***************************************************************************)
(* Theorems about the small parts: the status word, the terminal, the      *)
(* shared data of a pool, the server's context, the screen of the shell,   *)
(* its command line and its here-documents, each for every value of its    *)
(* constants.                                                              *)
(***************************************************************************)
EXTENDS Status, Terminal, SharedData, ServerContext, ShellUi, CommandLine, Heredoc,
        SequenceTheorems, FiniteSetTheorems, WellFoundedInduction, TLAPS

-----------------------------------------------------------------------------
(* Numbers and sequences: the least of some numbers stands for induction.  *)

(* Some number is the least. *)
LEMMA LeastOf ==
  ASSUME NEW T, T \subseteq Nat, T # {}
  PROVE  \E n \in T : \A m \in T : n <= m
  <1>1. PICK n \in T : \A m \in T : ~ (<<m, n>> \in OpToRel(<, Nat))
    BY NatLessThanWellFounded, WFMin
  <1>2. \A m \in T : ~ (m < n)
    BY <1>1 DEF OpToRel
  <1> QED
    BY <1>2

(* Induction, over a set of numbers. *)
LEMMA AllOf ==
  ASSUME NEW T, 0 \in T, \A n \in Nat : n \in T => n + 1 \in T
  PROVE  Nat \subseteq T
  <1> SUFFICES ASSUME ~(Nat \subseteq T) PROVE FALSE
    OBVIOUS
  <1> DEFINE U == Nat \ T
  <1>1. PICK n \in U : \A m \in U : n <= m
    <2>1. U \subseteq Nat /\ U # {}
      OBVIOUS
    <2> QED
      BY <2>1, LeastOf
  <1>2. n # 0 /\ n - 1 \in Nat
    BY <1>1
  <1>3. n - 1 \in T
    BY <1>1, <1>2
  <1> QED
    BY <1>1, <1>2, <1>3

(* f is what is reached from a by N steps. *)
Chain(f, S, N, a, step) ==
  /\ f \in [0 .. N -> S]
  /\ f[0] = a
  /\ \A i \in 1 .. N : f[i] = step[<<f[i - 1], i>>]

(* There is such a chain for every function, whatever N. *)
LEMMA Iterates ==
  ASSUME NEW S, NEW N \in Nat, NEW a \in S, NEW step \in [S \X Nat -> S]
  PROVE  \E f : Chain(f, S, N, a, step)
  <1> DEFINE Good(n, f) == f[0] = a /\ \A i \in 1 .. n : f[i] = step[<<f[i - 1], i>>]
             T == {n \in Nat : \E f \in [0 .. n -> S] : Good(n, f)}
  <1>1. 0 \in T
    <2>1. [i \in 0 .. 0 |-> a] \in [0 .. 0 -> S] /\ Good(0, [i \in 0 .. 0 |-> a])
      OBVIOUS
    <2> QED
      BY <2>1
  <1>2. ASSUME NEW n \in Nat, n \in T PROVE n + 1 \in T
    <2>1. PICK f \in [0 .. n -> S] : Good(n, f)
      BY <1>2
    <2> DEFINE v == step[<<f[n], n + 1>>]
               g == [i \in 0 .. n + 1 |-> IF i = n + 1 THEN v ELSE f[i]]
    <2>2. v \in S
      OBVIOUS
    <2> HIDE DEF v
    <2>3. g \in [0 .. n + 1 -> S]
      BY <2>2
    <2>4. g[0] = a
      BY <2>1
    <2>5. ASSUME NEW i \in 1 .. n + 1 PROVE g[i] = step[<<g[i - 1], i>>]
      <3>1. i - 1 \in 0 .. n + 1 /\ i - 1 # n + 1 /\ g[i - 1] = f[i - 1]
        OBVIOUS
      <3>2. CASE i = n + 1
        BY <3>1, <3>2 DEF v
      <3>3. CASE i # n + 1
        BY <2>1, <3>1, <3>3
      <3> QED
        BY <3>2, <3>3
    <2>6. Good(n + 1, g)
      BY <2>4, <2>5
    <2> HIDE DEF g, Good
    <2> QED
      BY <2>3, <2>6
  <1>3. N \in T
    <2> HIDE DEF T
    <2> QED
      BY <1>1, <1>2, AllOf
  <1>4. PICK f \in [0 .. N -> S] : Good(N, f)
    BY <1>3
  <1>5. Chain(f, S, N, a, step)
    BY <1>4 DEF Chain
  <1> QED
    BY <1>5

(* What FlattenSeq does with a sequence of sequences.                      *)
LEMMA FlattenIs ==
  ASSUME NEW X, NEW ss \in Seq(Seq(X)), ss # << >>
  PROVE  \E f \in [1 .. Len(ss) -> Seq(X)] :
           /\ f[1] = ss[1]
           /\ \A i \in 2 .. Len(ss) : f[i] = f[i - 1] \o ss[i]
           /\ FlattenSeq(ss) = f[Len(ss)]
  <1> DEFINE S == Seq(X)
  <1>0. PICK N \in Nat : N = Len(ss) /\ N >= 1
    OBVIOUS
  <1>1. << >> \in S /\ \A i \in 1 .. N : ss[i] \in S
    BY <1>0
  <1>2. /\ \A u, v \in S : u \o v \in S
        /\ \A v \in S : << >> \o v = v
    OBVIOUS
  <1> HIDE DEF S
  <1>3. PICK step \in [S \X Nat -> S] :
               \A v \in S, i \in 1 .. N : step[<<v, i>>] = v \o ss[i]
    <2> DEFINE step == [p \in S \X Nat |-> IF p[2] \in 1 .. N THEN p[1] \o ss[p[2]] ELSE p[1]]
    <2>1. step \in [S \X Nat -> S]
      BY <1>1, <1>2
    <2>2. ASSUME NEW v \in S, NEW i \in 1 .. N PROVE step[<<v, i>>] = v \o ss[i]
      <3>1. i \in Nat
        BY <1>0
      <3> QED
        BY <3>1
    <2> HIDE DEF step
    <2> QED
      BY <2>1, <2>2
  <1>b. PICK f : Chain(f, S, N, << >>, step)
    BY <1>1, Iterates
  <1>4. ASSUME NEW i \in 1 .. N PROVE f[i] = f[i - 1] \o ss[i]
    <2>1. i - 1 \in 0 .. N
      BY <1>0
    <2>2. f[i - 1] \in S
      BY <1>b, <2>1 DEF Chain
    <2> QED
      BY <1>3, <1>b, <2>2 DEF Chain
  <1>5. f[1] = ss[1]
    <2>1. 1 \in 1 .. N /\ 1 - 1 = 0
      BY <1>0
    <2>2. f[1] = << >> \o ss[1] /\ ss[1] \in S
      BY <1>0, <1>1, <1>b, <1>4, <2>1 DEF Chain
    <2> QED
      BY <1>2, <2>2
  <1> DEFINE g == [i \in 1 .. N |-> f[i]]
             Defines(h) == h = [i \in 1 .. N |-> IF i = 1 THEN ss[i] ELSE h[i - 1] \o ss[i]]
  <1>6. Defines(g)
    <2>1. \A i \in 1 .. N : i # 1 => i - 1 \in 1 .. N /\ g[i - 1] = f[i - 1]
      BY <1>0, <1>1
    <2>2. \A i \in 1 .. N : g[i] = IF i = 1 THEN ss[i] ELSE g[i - 1] \o ss[i]
      BY <1>4, <1>5, <2>1
    <2> QED
      BY <2>2
  <1> DEFINE h == CHOOSE x : Defines(x)
  <1>7. Defines(h)
    <2> HIDE DEF Defines
    <2> QED
      BY <1>6
  <1>8. FlattenSeq(ss) = h[N]
    BY <1>0, <1>1 DEF FlattenSeq
  <1>9. \A i \in 1 .. N : h[i] = IF i = 1 THEN ss[i] ELSE h[i - 1] \o ss[i]
    <2> HIDE DEF h
    <2> QED
      BY <1>7
  <1>10. h[1] = ss[1] /\ \A i \in 2 .. N : h[i] = h[i - 1] \o ss[i]
    <2> HIDE DEF h
    <2>1. 1 \in 1 .. N /\ \A i \in 2 .. N : i \in 1 .. N /\ i # 1
      BY <1>0, <1>1
    <2> QED
      BY <1>9, <2>1
  <1>11. h \in [1 .. N -> S]
    <2> HIDE DEF h
    <2> DEFINE T == {n \in Nat : n + 1 \in 1 .. N => h[n + 1] \in S}
    <2>1. 0 \in T
      <3>1. 1 \in 1 .. N /\ 0 + 1 = 1
        BY <1>0, <1>1
      <3> QED
        BY <1>0, <1>1, <1>10, <3>1
    <2>2. ASSUME NEW n \in Nat, n \in T PROVE n + 1 \in T
      <3> SUFFICES ASSUME n + 2 \in 1 .. N PROVE h[n + 2] \in S
        OBVIOUS
      <3>1. n + 1 \in 1 .. N /\ h[n + 1] \in S
        BY <1>0, <1>1, <2>2
      <3>2. h[n + 2] = h[n + 1] \o ss[n + 2]
        <4>1. n + 2 \in 2 .. N /\ (n + 2) - 1 = n + 1
          BY <1>0, <1>1
        <4> QED
          BY <1>0, <1>10, <4>1
      <3> QED
        <4>1. n + 2 \in 1 .. N /\ ss[n + 2] \in S
          BY <1>0, <1>1
        <4> QED
          BY <1>2, <3>1, <3>2, <4>1
    <2>3. Nat \subseteq T
      <3> HIDE DEF T
      <3> QED
        BY <2>1, <2>2, AllOf
    <2>4. ASSUME NEW i \in 1 .. N PROVE h[i] \in S
      <3>1. i - 1 \in Nat /\ (i - 1) + 1 = i
        BY <1>0, <1>1
      <3>2. i - 1 \in T
        BY <2>3, <3>1
      <3> QED
        BY <3>1, <3>2
    <2>5. DOMAIN h = 1 .. N /\ h = [i \in 1 .. N |-> h[i]]
      BY <1>7
    <2> QED
      BY <2>4, <2>5
  <1> HIDE DEF h
  <1> QED
    BY <1>8, <1>10, <1>11, <1>0 DEF S

(* FlattenSeq joins the members from the first on. *)
Joins(f, X, ss) ==
  /\ f \in [1 .. Len(ss) -> Seq(X)]
  /\ f[1] = ss[1]
  /\ \A i \in 2 .. Len(ss) : f[i] = f[i - 1] \o ss[i]
  /\ FlattenSeq(ss) = f[Len(ss)]

(* So it does to every sequence of sequences, ... *)
LEMMA JoinsSome ==
  ASSUME NEW X, NEW ss \in Seq(Seq(X)), ss # << >>
  PROVE  \E f : Joins(f, X, ss)
  <1>1. PICK f \in [1 .. Len(ss) -> Seq(X)] :
          /\ f[1] = ss[1]
          /\ \A i \in 2 .. Len(ss) : f[i] = f[i - 1] \o ss[i]
          /\ FlattenSeq(ss) = f[Len(ss)]
    BY FlattenIs
  <1>2. Joins(f, X, ss)
    BY <1>1 DEF Joins
  <1> QED
    BY <1>2

(* ... to none of them, ... *)
LEMMA FlattenNone == FlattenSeq(<< >>) = << >>
  BY DEF FlattenSeq

(* ... and one more goes behind what there was. *)
LEMMA FlattenAppend ==
  ASSUME NEW X, NEW ss \in Seq(Seq(X)), NEW e \in Seq(X)
  PROVE  FlattenSeq(ss) \in Seq(X) /\ FlattenSeq(Append(ss, e)) = FlattenSeq(ss) \o e
  <1>0. PICK N \in Nat : N = Len(ss)
    OBVIOUS
  <1>1. PICK tt \in Seq(Seq(X)) :
          /\ tt = Append(ss, e) /\ tt # << >> /\ Len(tt) = N + 1
          /\ tt[N + 1] = e /\ \A i \in 1 .. N : tt[i] = ss[i]
    <2>1. /\ Append(ss, e) \in Seq(Seq(X)) /\ Append(ss, e) # << >>
          /\ Len(Append(ss, e)) = N + 1
      BY <1>0, AppendProperties
    <2>2. Append(ss, e)[N + 1] = e /\ \A i \in 1 .. N : Append(ss, e)[i] = ss[i]
      BY <1>0, AppendProperties
    <2> QED
      BY <2>1, <2>2
  <1>2. PICK g : Joins(g, X, tt)
    BY <1>1, JoinsSome
  <1>3. CASE ss = << >>
    <2>a. N = 0
      BY <1>0, <1>3
    <2>b. Len(tt) = 1 /\ tt[1] = e
      BY <1>1, <2>a
    <2>1. FlattenSeq(tt) = g[1] /\ g[1] = e
      BY <1>2, <2>b DEF Joins
    <2>2. FlattenSeq(ss) = << >>
      BY <1>3, FlattenNone
    <2> QED
      BY <1>1, <2>1, <2>2
  <1>4. CASE ss # << >>
    <2>0. N >= 1
      BY <1>0, <1>4
    <2>1. PICK f : Joins(f, X, ss)
      BY <1>4, JoinsSome
    <2> DEFINE T == {n \in Nat : n + 1 \in 1 .. N => f[n + 1] = g[n + 1]}
    <2>2. 0 \in T
      <3>1. 1 \in 1 .. N /\ 0 + 1 = 1
        BY <2>0
      <3> QED
        BY <1>1, <1>2, <2>1, <3>1 DEF Joins
    <2>3. ASSUME NEW n \in Nat, n \in T PROVE n + 1 \in T
      <3> SUFFICES ASSUME n + 2 \in 1 .. N PROVE f[n + 2] = g[n + 2]
        OBVIOUS
      <3>1. n + 1 \in 1 .. N /\ f[n + 1] = g[n + 1]
        BY <2>3
      <3>2. n + 2 \in 2 .. N /\ n + 2 \in 2 .. N + 1 /\ (n + 2) - 1 = n + 1
        OBVIOUS
      <3>3. f[n + 2] = f[n + 1] \o ss[n + 2]
        BY <1>0, <2>1, <3>2 DEF Joins
      <3>4. g[n + 2] = g[n + 1] \o tt[n + 2]
        BY <1>1, <1>2, <3>2 DEF Joins
      <3> QED
        BY <1>1, <3>1, <3>3, <3>4
    <2>4. Nat \subseteq T
      <3> HIDE DEF T
      <3> QED
        BY <2>2, <2>3, AllOf
    <2>5. f[N] = g[N]
      <3>1. N - 1 \in Nat /\ (N - 1) + 1 = N /\ N \in 1 .. N
        BY <2>0
      <3>2. N - 1 \in T
        BY <2>4, <3>1
      <3> QED
        BY <3>1, <3>2
    <2>6. FlattenSeq(tt) = g[N] \o e
      <3>1. N + 1 \in 2 .. N + 1 /\ (N + 1) - 1 = N
        BY <2>0
      <3> QED
        BY <1>1, <1>2, <3>1 DEF Joins
    <2>7. FlattenSeq(ss) = f[N] /\ f[N] \in Seq(X)
      <3>1. N \in 1 .. N
        BY <2>0
      <3> QED
        BY <1>0, <2>1, <3>1 DEF Joins
    <2> QED
      BY <1>1, <2>5, <2>6, <2>7
  <1> QED
    BY <1>3, <1>4

(* Short sequences, and the members of one that is appended to. *)
LEMMA SeqOfOne ==
  ASSUME NEW X, NEW d \in X
  PROVE  <<d>> \in Seq(X) /\ Len(<<d>>) = 1 /\ <<d>>[1] = d
  OBVIOUS

LEMMA SeqOfTwo ==
  ASSUME NEW X, NEW d \in X, NEW e \in X
  PROVE  <<d, e>> \in Seq(X) /\ Len(<<d, e>>) = 2
  OBVIOUS

LEMMA AppendIs ==
  ASSUME NEW X, NEW s \in Seq(X), NEW e \in X, NEW N, N = Len(s)
  PROVE  /\ Append(s, e) \in Seq(X) /\ Len(Append(s, e)) = N + 1
         /\ Append(s, e)[N + 1] = e
         /\ \A i \in 1 .. N : Append(s, e)[i] = s[i]
  <1>1. Append(s, e) \in Seq(X) /\ Len(Append(s, e)) = N + 1
    BY AppendProperties
  <1>2. Append(s, e)[N + 1] = e /\ \A i \in 1 .. N : Append(s, e)[i] = s[i]
    BY AppendProperties
  <1> QED
    BY <1>1, <1>2

(* The same stretch of two sequences. *)
SameFrom(w, i, s, j, q, X) ==
  \A p \in 1 .. q : w[i + p] = s[j + p] /\ w[i + p] \in X

Stretch(w, i, q) == SubSeq(w, i + 1, i + q)

LEMMA SameStretch ==
  ASSUME NEW X, NEW w, NEW s, NEW i \in Nat, NEW j \in Nat, NEW q \in Nat,
         SameFrom(w, i, s, j, q, X)
  PROVE  Stretch(w, i, q) = Stretch(s, j, q)
  <1> USE DEF SameFrom
  <1>1. \A p \in i + 1 .. i + q : w[p] \in X
    <2> SUFFICES ASSUME NEW p \in i + 1 .. i + q PROVE w[p] \in X
      OBVIOUS
    <2>1. p - i \in 1 .. q /\ i + (p - i) = p
      OBVIOUS
    <2> QED
      BY <2>1
  <1>2. \A p \in j + 1 .. j + q : s[p] \in X
    <2> SUFFICES ASSUME NEW p \in j + 1 .. j + q PROVE s[p] \in X
      OBVIOUS
    <2>1. p - j \in 1 .. q /\ j + (p - j) = p
      OBVIOUS
    <2> QED
      BY <2>1
  <1>3. /\ i + 1 \in Int /\ i + q \in Int /\ j + 1 \in Int /\ j + q \in Int
        /\ (i + q) - (i + 1) + 1 = q /\ (j + q) - (j + 1) + 1 = q
        /\ i + 1 <= i + q <=> q # 0
        /\ j + 1 <= j + q <=> q # 0
    OBVIOUS
  <1> DEFINE u == SubSeq(w, i + 1, i + q)
             v == SubSeq(s, j + 1, j + q)
  <1>4. u \in Seq(X) /\ Len(u) = q /\ \A p \in 1 .. q : u[p] = w[(i + 1) + p - 1]
    BY <1>1, <1>3, SubSeqProperties
  <1>5. v \in Seq(X) /\ Len(v) = q /\ \A p \in 1 .. q : v[p] = s[(j + 1) + p - 1]
    BY <1>2, <1>3, SubSeqProperties
  <1> HIDE DEF u, v
  <1>6. \A p \in 1 .. q : (i + 1) + p - 1 = i + p /\ (j + 1) + p - 1 = j + p
    OBVIOUS
  <1>7. \A p \in 1 .. q : u[p] = v[p]
    BY <1>4, <1>5, <1>6
  <1>8. u = v
    BY <1>4, <1>5, <1>7, SeqEqual
  <1> QED
    BY <1>8 DEF u, v, Stretch

Associative(S) == \A a, b, c \in S : (a \o b) \o c = a \o (b \o c)

LEMMA Associates == \A X : Associative(Seq(X))
  BY ConcatAssociative DEF Associative

(* The first m pieces, joined. *)
JoinOf(piece, m) == FlattenSeq([j \in 1 .. m |-> piece[j]])

LEMMA JoinGrows ==
  ASSUME NEW X, NEW N \in Nat, NEW piece \in [1 .. N -> Seq(X)], NEW m \in 0 .. N
  PROVE  /\ JoinOf(piece, m) \in Seq(X)
         /\ m < N => JoinOf(piece, m + 1) = JoinOf(piece, m) \o piece[m + 1]
  <1> DEFINE S == Seq(X)
             Part(k) == [j \in 1 .. k |-> piece[j]]
  <1>0. m \in Nat /\ piece \in [1 .. N -> S]
    OBVIOUS
  <1> HIDE DEF S
  <1>1. ASSUME NEW k \in 0 .. N
        PROVE  /\ Part(k) \in Seq(S) /\ Len(Part(k)) = k
               /\ \A j \in 1 .. k : Part(k)[j] = piece[j]
    <2>1. \A j \in 1 .. k : piece[j] \in S
      BY <1>0
    <2> QED
      BY <2>1
  <1> HIDE DEF Part
  <1>2. ASSUME m < N PROVE Part(m + 1) = Append(Part(m), piece[m + 1])
    <2>1. m + 1 \in 0 .. N /\ m + 1 \in 1 .. N /\ piece[m + 1] \in S
      BY <1>0, <1>2
    <2>2. PICK a \in Seq(S) :
            /\ a = Append(Part(m), piece[m + 1]) /\ Len(a) = m + 1 /\ a[m + 1] = piece[m + 1]
            /\ \A i \in 1 .. m : a[i] = Part(m)[i]
      <3>1. /\ Append(Part(m), piece[m + 1]) \in Seq(S)
            /\ Len(Append(Part(m), piece[m + 1])) = m + 1
            /\ Append(Part(m), piece[m + 1])[m + 1] = piece[m + 1]
            /\ \A i \in 1 .. m : Append(Part(m), piece[m + 1])[i] = Part(m)[i]
        BY <1>0, <1>1, <2>1, AppendIs
      <3> QED
        BY <3>1
    <2>3. PICK b \in Seq(S) :
            /\ b = Part(m + 1) /\ Len(b) = m + 1
            /\ \A i \in 1 .. m + 1 : b[i] = piece[i]
      BY <1>1, <2>1
    <2>4. ASSUME NEW i \in 1 .. m + 1 PROVE a[i] = b[i]
      <3>1. CASE i = m + 1
        BY <2>2, <2>3, <3>1
      <3>2. CASE i # m + 1
        <4>1. i \in 1 .. m
          BY <1>0, <3>2
        <4> QED
          BY <1>1, <2>2, <2>3, <4>1
      <3> QED
        BY <3>1, <3>2
    <2>5. a = b
      BY <2>2, <2>3, <2>4, SeqEqual
    <2> QED
      BY <2>2, <2>3, <2>5
  <1>3. Part(m) \in Seq(S)
    BY <1>1
  <1>4. FlattenSeq(Part(m)) \in S
    BY <1>3, <1>0, EmptySeq, FlattenAppend DEF S
  <1>5. m < N => FlattenSeq(Append(Part(m), piece[m + 1])) = FlattenSeq(Part(m)) \o piece[m + 1]
    <2> SUFFICES ASSUME m < N
                 PROVE  FlattenSeq(Append(Part(m), piece[m + 1])) = FlattenSeq(Part(m)) \o piece[m + 1]
      OBVIOUS
    <2>1. piece[m + 1] \in Seq(X) /\ Part(m) \in Seq(Seq(X))
      BY <1>0, <1>3 DEF S
    <2> QED
      BY <2>1, FlattenAppend
  <1>6. JoinOf(piece, m) = FlattenSeq(Part(m)) /\ JoinOf(piece, m + 1) = FlattenSeq(Part(m + 1))
    BY DEF JoinOf, Part
  <1> QED
    BY <1>2, <1>4, <1>5, <1>6 DEF S

-----------------------------------------------------------------------------
(* Status.                                                                 *)

StatusSpec == StatusInit /\ [][StatusNext]_statusVars

(* What was told is a value of each field, and the word is their union.    *)
WordInv ==
  /\ told \in [cat : SUBSET MaskCat, cnd : SUBSET MaskCnd,
               id : SUBSET MaskId, flg : SUBSET MaskFlg]
  /\ st = told.cat \cup told.cnd \cup told.id \cup told.flg

(* The fields of a word do not overlap, and those of the code fill it. *)
LEMMA MasksDisjoint ==
  /\ MaskCat \cap MaskCnd = {} /\ MaskCat \cap MaskCode = {}
  /\ MaskCnd \cap MaskCode = {} /\ MaskId \cap MaskFlg = {}
  /\ MaskCode = MaskId \cup MaskFlg
  BY DEF MaskCat, MaskCnd, MaskId, MaskFlg, MaskCode

(* The getters of a word that is the union of its fields return them, for  *)
(* whatever bits (status.h:145-173).                                       *)
LEMMA WordFields == WordInv => FieldsKeepTheirValue
  <1> SUFFICES ASSUME WordInv PROVE FieldsKeepTheirValue
    OBVIOUS
  <1> USE MasksDisjoint DEF WordInv
  <1> DEFINE cat == told.cat  cnd == told.cnd  id == told.id  flg == told.flg
  <1>1. /\ cat \subseteq MaskCat /\ cnd \subseteq MaskCnd
        /\ id \subseteq MaskId /\ flg \subseteq MaskFlg
    OBVIOUS
  <1>2. st = cat \cup cnd \cup id \cup flg
    OBVIOUS
  <1> HIDE DEF cat, cnd, id, flg
  <1>3. st \cap MaskCat = cat /\ st \cap MaskCnd = cnd
    BY <1>1, <1>2
  <1>4. st \cap MaskId = id /\ st \cap MaskFlg = flg /\ st \cap MaskCode = id \cup flg
    BY <1>1, <1>2
  <1> QED
    BY <1>3, <1>4 DEF FieldsKeepTheirValue, get_cat, get_cnd, get_code, get_code_id,
                      get_code_flg, cat, cnd, id, flg

(* After any sequence of updates each field of a status has the value it   *)
(* was last given (status.c:4-35), for any enumerators within the fields.  *)
THEOREM StatusFields == StatusSpec => []FieldsKeepTheirValue
  <1> USE MasksDisjoint, FieldsAssumption DEF InFields
  <1>1. StatusInit => WordInv
    BY DEF StatusInit, WordInv, Told, init_status, asstatus
  <1>2. WordInv /\ [StatusNext]_statusVars => WordInv'
    <2> SUFFICES ASSUME WordInv, [StatusNext]_statusVars PROVE WordInv'
      OBVIOUS
    <2> USE DEF WordInv
    <2>1. CASE SetCat
      BY <2>1 DEF SetCat, update_status_cat
    <2>2. CASE SetCnd
      BY <2>2 DEF SetCnd, update_status_cnd
    <2>3. CASE SetCode
      <3>1. PICK v \in Ids, f \in Flgs :
              /\ st' = update_status_code(st, v \cup f)
              /\ told' = [told EXCEPT !.id = v, !.flg = f]
        BY <2>3 DEF SetCode
      <3>2. /\ told' = [cat |-> told.cat, cnd |-> told.cnd, id |-> v, flg |-> f]
            /\ v \subseteq MaskId /\ f \subseteq MaskFlg
        BY <3>1
      <3>3. st' = told.cat \cup told.cnd \cup v \cup f
        BY <3>1 DEF update_status_code
      <3> QED
        BY <3>2, <3>3
    <2>4. CASE SetCodeId
      BY <2>4 DEF SetCodeId, update_status_code_id
    <2>5. CASE SetCodeFlg
      BY <2>5 DEF SetCodeFlg, update_status_code_flg
    <2>6. CASE UNCHANGED statusVars
      BY <2>6 DEF statusVars
    <2> QED
      BY <2>1, <2>2, <2>3, <2>4, <2>5, <2>6 DEF StatusNext
  <1> QED
    BY <1>1, <1>2, WordFields, PTL DEF StatusSpec

-----------------------------------------------------------------------------
(* Terminal.                                                               *)

TerminalSpec == TerminalInit /\ [][TerminalNext]_terminalVars

(* A read thread exists only behind a descriptor that was opened, and a    *)
(* terminal is freed at once only if none was.                             *)
ReaderInv ==
  /\ FreedUnread
  /\ master = "none" => reader = "none"
  /\ term \in {"none", "made", "joining", "freed", "poll", "ready", "ended"}
  /\ term = "none" => master = "none"
  /\ term = "made" => master \in {"none", "open"}
  /\ term \in {"none", "poll", "ready", "ended"} => reader = "none"

(* No sq_terminal_t is freed under its read thread, wherever in its loop   *)
(* the thread is when the descriptor is closed (terminal.c:63-74).         *)
THEOREM TerminalIsSafe == TerminalSpec => []FreedUnread
  <1>1. TerminalInit => ReaderInv
    BY DEF TerminalInit, ReaderInv, FreedUnread
  <1>2. ReaderInv /\ [TerminalNext]_terminalVars => ReaderInv'
    <2> SUFFICES ASSUME ReaderInv, [TerminalNext]_terminalVars PROVE ReaderInv'
      OBVIOUS
    <2> USE DEF ReaderInv, FreedUnread
    <2>1. CASE ChildWrites \/ ChildExits \/ ChildReads \/ UserActs \/ WriteByte
      BY <2>1 DEF ChildWrites, ChildExits, ChildReads, UserActs, WriteByte
    <2>2. CASE CreateTerminal \/ DestroyTerminal
      BY <2>2 DEF CreateTerminal, DestroyTerminal
    <2>3. CASE JoinAndFree
      BY <2>3 DEF JoinAndFree, Joined
    <2>4. CASE MainFails
      BY <2>4 DEF MainFails
    <2>5. ASSUME NEW b \in BOOLEAN, SpawnTerminal(b) PROVE ReaderInv'
      BY <2>5 DEF SpawnTerminal
    <2>9. ASSUME NEW b \in BOOLEAN, MainSpawns(b) PROVE ReaderInv'
      BY <2>9 DEF MainSpawns
    <2>6. CASE Reader
      BY <2>6 DEF Reader, ReaderChecks, ReaderCalls, ReaderFails, ReaderReads, AfterError
    <2>7. CASE MainLoop
      BY <2>7 DEF MainLoop, Poll, Serve
    <2>8. CASE UNCHANGED terminalVars
      BY <2>8 DEF terminalVars
    <2> QED
      BY <2>1, <2>2, <2>3, <2>4, <2>5, <2>6, <2>7, <2>8, <2>9 DEF TerminalNext
  <1> QED
    BY <1>1, <1>2, PTL DEF TerminalSpec, ReaderInv

-----------------------------------------------------------------------------
(* SharedData.                                                             *)

SharedSpec == SharedInit /\ [][SharedNext]_sharedVars

(* The count of a kind is at least what is stored in its zone, or one less *)
(* once it was set to none; and no more than that, unless a zone was       *)
(* dropped for another.                                                    *)
CountInv ==
  /\ zone \in [Kinds -> BOOLEAN]
  /\ slots \in [Kinds -> Nat] /\ count \in [Kinds -> Int]
  /\ mode \in {"pure", "epoll"} /\ parts \subseteq {"workers", "jobs"}
  /\ \A k \in Kinds :
       count[k] >= (IF zone[k] THEN slots[k] ELSE 0) - (IF k \in redone THEN 1 ELSE 0)
  /\ pool = "live" =>
       \A k \in Kinds \ left : count[k] <= (IF zone[k] THEN slots[k] ELSE 0)
  /\ StoredStays /\ ZonesGoLast /\ UnusedZonesGo

(* What both destroy_shared_*_data() and destroy_pool() do to the zones.   *)
LEMMA ZonesGoInv ==
  ASSUME CountInv, NEW rest \in SUBSET parts, NEW ks \in SUBSET Destroyable(rest),
         ZonesGo(ks), parts' = rest, UNCHANGED <<mode, slots, left>>,
         pool = "live", pool' = "freed" => rest = {} /\ ks = Destroyable({})
  PROVE  CountInv'
  <1> USE DEF CountInv
  <1>1. /\ ks \subseteq Kinds
        /\ \A k \in ks : count[k] <= 0
        /\ \A k \in ks : IF k = "task" THEN "workers" \notin rest ELSE "jobs" \notin rest
    BY DEF Destroyable
  <1>2. /\ zone' \in [Kinds -> BOOLEAN] /\ count' \in [Kinds -> Int]
        /\ slots' \in [Kinds -> Nat] /\ mode' \in {"pure", "epoll"}
        /\ parts' \subseteq {"workers", "jobs"}
    BY <1>1 DEF ZonesGo
  <1>3. \A k \in Kinds :
          count'[k] >= (IF zone'[k] THEN slots'[k] ELSE 0) - (IF k \in redone' THEN 1 ELSE 0)
    <2> SUFFICES ASSUME NEW k \in Kinds
        PROVE  count'[k] >= (IF zone'[k] THEN slots'[k] ELSE 0) - (IF k \in redone' THEN 1 ELSE 0)
      OBVIOUS
    <2>1. CASE k \in ks
      <3>1. count'[k] = -1 /\ ~zone'[k] /\ k \in redone'
        BY <2>1 DEF ZonesGo
      <3> QED
        BY <3>1
    <2>2. CASE k \notin ks
      <3>1. count'[k] = count[k] /\ zone'[k] = zone[k] /\ slots'[k] = slots[k]
        BY <2>2 DEF ZonesGo
      <3>2. k \in redone' <=> k \in redone
        BY <2>2 DEF ZonesGo
      <3> QED
        BY <3>1, <3>2
    <2> QED
      BY <2>1, <2>2
  <1>4. \A k \in ks : zone[k] => slots[k] <= 1
    BY <1>1
  <1>5. StoredStays'
    BY <1>1, <1>4 DEF StoredStays, ZonesGo
  <1>6. ZonesGoLast'
    BY <1>1 DEF ZonesGoLast, ZonesGo, Kinds
  <1>7. pool' = "live" =>
          \A k \in Kinds \ left' : count'[k] <= (IF zone'[k] THEN slots'[k] ELSE 0)
    <2>1. ASSUME NEW k \in Kinds \ left
          PROVE  count'[k] <= (IF zone'[k] THEN slots'[k] ELSE 0)
      <3>1. count[k] <= (IF zone[k] THEN slots[k] ELSE 0) /\ slots[k] \in Nat
        BY <2>1
      <3>2. CASE k \in ks
        <4>1. count'[k] = -1 /\ ~zone'[k]
          BY <2>1, <3>2 DEF ZonesGo
        <4> QED
          BY <4>1
      <3>3. CASE k \notin ks
        <4>1. count'[k] = count[k] /\ zone'[k] = zone[k] /\ slots'[k] = slots[k]
          BY <2>1, <3>3 DEF ZonesGo
        <4> QED
          BY <3>1, <4>1
      <3> QED
        BY <3>2, <3>3
    <2> QED
      BY <2>1
  <1>8. UnusedZonesGo'
    <2> SUFFICES ASSUME pool' = "freed", NEW k \in Kinds, zone'[k]
                 PROVE  slots[k] > 0 \/ k \in left \/ (k = "job" /\ mode = "pure")
      BY DEF UnusedZonesGo
    <2>1. zone[k] /\ k \notin Destroyable({})
      BY DEF ZonesGo
    <2>2. count[k] > 0 \/ (k = "job" /\ mode = "pure")
      BY <2>1 DEF Destroyable, Kinds
    <2> QED
      BY <2>1, <2>2
  <1> QED
    BY <1>2, <1>3, <1>5, <1>6, <1>7, <1>8

(* The invariant of the shared data. *)
THEOREM SharedInvariance == SharedSpec => []CountInv
  <1>1. SharedInit => CountInv
    BY DEF SharedInit, CountInv, StoredStays, ZonesGoLast, UnusedZonesGo, Kinds
  <1>2. CountInv /\ [SharedNext]_sharedVars => CountInv'
    <2> SUFFICES ASSUME CountInv, [SharedNext]_sharedVars PROVE CountInv'
      OBVIOUS
    <2> USE DEF CountInv
    <2>1. ASSUME NEW k \in Kinds, NEW created \in BOOLEAN, InitShared(k, created)
          PROVE  CountInv'
      <3>1. ~Fits(0, MaxShared)
        BY SharedAssumption DEF Fits
      <3>2. /\ zone' = [zone EXCEPT ![k] = created] /\ slots' = [slots EXCEPT ![k] = 0]
            /\ UNCHANGED <<count, mode, parts, redone, gone>>
        BY <2>1, <3>1 DEF InitShared
      <3>3. pool' = pool /\ pool = "live" /\ left' = (IF zone[k] THEN left \cup {k} ELSE left)
        BY <2>1 DEF InitShared
      <3>4. ASSUME NEW j \in Kinds \ left'
            PROVE  count'[j] <= (IF zone'[j] THEN slots'[j] ELSE 0)
        <4>1. j \notin left /\ (j = k => ~zone[k])
          BY <3>3, <3>4
        <4>2. count[j] <= (IF zone[j] THEN slots[j] ELSE 0)
          BY <3>3, <4>1
        <4>3. CASE j = k
          <5>1. count'[j] <= 0 /\ slots'[j] = 0
            BY <3>2, <4>1, <4>2, <4>3
          <5> QED
            BY <5>1
        <4>4. CASE j # k
          BY <3>2, <4>2, <4>4
        <4> QED
          BY <4>3, <4>4
      <3> QED
        BY <3>2, <3>3, <3>4 DEF StoredStays, ZonesGoLast, UnusedZonesGo
    <2>2. ASSUME NEW k \in Kinds, SetShared(k) PROVE CountInv'
      <3>1. /\ zone[k] /\ count' = [count EXCEPT ![k] = @ + 1]
            /\ slots' = [slots EXCEPT ![k] = @ + 1] \/ slots' = slots
            /\ UNCHANGED <<zone, mode, parts, redone, gone>>
        BY <2>2 DEF SetShared, CountedSet
      <3>2. /\ left' = left /\ pool = "live"
            /\ pool' \in {"live", "crashed"}
            /\ pool' = "live" => slots' = [slots EXCEPT ![k] = @ + 1]
        BY <2>2 DEF SetShared
      <3>3. ASSUME NEW j \in Kinds
            PROVE  count'[j] >= (IF zone'[j] THEN slots'[j] ELSE 0)
                                  - (IF j \in redone' THEN 1 ELSE 0)
        BY <3>1
      <3>4. ASSUME pool' = "live", NEW j \in Kinds \ left'
            PROVE  count'[j] <= (IF zone'[j] THEN slots'[j] ELSE 0)
        <4>1. count[j] <= (IF zone[j] THEN slots[j] ELSE 0)
          BY <3>2, <3>4
        <4>2. count[j] \in Int /\ slots[j] \in Nat /\ (j = k => zone[j])
          BY <3>1
        <4>3. slots' = [slots EXCEPT ![k] = @ + 1] /\ zone' = zone
          BY <3>1, <3>2, <3>4
        <4>4. CASE j = k
          <5>1. count'[j] = count[j] + 1 /\ slots'[j] = slots[j] + 1
            BY <3>1, <4>3, <4>4
          <5> QED
            BY <4>1, <4>2, <4>3, <4>4, <5>1
        <4>5. CASE j # k
          <5>1. count'[j] = count[j] /\ slots'[j] = slots[j]
            BY <3>1, <4>3, <4>5
          <5> QED
            BY <4>1, <4>3, <5>1
        <4> QED
          BY <4>4, <4>5
      <3>5. StoredStays' /\ ZonesGoLast' /\ UnusedZonesGo'
        <4> HIDE DEF CountInv
        <4>1. StoredStays /\ ZonesGoLast /\ pool' # "freed"
          BY <3>2 DEF CountInv
        <4> QED
          BY <3>1, <4>1 DEF StoredStays, ZonesGoLast, UnusedZonesGo
      <3>6. /\ zone' \in [Kinds -> BOOLEAN] /\ slots' \in [Kinds -> Nat]
            /\ count' \in [Kinds -> Int]
            /\ mode' \in {"pure", "epoll"} /\ parts' \subseteq {"workers", "jobs"}
        <4>1. zone' = zone /\ mode' = mode /\ parts' = parts
          BY <3>1
        <4> QED
          BY <3>1, <4>1
      <3> QED
        BY <3>3, <3>4, <3>5, <3>6
    <2>3. ASSUME NEW k \in Kinds, DestroyShared(k) PROVE CountInv'
      BY <2>3, ZonesGoInv DEF DestroyShared
    <2>4. ASSUME NEW p \in parts, DestroyPart(p) PROVE CountInv'
      BY <2>4 DEF DestroyPart, StoredStays, ZonesGoLast, UnusedZonesGo
    <2>5. CASE DestroyPool
      BY <2>5, ZonesGoInv DEF DestroyPool, RestOfPool
    <2>6. CASE UNCHANGED sharedVars
      BY <2>6 DEF sharedVars, StoredStays, ZonesGoLast, UnusedZonesGo
    <2> QED
      BY <2>1, <2>2, <2>3, <2>4, <2>5, <2>6 DEF SharedNext
  <1> QED
    BY <1>1, <1>2, PTL DEF SharedSpec

(* What is stored in shared memory stays, but for the one slot that its    *)
(* count does not show, a zone goes after those that use it, and one that  *)
(* nobody used goes with its pool (reactor.c:217-265, 575-595), for any    *)
(* number of slots and of zones.                                           *)
THEOREM SharedHolds == SharedSpec => []SharedIsKept
  <1>1. CountInv => SharedIsKept
    BY DEF CountInv, SharedIsKept
  <1> QED
    BY <1>1, SharedInvariance, PTL

-----------------------------------------------------------------------------
(* ServerContext.                                                          *)

ContextSpec == ContextInit /\ [][ContextNext]_ctxVars

(* What a context in use says it has, it has, unless storage.c released it. *)
ContextInv ==
  /\ FlagsAreTrue /\ MisuseNeedsClose /\ OnlyTheseAreLost
  /\ held \subseteq {"ctx", "arena", "db", "cache", "socket"}
  /\ ctx = "api" => /\ "socket" \in held => "is_running" \in flags
                    /\ "db" \in held => "is_open" \in flags
                    /\ "cache" \in held => "cache" \in flags
  /\ Live => /\ {"ctx", "arena"} \subseteq held
             /\ "is_running" \in flags => "socket" \in held
             /\ "db" \notin held => "sq_db_close" \in past
             /\ "cache" \in flags /\ "cache" \notin held => "sq_db_close_context" \in past

(* Nothing is released twice, and every flag is true, whatever is called   *)
(* in whatever order, but for the two that storage.c leaves behind.        *)
THEOREM ContextInvariance == ContextSpec => []ContextInv
  <1>1. ContextInit => ContextInv
    BY DEF ContextInit, ContextInv, FlagsAreTrue, MisuseNeedsClose, OnlyTheseAreLost, Live
  <1>2. ContextInv /\ [ContextNext]_ctxVars => ContextInv'
    <2> SUFFICES ASSUME ContextInv, [ContextNext]_ctxVars PROVE ContextInv'
      OBVIOUS
    <2> USE DEF ContextInv, FlagsAreTrue, MisuseNeedsClose, OnlyTheseAreLost, Live
    <2>1. ASSUME NEW step \in DOMAIN Acquired, CreateFailsAt(step) PROVE ContextInv'
      <3>1. (Acquired[step] \ Undone[step]) \X {step} \subseteq {<<"db", "sqlite3_open">>}
        BY DEF Acquired, Undone
      <3> QED
        BY <2>1, <3>1 DEF CreateFailsAt
    <2>2. CASE Create
      BY <2>2 DEF Create
    <2>3. ASSUME NEW opened \in BOOLEAN, NEW cached \in BOOLEAN, MainStart(opened, cached)
          PROVE  ContextInv'
      BY <2>3 DEF MainStart
    <2>4. CASE Listen \/ ListenFails
      BY <2>4 DEF Listen, ListenFails
    <2>5. CASE DbClose
      BY <2>5 DEF DbClose, Unlocked, FlagsAfterClose, Touch, Cache
    <2>6. CASE UseDb
      BY <2>6 DEF UseDb, Touch
    <2>7. CASE LoadRow
      <3>1. /\ ctx' \in {ctx, "exited", "stuck"}
            /\ flags' \in {flags, flags \cup {"cache.locked"}}
            /\ UNCHANGED <<held, lost, past>>
        BY <2>7 DEF LoadRow
      <3>2. misuse' \subseteq misuse \cup {"cache"}
        BY <2>7 DEF LoadRow, Touch, Cache
      <3>3. "cache" \in misuse' => "sq_db_close_context" \in past
        BY <2>7 DEF LoadRow, Touch, Cache
      <3>4. MisuseNeedsClose'
        BY <3>1, <3>2, <3>3
      <3> QED
        BY <3>1, <3>4
    <2>8. CASE MainEnd
      <3>1. (held \ {"ctx", "arena", "socket"}) \X {"main"}
              \subseteq {<<"cache", "main">>, <<"db", "main">>}
        <4>1. held \ {"ctx", "arena", "socket"} \subseteq {"cache", "db"}
          OBVIOUS
        <4> HIDE DEF ContextInv
        <4> QED
          BY <4>1
      <3>2. /\ ctx' = "exited" /\ held' = {} /\ flags' = {}
            /\ lost' = lost \cup ((held \ {"ctx", "arena", "socket"}) \X {"main"})
            /\ UNCHANGED <<misuse, past>>
        BY <2>8 DEF MainEnd
      <3>3. OnlyTheseAreLost'
        BY <3>1, <3>2
      <3> QED
        BY <3>2, <3>3
    <2>9. ASSUME NEW force \in BOOLEAN, DbCloseContext(force) PROVE ContextInv'
      BY <2>9 DEF DbCloseContext, Unlocked, Touch, Cache
    <2>10. ASSUME NEW force \in BOOLEAN, Destroy(force) PROVE ContextInv'
      <3>1. Live /\ ctx' \notin {"api", "main"} /\ past' = past
        BY <2>10 DEF Destroy
      <3>2. Released(force) \ held \subseteq Cache \ held
        BY <2>10, <3>1 DEF Destroy, Released
      <3>3. Cache \ held \subseteq {"cache"}
        BY DEF Cache
      <3>4. misuse' \subseteq misuse \cup {"cache"}
        BY <2>10, <3>2, <3>3 DEF Destroy, Touch
      <3>5. "cache" \in misuse' => "sq_db_close_context" \in past
        BY <2>10, <3>1, <3>2 DEF Destroy, Touch, Cache
      <3>6. (held \ Released(force)) \X {"unforced"} \subseteq {<<"arena", "unforced">>}
        <4>1. ctx = "api"
          BY <2>10 DEF Destroy
        <4>2. \A x \in held : x # "arena" => x \in Released(force)
          <5>1. held \subseteq {"ctx", "arena", "db", "cache", "socket"}
            OBVIOUS
          <5>2. "ctx" \in Released(force)
            BY DEF Released
          <5>3. "db" \in held => "db" \in Released(force)
            BY <4>1 DEF Released
          <5>4. "cache" \in held => "cache" \in Released(force)
            BY <4>1 DEF Released, Cache
          <5>5. "socket" \in held => "socket" \in Released(force)
            BY <4>1 DEF Released
          <5> QED
            BY <5>1, <5>2, <5>3, <5>4, <5>5
        <4>3. held \ Released(force) \subseteq {"arena"}
          BY <4>2
        <4> HIDE DEF ContextInv
        <4> QED
          BY <4>3
      <3>7. lost' = lost \/ lost' = lost \cup ((held \ Released(force)) \X {"unforced"})
        BY <2>10 DEF Destroy
      <3>8. OnlyTheseAreLost'
        BY <3>6, <3>7
      <3>9. held' \subseteq held /\ ctx' # "api"
        BY <2>10, <3>1 DEF Destroy
      <3> QED
        BY <3>1, <3>4, <3>5, <3>8, <3>9
    <2>11. CASE UNCHANGED ctxVars
      BY <2>11 DEF ctxVars
    <2> QED
      BY <2>1, <2>2, <2>3, <2>4, <2>5, <2>6, <2>7, <2>8, <2>9, <2>10, <2>11 DEF ContextNext
  <1> QED
    BY <1>1, <1>2, PTL DEF ContextSpec

(* Nothing of the context is lost, released twice or used after, and its   *)
(* booleans say what is there (net.c:22-118, storage.c:14-69), whatever is *)
(* called in whatever order, but for what ContextIsKept names.             *)
THEOREM ContextHolds == ContextSpec => []ContextIsKept
  <1>1. ContextInv => ContextIsKept
    BY DEF ContextInv, ContextIsKept
  <1> QED
    BY <1>1, ContextInvariance, PTL

-----------------------------------------------------------------------------
(* ShellUi.                                                                *)

UiSpec == UiInit /\ [][UiNext]_uiVars

(* Will the thread come to a flush before it rests?                        *)
Resting(t) == IF t = "main" THEN {"out", "ended"} ELSE {"prompt", "ended"}
WillFlush(t) == where[t] \notin Resting(t)

Places == {"out", "room", "load", "bump", "store", "last", "full", "write", "zero",
           "any", "flush", "flushed", "prompt", "ended"}

(* What is in the buffer has a thread that will flush it.                  *)
UiInv ==
  /\ widx \in Nat
  /\ where \in [UiThreads -> Places] /\ reg \in [UiThreads -> Nat]
  /\ widx > 0 => \E t \in UiThreads : WillFlush(t)

(* A thread that goes on keeps the invariant if it is yet to flush there,  *)
(* or if the buffer is empty.                                              *)
LEMMA GoesOn ==
  ASSUME UiInv, NEW t \in UiThreads, NEW at \in Places, Goto(t, at),
         widx' \in Nat, reg' \in [UiThreads -> Nat],
         at \notin Resting(t) \/ widx' = 0
  PROVE  UiInv'
  <1>1. where' \in [UiThreads -> Places] /\ where'[t] = at
    BY DEF UiInv, Goto
  <1>2. CASE widx' = 0
    BY <1>1, <1>2 DEF UiInv
  <1>3. CASE at \notin Resting(t)
    <2>1. where'[t] \notin Resting(t)
      BY <1>1, <1>3
    <2>2. WillFlush(t)'
      BY <2>1 DEF WillFlush, Resting
    <2> QED
      BY <1>1, <2>2 DEF UiInv
  <1> QED
    BY <1>2, <1>3

(* Whatever the threads do to the buffer at once, it is empty when both    *)
(* are through: the last to change the index is yet to flush               *)
(* (ui.c:38-59).                                                           *)
THEOREM BufferDrains == UiSpec => []NothingStaysBuffered
  <1>1. UiInit => UiInv
    BY DEF UiInit, UiInv, Places
  <1>2. UiInv /\ [UiNext]_uiVars => UiInv'
    <2> SUFFICES ASSUME UiInv, [UiNext]_uiVars PROVE UiInv'
      OBVIOUS
    <2>0. widx \in Nat /\ reg \in [UiThreads -> Nat]
      BY DEF UiInv
    <2>1. ASSUME NEW t \in UiThreads, Dispatch(t) PROVE UiInv'
      <3>1. Goto(t, "room") /\ widx' = widx /\ reg' \in [UiThreads -> Nat]
        BY <2>0, <2>1 DEF Dispatch
      <3>2. "room" \notin Resting(t)
        BY DEF Resting
      <3> QED
        BY <2>0, <3>1, <3>2, GoesOn DEF Places
    <2>2. ASSUME NEW t \in UiThreads, Room(t) \/ StoreChar(t) PROVE UiInv'
      <3>1. /\ Goto(t, "load") \/ Goto(t, "last") \/ Goto(t, "room")
            /\ widx' = widx /\ reg' = reg
        BY <2>2 DEF Room, StoreChar, Move, Appended
      <3>2. "load" \notin Resting(t) /\ "last" \notin Resting(t) /\ "room" \notin Resting(t)
        BY DEF Resting
      <3> QED
        BY <2>0, <3>1, <3>2, GoesOn DEF Places
    <2>3. ASSUME NEW t \in UiThreads, LoadIndex(t) PROVE UiInv'
      <3>1. Goto(t, "bump") /\ widx' = widx /\ reg' \in [UiThreads -> Nat]
        BY <2>0, <2>3 DEF LoadIndex
      <3>2. "bump" \notin Resting(t)
        BY DEF Resting
      <3> QED
        BY <2>0, <3>1, <3>2, GoesOn DEF Places
    <2>4. ASSUME NEW t \in UiThreads, BumpIndex(t) PROVE UiInv'
      <3>1. Goto(t, "store") /\ widx' \in Nat /\ reg' = reg
        BY <2>0, <2>4 DEF BumpIndex, Move
      <3>2. "store" \notin Resting(t)
        BY DEF Resting
      <3> QED
        BY <2>0, <3>1, <3>2, GoesOn DEF Places
    <2>5. ASSUME NEW t \in UiThreads, KeepLast(t) PROVE UiInv'
      <3>1. Goto(t, "full") /\ widx' = widx /\ reg' = reg
        BY <2>5 DEF KeepLast, Move
      <3>2. "full" \notin Resting(t)
        BY DEF Resting
      <3> QED
        BY <2>0, <3>1, <3>2, GoesOn DEF Places
    <2>6. ASSUME NEW t \in UiThreads, TestFull(t) \/ ZeroIndex(t) PROVE UiInv'
      <3>1. /\ Goto(t, "write") \/ Goto(t, IF t = "main" THEN "any" ELSE "out")
            /\ widx' \in Nat /\ reg' = reg
        BY <2>0, <2>6 DEF TestFull, ZeroIndex, Done, Move
      <3>2. /\ "write" \notin Resting(t)
            /\ (IF t = "main" THEN "any" ELSE "out") \notin Resting(t)
        BY DEF Resting
      <3> QED
        BY <2>0, <3>1, <3>2, GoesOn DEF Places
    <2>7. ASSUME NEW t \in UiThreads, WriteOut(t) PROVE UiInv'
      <3>1. /\ Goto(t, "zero") \/ Goto(t, "flushed")
            /\ widx' = widx /\ reg' = reg
        BY <2>7 DEF WriteOut, Move
      <3>2. "zero" \notin Resting(t) /\ "flushed" \notin Resting(t)
        BY DEF Resting
      <3> QED
        BY <2>0, <3>1, <3>2, GoesOn DEF Places
    <2>8. ASSUME NEW t \in UiThreads, TestAny(t) \/ Flushed(t) PROVE UiInv'
      <3>1. /\ Goto(t, "flush") \/ (Goto(t, AfterFlush(t)) /\ widx' = 0)
            /\ widx' \in Nat /\ reg' = reg
        BY <2>0, <2>8 DEF TestAny, Flushed, FlushedIndex, Move
      <3>2. "flush" \notin Resting(t) /\ AfterFlush(t) \in Places
        BY DEF Resting, AfterFlush, Places
      <3> QED
        BY <3>1, <3>2, <2>0, GoesOn DEF Places
    <2>9. CASE LastFlush
      <3>1. /\ Goto("reader", "any") /\ widx' = widx /\ reg' = reg
            /\ "reader" \in UiThreads /\ "any" \notin Resting("reader")
        BY <2>9 DEF LastFlush, Move, UiThreads, Resting
      <3> QED
        BY <2>0, <3>1, GoesOn DEF Places
    <2>10. CASE PutUiPrompt
      <3>1. /\ where' = [where EXCEPT !["reader"] = "ended"] /\ where["reader"] = "prompt"
            /\ widx' = widx /\ reg' = reg
        BY <2>10 DEF PutUiPrompt, Move, Goto
      <3>2. where' \in [UiThreads -> Places] /\ where'["main"] = where["main"]
        BY <3>1 DEF UiInv, UiThreads, Places
      <3>3. widx > 0 => WillFlush("main")
        BY <3>1 DEF UiInv, WillFlush, Resting, UiThreads
      <3>4. WillFlush("main") => WillFlush("main")'
        BY <3>2 DEF WillFlush, Resting
      <3> QED
        BY <3>1, <3>2, <3>3, <3>4 DEF UiInv, UiThreads
    <2>11. CASE UNCHANGED uiVars
      BY <2>11 DEF uiVars, threadVars, UiInv, WillFlush
    <2> QED
      BY <2>1, <2>2, <2>3, <2>4, <2>5, <2>6, <2>7, <2>8, <2>9, <2>10, <2>11
         DEF UiNext
  <1>3. UiInv => NothingStaysBuffered
    BY DEF UiInv, NothingStaysBuffered, Idle, WillFlush, Resting, UiThreads
  <1> QED
    BY <1>1, <1>2, <1>3, PTL DEF UiSpec

(* The prover does not know that these are strings. *)
Chars == STRING \cup {"\r", "\n", Prompt, NoChar}

(* While no call has begun during another, a thread in a call has yet to   *)
(* append or to show: ...                                                  *)
Pending(t) ==
  IF where[t] \in {"room", "load", "bump", "store"}
  THEN IF put[t] = char[t] THEN <<char[t]>> ELSE <<put[t], char[t]>>
  ELSE IF t = "reader" /\ where[t] \in {"any", "flush", "flushed", "prompt"}
       THEN <<Prompt>> ELSE << >>

(* ... and the buffer holds what is not on the screen: not the cell it is  *)
(* about to fill, and nothing once it has written it out.                  *)
Held(b, n) == [i \in 1 .. n |-> IF i <= Size THEN b[i - 1] ELSE NoChar]
Unshown(t) ==
  IF where[t] \in {"zero", "flushed", "prompt"} THEN << >>
  ELSE Held(wbuf, IF where[t] = "store" THEN reg[t] ELSE widx)

LastIn(s) == IF s = << >> THEN NoChar ELSE s[Len(s)]

(* Nobody is in a call: all is shown or buffered, the margin is free and,  *)
(* before the last flush, the last character is known.                     *)
AtRest ==
  /\ screen \o Held(wbuf, widx) = Rendered(said)
  /\ widx < Size - Margin
  /\ where["reader"] = "out" => wlast = LastIn(said)

(* The thread t is in a call, alone.                                       *)
InCall(t) ==
  /\ screen \o (Unshown(t) \o Pending(t)) = Rendered(said)
  /\ where[t] \in {"room", "load", "bump"} => widx + Len(Pending(t)) <= Size
  /\ where[t] = "bump" => reg[t] = widx
  /\ where[t] = "store" => widx = reg[t] + 1 /\ reg[t] + Len(Pending(t)) <= Size
  /\ where[t] \in {"room", "load", "bump", "store", "last", "full"} => char[t] = LastIn(said)
  /\ where[t] = "prompt" => t = "reader" /\ widx = 0
  /\ /\ where[t] \notin {"room", "load", "bump", "store", "last"}
     /\ where["reader"] \in {"out", "full", "write", "zero"}
     => wlast = LastIn(said)

UiTypes ==
  /\ widx \in Nat /\ wbuf \in [0 .. Size - 1 -> Chars] /\ wlast \in Chars
  /\ where \in [UiThreads -> Places] /\ reg \in [UiThreads -> Nat]
  /\ char \in [UiThreads -> Chars] /\ put \in [UiThreads -> Chars]
  /\ todo \in [UiThreads -> Seq(Chars)]
  /\ \A i \in DOMAIN todo["main"] : todo["main"][i] # "\n"
  /\ screen \in Seq(Chars) /\ said \in Seq(Chars) /\ overlap \in BOOLEAN

AloneInv ==
  /\ UiTypes
  /\ ~overlap /\ (\A t \in UiThreads : Idle(t)) => AtRest
  /\ ~overlap => \A t \in UiThreads : ~Idle(t) =>
       InCall(t) /\ \A u \in UiThreads \ {t} : Idle(u)

(* What one more character of what was said looks like. *)
Shown(s, c) ==
  IF c = "\n" /\ LastIn(s) # "\r" THEN <<"\r", "\n">> ELSE <<c>>

(* What is said looks like what was said before, and the last character.   *)
LEMMA RenderedAppend ==
  ASSUME NEW s \in Seq(Chars), NEW c \in Chars
  PROVE  /\ Rendered(s) \in Seq(Chars)
         /\ Rendered(Append(s, c)) = Rendered(s) \o Shown(s, c)
  <1> DEFINE Piece(r, i) == IF r[i] = "\n" /\ (i = 1 \/ r[i - 1] # "\r")
                              THEN <<"\r", "\n">> ELSE <<r[i]>>
             Pieces(r) == [i \in 1 .. Len(r) |-> Piece(r, i)]
             sc == Append(s, c)
  <1>0. PICK N \in Nat : N = Len(s)
    OBVIOUS
  <1>1. /\ sc \in Seq(Chars) /\ Len(sc) = N + 1 /\ sc[N + 1] = c
        /\ \A i \in 1 .. N : sc[i] = s[i]
    BY <1>0, AppendIs
  <1>2. /\ \A d \in Chars : <<d>> \in Seq(Chars)
        /\ <<"\r", "\n">> \in Seq(Chars)
    <2>1. ASSUME NEW d \in Chars PROVE <<d>> \in Seq(Chars)
      BY SeqOfOne
    <2>2. <<"\r", "\n">> \in Seq(Chars)
      <3>1. "\r" \in Chars /\ "\n" \in Chars
        BY DEF Chars
      <3> QED
        BY <3>1, SeqOfTwo
    <2> QED
      BY <2>1, <2>2
  <1>3. ASSUME NEW r \in Seq(Chars) PROVE Rendered(r) = FlattenSeq(Pieces(r))
    <2>1. DOMAIN r = 1 .. Len(r)
      OBVIOUS
    <2> QED
      BY <2>1 DEF Rendered
  <1> HIDE DEF sc
  <1>4. ASSUME NEW r \in Seq(Chars) PROVE Pieces(r) \in Seq(Seq(Chars))
    <2>1. ASSUME NEW i \in 1 .. Len(r) PROVE Piece(r, i) \in Seq(Chars)
      <3>1. r[i] \in Chars
        OBVIOUS
      <3> QED
        BY <1>2, <3>1
    <2>2. Len(r) \in Nat
      OBVIOUS
    <2> HIDE DEF Piece
    <2> QED
      BY <2>1, <2>2
  <1>5. Pieces(sc) = Append(Pieces(s), Shown(s, c))
    <2>1. \A i \in 1 .. N : Piece(sc, i) = Piece(s, i)
      <3> SUFFICES ASSUME NEW i \in 1 .. N PROVE Piece(sc, i) = Piece(s, i)
        OBVIOUS
      <3>1. sc[i] = s[i] /\ (i # 1 => i - 1 \in 1 .. N)
        BY <1>1
      <3>2. i # 1 => sc[i - 1] = s[i - 1]
        BY <1>1, <3>1
      <3> QED
        BY <3>1, <3>2
    <2>2. Piece(sc, N + 1) = Shown(s, c)
      <3>1. N = 0 <=> s = << >>
        BY <1>0
      <3>2. (N + 1) - 1 = N /\ (N # 0 => sc[N] = s[N]) /\ (N + 1 = 1 <=> N = 0)
        BY <1>1
      <3> QED
        BY <1>0, <1>1, <3>1, <3>2 DEF Shown, LastIn, NoChar
    <2>3. Pieces(s) \in Seq(Seq(Chars)) /\ Len(Pieces(s)) = N
      BY <1>0, <1>4
    <2>4. Shown(s, c) \in Seq(Chars)
      BY <1>2 DEF Shown
    <2> DEFINE a == Append(Pieces(s), Shown(s, c))
    <2>5. /\ a \in Seq(Seq(Chars)) /\ Len(a) = N + 1 /\ a[N + 1] = Shown(s, c)
          /\ \A i \in 1 .. N : a[i] = Pieces(s)[i]
      <3> HIDE DEF Pieces
      <3> QED
        BY <2>3, <2>4, AppendIs
    <2>6. Pieces(sc) \in Seq(Seq(Chars)) /\ Len(Pieces(sc)) = N + 1
      BY <1>1, <1>4
    <2>7. ASSUME NEW i \in 1 .. N + 1 PROVE a[i] = Pieces(sc)[i]
      <3>1. CASE i = N + 1
        BY <1>1, <2>2, <2>5, <3>1
      <3>2. CASE i # N + 1
        <4>1. i \in 1 .. N
          BY <3>2
        <4> HIDE DEF a, Piece
        <4> QED
          BY <1>0, <1>1, <2>1, <2>5, <4>1
      <3> QED
        BY <3>1, <3>2
    <2> HIDE DEF a, Pieces
    <2>8. a = Pieces(sc)
      BY <2>5, <2>6, <2>7, SeqEqual
    <2> QED
      BY <2>8 DEF a
  <1>6. Shown(s, c) \in Seq(Chars)
    BY <1>2 DEF Shown
  <1>7. Pieces(s) \in Seq(Seq(Chars))
    BY <1>4
  <1> HIDE DEF Pieces
  <1> QED
    BY <1>1, <1>3, <1>5, <1>6, <1>7, FlattenAppend DEF sc

(* Nothing looks like nothing. *)
LEMMA RenderedNone == Rendered(<< >>) = << >>
  <1>1. [i \in DOMAIN << >> |->
           IF << >>[i] = "\n" /\ (i = 1 \/ << >>[i - 1] # "\r") THEN <<"\r", "\n">>
           ELSE << << >>[i] >>] = << >>
    OBVIOUS
  <1> QED
    BY <1>1, FlattenNone DEF Rendered

(* The first n characters of the buffer, and one more. *)
LEMMA HeldGrows ==
  ASSUME NEW b \in [0 .. Size - 1 -> Chars], NEW n \in Nat, UiAssumption
  PROVE  /\ Held(b, n) \in Seq(Chars) /\ Len(Held(b, n)) = n
         /\ n < Size => Held(b, n + 1) = Held(b, n) \o <<b[n]>>
  <1>1. ASSUME NEW m \in Nat
        PROVE  Held(b, m) \in Seq(Chars) /\ Len(Held(b, m)) = m
    <2>1. ASSUME NEW i \in 1 .. m PROVE (IF i <= Size THEN b[i - 1] ELSE NoChar) \in Chars
      <3>1. i <= Size => i - 1 \in 0 .. Size - 1
        BY DEF UiAssumption
      <3>2. NoChar \in Chars
        BY DEF Chars
      <3> QED
        BY <3>1, <3>2
    <2> QED
      BY <2>1 DEF Held
  <1>2. ASSUME n < Size PROVE Held(b, n + 1) = Held(b, n) \o <<b[n]>>
    <2>1. b[n] \in Chars
      BY <1>2 DEF UiAssumption
    <2>2. /\ Held(b, n + 1) \in Seq(Chars) /\ Len(Held(b, n + 1)) = n + 1
          /\ Held(b, n) \in Seq(Chars) /\ Len(Held(b, n)) = n
          /\ <<b[n]>> \in Seq(Chars) /\ Len(<<b[n]>>) = 1 /\ <<b[n]>>[1] = b[n]
      <3>1. <<b[n]>> \in Seq(Chars) /\ Len(<<b[n]>>) = 1 /\ <<b[n]>>[1] = b[n]
        BY <2>1, SeqOfOne
      <3>2. n + 1 \in Nat
        OBVIOUS
      <3> QED
        BY <1>1, <3>1, <3>2
    <2> DEFINE last == <<b[n]>>  a == Held(b, n) \o last
    <2>3. /\ a \in Seq(Chars) /\ Len(a) = n + 1
          /\ \A i \in 1 .. n + 1 : a[i] = IF i <= n THEN Held(b, n)[i] ELSE last[i - n]
      <3> HIDE DEF last
      <3> QED
        BY <2>2, ConcatProperties DEF last
    <2>4. ASSUME NEW i \in 1 .. n + 1 PROVE a[i] = Held(b, n + 1)[i]
      <3>1. CASE i = n + 1
        <4>1. i - n = 1 /\ ~(i <= n) /\ i <= Size /\ i - 1 = n
          BY <1>2, <3>1 DEF UiAssumption
        <4>2. a[i] = b[n]
          BY <2>2, <2>3, <4>1
        <4>3. Held(b, n + 1)[i] = b[n]
          BY <4>1 DEF Held
        <4> QED
          BY <4>2, <4>3
      <3>2. CASE i # n + 1
        <4>1. i \in 1 .. n /\ i \in 1 .. n + 1 /\ i <= n
          BY <3>2
        <4>2. a[i] = Held(b, n)[i]
          BY <2>3, <4>1
        <4>3. Held(b, n)[i] = Held(b, n + 1)[i]
          BY <4>1 DEF Held
        <4> QED
          BY <4>2, <4>3
      <3> QED
        BY <3>1, <3>2
    <2> HIDE DEF a
    <2>5. a = Held(b, n + 1)
      BY <2>2, <2>3, <2>4, SeqEqual
    <2> QED
      BY <2>5 DEF a, last
  <1> QED
    BY <1>1, <1>2

(* A cell that is filled is not among the first n. *)
LEMMA HeldKeeps ==
  ASSUME NEW b \in [0 .. Size - 1 -> Chars], NEW n \in Nat, NEW c \in Chars,
         n < Size, UiAssumption
  PROVE  LET d == [i \in DOMAIN b |-> IF i = n THEN c ELSE b[i]] IN
         /\ d \in [0 .. Size - 1 -> Chars]
         /\ Held(d, n + 1) = Held(b, n) \o <<c>>
  <1> DEFINE d == [i \in DOMAIN b |-> IF i = n THEN c ELSE b[i]]
  <1>1. d \in [0 .. Size - 1 -> Chars]
    OBVIOUS
  <1>2. n \in DOMAIN b /\ d[n] = c
    BY DEF UiAssumption
  <1>3. Held(d, n) = Held(b, n)
    <2>1. \A i \in 1 .. n : d[i - 1] = b[i - 1]
      BY DEF UiAssumption
    <2> HIDE DEF d
    <2> QED
      BY <2>1 DEF Held
  <1> HIDE DEF d
  <1>4. Held(d, n + 1) = Held(d, n) \o <<d[n]>>
    BY <1>1, HeldGrows
  <1>5. Held(d, n + 1) = Held(b, n) \o <<c>>
    BY <1>2, <1>3, <1>4
  <1> QED
    BY <1>1, <1>5 DEF d

(* The types of the screen's variables. *)
LEMMA UiTyped == UiTypes /\ [UiNext]_uiVars => UiTypes'
  <1> SUFFICES ASSUME UiTypes, [UiNext]_uiVars PROVE UiTypes'
    OBVIOUS
  <1> USE DEF UiTypes
  <1>1. /\ NoChar \in Chars /\ Prompt \in Chars /\ "\r" \in Chars /\ "\n" \in Chars
    BY DEF Chars
  <1>2. ASSUME NEW t \in UiThreads, NEW c \in Chars, Begin(t, c)
        PROVE  said' \in Seq(Chars) /\ overlap' \in BOOLEAN
    <2>1. said' \in Seq(Chars)
      BY <1>2, AppendProperties DEF Begin
    <2>2. overlap' \in BOOLEAN
      BY <1>2 DEF Begin
    <2> QED
      BY <2>1, <2>2
  <1>3. ASSUME NEW t \in UiThreads, NEW at \in Places, Goto(t, at)
        PROVE  where' \in [UiThreads -> Places]
    BY <1>3 DEF Goto
  <1>4. ASSUME NEW n \in Nat
        PROVE  Held(wbuf, n) \in Seq(Chars)
    BY HeldGrows, UiAssumption
  <1>5. Buffered = Held(wbuf, widx)
    BY DEF Buffered, Held
  <1>6. ASSUME NEW t \in UiThreads, Dispatch(t) PROVE UiTypes'
    <2>1. todo[t] \in Seq(Chars) /\ todo[t] # << >>
      BY <1>6 DEF Dispatch
    <2>2. Head(todo[t]) \in Chars /\ Tail(todo[t]) \in Seq(Chars)
      BY <2>1
    <2>3. said' \in Seq(Chars) /\ overlap' \in BOOLEAN
      BY <1>2, <1>6, <2>2 DEF Dispatch
    <2>4. /\ char' \in [UiThreads -> Chars] /\ put' \in [UiThreads -> Chars]
          /\ reg' \in [UiThreads -> Nat] /\ todo' \in [UiThreads -> Seq(Chars)]
      BY <1>1, <1>6, <2>2 DEF Dispatch
    <2>5. \A i \in DOMAIN todo'["main"] : todo'["main"][i] # "\n"
      <3>1. CASE t = "main"
        <4>1. todo'["main"] = Tail(todo["main"]) /\ todo["main"] \in Seq(Chars)
          BY <1>6, <3>1 DEF Dispatch
        <4>2. ASSUME NEW i \in DOMAIN Tail(todo["main"]) PROVE Tail(todo["main"])[i] # "\n"
          <5>1. i + 1 \in DOMAIN todo["main"] /\ Tail(todo["main"])[i] = todo["main"][i + 1]
            BY <2>1, <3>1, <4>1
          <5> QED
            BY <5>1
        <4> QED
          BY <4>1, <4>2
      <3>2. CASE t # "main"
        BY <1>6, <3>2 DEF Dispatch, UiThreads
      <3> QED
        BY <3>1, <3>2
    <2>6. where' \in [UiThreads -> Places]
      BY <1>3, <1>6 DEF Dispatch, Places
    <2>7. UNCHANGED <<widx, wbuf, wlast, screen>>
      BY <1>6 DEF Dispatch
    <2> QED
      BY <2>3, <2>4, <2>5, <2>6, <2>7
  <1>7. ASSUME NEW t \in UiThreads, Room(t) PROVE UiTypes'
    <2>1. /\ where' \in [UiThreads -> Places] /\ put' \in [UiThreads -> Chars]
          /\ UNCHANGED <<char, reg, todo>>
      <3>1. "load" \in Places /\ "last" \in Places /\ "room" \in Places
        BY DEF Places
      <3> QED
        BY <1>3, <1>7, <3>1 DEF Room, Move, Appended
    <2> QED
      BY <1>7, <2>1 DEF Room
  <1>8. ASSUME NEW t \in UiThreads, LoadIndex(t) PROVE UiTypes'
    BY <1>3, <1>8 DEF LoadIndex, Places
  <1>9. ASSUME NEW t \in UiThreads, BumpIndex(t) PROVE UiTypes'
    BY <1>3, <1>9 DEF BumpIndex, Move, Places
  <1>10. ASSUME NEW t \in UiThreads, StoreChar(t) PROVE UiTypes'
    <2>1. /\ where' \in [UiThreads -> Places] /\ put' \in [UiThreads -> Chars]
          /\ UNCHANGED <<char, reg, todo>>
      <3>1. "last" \in Places /\ "room" \in Places
        BY DEF Places
      <3> QED
        BY <1>3, <1>10, <3>1 DEF StoreChar, Appended
    <2>2. wbuf' \in [0 .. Size - 1 -> Chars]
      BY <1>10 DEF StoreChar
    <2> QED
      BY <1>10, <2>1, <2>2 DEF StoreChar
  <1>11. ASSUME NEW t \in UiThreads, KeepLast(t) PROVE UiTypes'
    BY <1>3, <1>11 DEF KeepLast, Move, Places
  <1>12. ASSUME NEW t \in UiThreads, TestFull(t) \/ TestAny(t) \/ ZeroIndex(t) \/ Flushed(t)
         PROVE  UiTypes'
    <2>1. \E at \in Places : Move(t, at)
      <3>1. {"write", "any", "out", "flush", "prompt"} \subseteq Places
        BY DEF Places
      <3> QED
        BY <1>12, <3>1 DEF TestFull, TestAny, ZeroIndex, Flushed, Done, AfterFlush
    <2>2. where' \in [UiThreads -> Places] /\ UNCHANGED <<char, put, reg, todo>>
      BY <1>3, <2>1 DEF Move
    <2>3. widx' \in Nat /\ UNCHANGED <<wbuf, wlast, screen, said, overlap>>
      BY <1>12 DEF TestFull, TestAny, ZeroIndex, Flushed, FlushedIndex
    <2> QED
      BY <2>2, <2>3
  <1>13. ASSUME NEW t \in UiThreads, WriteOut(t) PROVE UiTypes'
    <2>1. screen' \in Seq(Chars)
      BY <1>4, <1>5, <1>13, ConcatProperties DEF WriteOut
    <2>2. where' \in [UiThreads -> Places] /\ UNCHANGED <<char, put, reg, todo>>
      BY <1>3, <1>13 DEF WriteOut, Move, Places
    <2> QED
      BY <1>13, <2>1, <2>2 DEF WriteOut
  <1>14. CASE LastFlush
    <2>1. "reader" \in UiThreads
      BY DEF UiThreads
    <2>2. said' \in Seq(Chars) /\ overlap' \in BOOLEAN
      BY <1>1, <1>2, <1>14, <2>1 DEF LastFlush
    <2>3. where' \in [UiThreads -> Places] /\ UNCHANGED <<char, put, reg, todo>>
      BY <1>3, <1>14, <2>1 DEF LastFlush, Move, Places
    <2> QED
      BY <1>14, <2>2, <2>3 DEF LastFlush
  <1>15. CASE PutUiPrompt
    <2>1. "reader" \in UiThreads
      BY DEF UiThreads
    <2>2. screen' \in Seq(Chars)
      BY <1>1, <1>15, AppendProperties DEF PutUiPrompt
    <2>3. where' \in [UiThreads -> Places] /\ UNCHANGED <<char, put, reg, todo>>
      BY <1>3, <1>15, <2>1 DEF PutUiPrompt, Move, Places
    <2> QED
      BY <1>15, <2>2, <2>3 DEF PutUiPrompt
  <1>16. CASE UNCHANGED uiVars
    BY <1>16 DEF uiVars, threadVars
  <1> QED
    BY <1>6, <1>7, <1>8, <1>9, <1>10, <1>11, <1>12, <1>13, <1>14, <1>15, <1>16 DEF UiNext

(* The place a thread goes to, and the threads that are elsewhere.         *)
LEMMA AloneAt ==
  ASSUME AloneInv, UiTypes', NEW t \in UiThreads, NEW at \in Places, Goto(t, at),
         \A u \in UiThreads \ {t} : Idle(u),
         at \in {"out", "ended"} => AtRest',
         at \notin {"out", "ended"} => InCall(t)'
  PROVE  AloneInv'
  <1>1. where'[t] = at /\ \A u \in UiThreads \ {t} : where'[u] = where[u]
    BY DEF Goto, AloneInv, UiTypes
  <1>2. \A u \in UiThreads \ {t} : Idle(u)'
    BY <1>1 DEF Idle
  <1>3. Idle(t)' <=> at \in {"out", "ended"}
    BY <1>1 DEF Idle
  <1>4. ASSUME \A u \in UiThreads : Idle(u)' PROVE AtRest'
    BY <1>3, <1>4
  <1>5. ASSUME NEW u \in UiThreads, ~Idle(u)'
        PROVE  InCall(u)' /\ \A v \in UiThreads \ {u} : Idle(v)'
    BY <1>2, <1>3, <1>5
  <1> QED
    BY <1>4, <1>5 DEF AloneInv

(* One more character is rendered behind what was. *)
LEMMA RenderedMore ==
  ASSUME NEW s \in Seq(Chars), NEW c \in Chars, NEW a \in Seq(Chars), NEW b \in Seq(Chars),
         Rendered(s) = a \o b
  PROVE  Rendered(Append(s, c)) = a \o (b \o Shown(s, c))
  <1>1. PICK e \in Seq(Chars) : e = Shown(s, c)
    <2>1. "\r" \in Chars /\ "\n" \in Chars
      BY DEF Chars
    <2> QED
      BY <2>1, SeqOfOne, SeqOfTwo DEF Shown
  <1>2. (a \o b) \o e = a \o (b \o e)
    BY ConcatAssociative
  <1> QED
    BY <1>1, <1>2, RenderedAppend

(* A call begins while nobody is in one.                                   *)
LEMMA BeginsAlone ==
  ASSUME AloneInv, UiAssumption, NEW t \in UiThreads, NEW c \in Chars, Begin(t, c), Idle(t),
         ~overlap'
  PROVE  /\ AtRest /\ \A u \in UiThreads : Idle(u)
         /\ LastIn(said') = c
         /\ Rendered(said') = screen \o (Held(wbuf, widx) \o Shown(said, c))
  <1>1. ~overlap /\ said' = Append(said, c) /\ \A u \in UiThreads : Idle(u)
    BY DEF Begin
  <1>2. AtRest
    BY <1>1 DEF AloneInv
  <1>3. LastIn(said') = c
    <2>1. said \in Seq(Chars)
      BY DEF AloneInv, UiTypes
    <2> QED
      BY <1>1, <2>1, AppendProperties DEF LastIn
  <1>4. /\ screen \in Seq(Chars) /\ said \in Seq(Chars) /\ Held(wbuf, widx) \in Seq(Chars)
    BY HeldGrows DEF AloneInv, UiTypes
  <1>5. Rendered(said) = screen \o Held(wbuf, widx)
    BY <1>2 DEF AtRest
  <1> QED
    BY <1>1, <1>2, <1>3, <1>4, <1>5, RenderedMore

(* A thread in a call goes on alone.                                       *)
LEMMA GoesOnAlone ==
  ASSUME AloneInv, UiAssumption, NEW t \in UiThreads, ~Idle(t), overlap' = overlap, ~overlap'
  PROVE  /\ InCall(t) /\ \A u \in UiThreads \ {t} : Idle(u)
         /\ screen \in Seq(Chars) /\ Pending(t) \in Seq(Chars) /\ Held(wbuf, widx) \in Seq(Chars)
         /\ where[t] \in {"room", "load", "bump", "store"} => Len(Pending(t)) \in 1 .. 2
         /\ widx \in Nat /\ reg[t] \in Nat /\ put[t] \in Chars /\ char[t] \in Chars
  <1>1. InCall(t) /\ \A u \in UiThreads \ {t} : Idle(u)
    BY DEF AloneInv
  <1>2. widx \in Nat /\ reg[t] \in Nat /\ screen \in Seq(Chars) /\ Held(wbuf, widx) \in Seq(Chars)
    BY HeldGrows DEF AloneInv, UiTypes
  <1>3. put[t] \in Chars /\ char[t] \in Chars /\ Prompt \in Chars
    BY DEF AloneInv, UiTypes, Chars
  <1>4. /\ Pending(t) \in Seq(Chars)
        /\ where[t] \in {"room", "load", "bump", "store"} => Len(Pending(t)) \in 1 .. 2
    <2>1. << >> \in Seq(Chars)
      OBVIOUS
    <2> QED
      BY <1>3, <2>1, SeqOfOne, SeqOfTwo DEF Pending
  <1> QED
    BY <1>1, <1>2, <1>3, <1>4

(* Every step keeps that. *)
LEMMA AloneStays == AloneInv /\ [UiNext]_uiVars => AloneInv'
  <1> SUFFICES ASSUME AloneInv, [UiNext]_uiVars PROVE AloneInv'
    OBVIOUS
  <1>1. UiTypes /\ UiTypes'
    BY UiTyped DEF AloneInv
  <1>2. CASE overlap'
    BY <1>1, <1>2 DEF AloneInv
  <1> SUFFICES ASSUME ~overlap' PROVE AloneInv'
    BY <1>2
  <1>3. "main" \in UiThreads /\ "reader" \in UiThreads /\ UiThreads = {"main", "reader"}
    BY DEF UiThreads
  <1>4. ASSUME NEW t \in UiThreads, Dispatch(t) PROVE AloneInv'
    <2> DEFINE c == Head(todo[t])
    <2>1. /\ todo[t] \in Seq(Chars) /\ todo[t] # << >> /\ c \in Chars /\ Idle(t)
          /\ Begin(t, c) /\ Goto(t, "room")
      BY <1>1, <1>4 DEF Dispatch, UiTypes, Idle
    <2>2. t = "main" => c # "\n"
      <3>1. c = todo[t][1] /\ 1 \in DOMAIN todo[t]
        BY <2>1
      <3> QED
        BY <1>1, <3>1 DEF UiTypes
    <2>3. /\ where[t] = "out" /\ where'[t] = "room" /\ char'[t] = c
          /\ put'[t] = IF c = "\n" /\ wlast # "\r" THEN "\r" ELSE c
          /\ wbuf' = wbuf /\ widx' = widx /\ screen' = screen /\ wlast' = wlast
      BY <1>1, <1>4 DEF Dispatch, UiTypes, Goto
    <2> HIDE DEF c
    <2>4. /\ AtRest /\ \A u \in UiThreads : Idle(u)
          /\ LastIn(said') = c
          /\ Rendered(said') = screen \o (Held(wbuf, widx) \o Shown(said, c))
      BY <2>1, BeginsAlone, UiAssumption
    <2>5. Pending(t)' = Shown(said, c)
      <3>1. c = "\n" => t = "reader" /\ wlast = LastIn(said)
        BY <1>3, <2>2, <2>3, <2>4 DEF AtRest
      <3> QED
        BY <2>3, <3>1 DEF Pending, Shown
    <2>6. Unshown(t)' = Held(wbuf, widx)
      BY <2>3 DEF Unshown
    <2>7. widx' + Len(Pending(t)') <= Size
      <3>1. Len(Pending(t)') \in 1 .. 2
        BY <2>5 DEF Shown
      <3>2. widx \in Nat /\ widx < Size - Margin
        BY <1>1, <2>4 DEF AtRest, UiTypes
      <3>3. PICK n \in 1 .. 2 : n = Len(Pending(t)')
        BY <3>1
      <3>4. widx + n <= Size
        BY <3>2, UiAssumption DEF UiAssumption
      <3> QED
        BY <2>3, <3>3, <3>4
    <2>8. InCall(t)'
      BY <2>3, <2>4, <2>5, <2>6, <2>7 DEF InCall
    <2> QED
      BY <1>1, <2>1, <2>4, <2>8, AloneAt DEF Places
  <1>5. ASSUME NEW t \in UiThreads, Room(t) PROVE AloneInv'
    <2>1. /\ where[t] = "room" /\ ~Idle(t) /\ overlap' = overlap
          /\ UNCHANGED <<widx, wbuf, wlast, screen, said>>
      BY <1>5 DEF Room, Idle
    <2>2. /\ InCall(t) /\ \A u \in UiThreads \ {t} : Idle(u)
          /\ Len(Pending(t)) \in 1 .. 2 /\ widx \in Nat
      BY <2>1, GoesOnAlone, UiAssumption
    <2>3. widx < Size
      <3>1. PICK n \in 1 .. 2 : n = Len(Pending(t))
        BY <2>2
      <3>2. widx + n <= Size
        BY <2>1, <2>2, <3>1 DEF InCall
      <3> QED
        BY <2>2, <3>1, <3>2, UiAssumption DEF UiAssumption
    <2>4. Goto(t, "load") /\ UNCHANGED <<char, put, reg>>
      BY <1>5, <2>3 DEF Room, Move
    <2>5. where'[t] = "load"
      BY <1>1, <2>4 DEF Goto, UiTypes
    <2>6. Pending(t)' = Pending(t) /\ Unshown(t)' = Unshown(t)
      BY <2>1, <2>4, <2>5 DEF Pending, Unshown
    <2>7. InCall(t)'
      BY <2>1, <2>2, <2>4, <2>5, <2>6 DEF InCall
    <2> QED
      BY <1>1, <2>2, <2>4, <2>7, AloneAt DEF Places
  <1>6. ASSUME NEW t \in UiThreads, LoadIndex(t) PROVE AloneInv'
    <2>1. /\ where[t] = "load" /\ ~Idle(t) /\ overlap' = overlap /\ Goto(t, "bump")
          /\ UNCHANGED <<widx, wbuf, wlast, screen, said, char, put>>
      BY <1>6 DEF LoadIndex, Idle
    <2>2. InCall(t) /\ \A u \in UiThreads \ {t} : Idle(u)
      BY <2>1, GoesOnAlone, UiAssumption
    <2>3. where'[t] = "bump" /\ reg'[t] = widx
      BY <1>1, <1>6 DEF LoadIndex, Goto, UiTypes
    <2>4. Pending(t)' = Pending(t) /\ Unshown(t)' = Unshown(t)
      BY <2>1, <2>3 DEF Pending, Unshown
    <2>5. InCall(t)'
      BY <2>1, <2>2, <2>3, <2>4 DEF InCall
    <2> QED
      BY <1>1, <2>1, <2>2, <2>5, AloneAt DEF Places
  <1>7. ASSUME NEW t \in UiThreads, BumpIndex(t) PROVE AloneInv'
    <2>1. /\ where[t] = "bump" /\ ~Idle(t) /\ overlap' = overlap /\ Goto(t, "store")
          /\ UNCHANGED <<wbuf, wlast, screen, said, char, put, reg>> /\ widx' = reg[t] + 1
      BY <1>7 DEF BumpIndex, Move, Idle
    <2>2. /\ InCall(t) /\ \A u \in UiThreads \ {t} : Idle(u)
      BY <2>1, GoesOnAlone, UiAssumption
    <2>3. where'[t] = "store" /\ reg[t] = widx
      BY <1>1, <2>1, <2>2 DEF InCall, Goto, UiTypes
    <2>4. Pending(t)' = Pending(t) /\ Unshown(t)' = Unshown(t)
      BY <2>1, <2>3 DEF Pending, Unshown
    <2>5. InCall(t)'
      BY <2>1, <2>2, <2>3, <2>4 DEF InCall
    <2> QED
      BY <1>1, <2>1, <2>2, <2>5, AloneAt DEF Places
  <1>8. ASSUME NEW t \in UiThreads, StoreChar(t) PROVE AloneInv'
    <2>1. /\ where[t] = "store" /\ ~Idle(t) /\ overlap' = overlap
          /\ UNCHANGED <<widx, wlast, screen, said, char, reg>>
      BY <1>8 DEF StoreChar, Appended, Idle
    <2>2. /\ InCall(t) /\ \A u \in UiThreads \ {t} : Idle(u)
          /\ screen \in Seq(Chars) /\ Len(Pending(t)) \in 1 .. 2
          /\ reg[t] \in Nat /\ put[t] \in Chars /\ char[t] \in Chars
      BY <2>1, GoesOnAlone, UiAssumption
    <2>3. widx = reg[t] + 1 /\ reg[t] + Len(Pending(t)) <= Size
      BY <2>1, <2>2 DEF InCall
    <2>4. Held(wbuf', widx) = Held(wbuf, reg[t]) \o <<put[t]>>
      <3>1. reg[t] < Size
        <4>1. PICK n \in 1 .. 2 : n = Len(Pending(t))
          BY <2>2
        <4>2. PICK r \in Nat : r = reg[t]
          BY <2>2
        <4>3. r + n <= Size
          BY <2>3, <4>1, <4>2
        <4>4. r < Size
          BY <4>3, UiAssumption DEF UiAssumption
        <4> QED
          BY <4>2, <4>4
      <3>2. wbuf \in [0 .. Size - 1 -> Chars]
        BY <1>1 DEF UiTypes
      <3>3. wbuf' = [i \in DOMAIN wbuf |-> IF i = reg[t] THEN put[t] ELSE wbuf[i]]
        BY <1>8 DEF StoreChar
      <3> QED
        BY <2>2, <2>3, <3>1, <3>2, <3>3, HeldKeeps, UiAssumption
    <2>5. /\ Goto(t, IF put[t] = char[t] THEN "last" ELSE "room")
          /\ where'[t] = (IF put[t] = char[t] THEN "last" ELSE "room")
          /\ put'[t] = char[t]
      BY <1>1, <1>8 DEF StoreChar, Appended, Goto, UiTypes
    <2>6. Unshown(t)' = Held(wbuf', widx) /\ Unshown(t) = Held(wbuf, reg[t])
      BY <2>1, <2>5 DEF Unshown
    <2>7. Pending(t) = <<put[t]>> \o Pending(t)'
      <3>1. CASE put[t] = char[t]
        BY <2>1, <2>2, <2>5, <3>1, SeqOfOne, ConcatEmptySeq DEF Pending
      <3>2. CASE put[t] # char[t]
        BY <2>1, <2>2, <2>5, <3>2 DEF Pending
      <3> QED
        BY <3>1, <3>2
    <2>8. Unshown(t)' \o Pending(t)' = Unshown(t) \o Pending(t)
      <3>1. Held(wbuf, reg[t]) \in Seq(Chars) /\ <<put[t]>> \in Seq(Chars)
        BY <1>1, <2>2, HeldGrows, SeqOfOne, UiAssumption DEF UiTypes
      <3>2. Pending(t)' \in Seq(Chars)
        BY <2>1, <2>2, <2>5, SeqOfOne DEF Pending
      <3>3. (Held(wbuf, reg[t]) \o <<put[t]>>) \o Pending(t)'
              = Held(wbuf, reg[t]) \o (<<put[t]>> \o Pending(t)')
        BY <3>1, <3>2, ConcatAssociative
      <3> QED
        BY <2>4, <2>6, <2>7, <3>3
    <2>9. put[t] # char[t] => widx + Len(Pending(t)') <= Size
      BY <2>1, <2>2, <2>3, <2>5 DEF Pending
    <2>10. InCall(t)'
      BY <2>1, <2>2, <2>5, <2>8, <2>9 DEF InCall
    <2> QED
      BY <1>1, <2>2, <2>5, <2>10, AloneAt DEF Places
  <1>9. ASSUME NEW t \in UiThreads, KeepLast(t) PROVE AloneInv'
    <2>1. /\ where[t] = "last" /\ ~Idle(t) /\ overlap' = overlap /\ Goto(t, "full")
          /\ UNCHANGED <<widx, wbuf, screen, said, char, put, reg>> /\ wlast' = char[t]
      BY <1>9 DEF KeepLast, Move, Idle
    <2>2. InCall(t) /\ \A u \in UiThreads \ {t} : Idle(u)
      BY <2>1, GoesOnAlone, UiAssumption
    <2>3. where'[t] = "full"
      BY <1>1, <2>1 DEF Goto, UiTypes
    <2>4. Pending(t)' = Pending(t) /\ Unshown(t)' = Unshown(t)
      BY <2>1, <2>3 DEF Pending, Unshown
    <2>5. InCall(t)'
      BY <2>1, <2>2, <2>3, <2>4 DEF InCall
    <2> QED
      BY <1>1, <2>1, <2>2, <2>5, AloneAt DEF Places
  <1>10. ASSUME NEW t \in UiThreads, TestFull(t) PROVE AloneInv'
    <2>1. /\ where[t] = "full" /\ ~Idle(t) /\ overlap' = overlap
          /\ UNCHANGED <<widx, wbuf, wlast, screen, said, char, put, reg>>
      BY <1>10 DEF TestFull, Done, Move, Idle
    <2>2. /\ InCall(t) /\ \A u \in UiThreads \ {t} : Idle(u)
          /\ Held(wbuf, widx) \in Seq(Chars)
      BY <2>1, GoesOnAlone, UiAssumption
    <2>3. Pending(t) = << >> /\ Unshown(t) = Held(wbuf, widx)
      BY <2>1 DEF Pending, Unshown
    <2>4. CASE Full(char[t]) \/ t = "main"
      <3>1. PICK at \in {"write", "any"} : Goto(t, at) /\ (at = "any" => t = "main")
        BY <1>10, <2>4 DEF TestFull, Done, Move
      <3>2. where'[t] = at /\ (t = "main" => where'["reader"] = where["reader"])
        BY <1>1, <1>3, <3>1 DEF Goto, UiTypes
      <3>3. Pending(t)' = << >> /\ Unshown(t)' = Held(wbuf, widx)
        BY <2>1, <3>1, <3>2 DEF Pending, Unshown
      <3>4. InCall(t)'
        BY <1>3, <2>1, <2>2, <2>3, <3>1, <3>2, <3>3 DEF InCall
      <3> QED
        BY <1>1, <2>2, <3>1, <3>4, AloneAt DEF Places
    <2>5. CASE ~Full(char[t]) /\ t = "reader"
      <3>1. Goto(t, "out") /\ where'["reader"] = "out"
        BY <1>1, <1>10, <2>5 DEF TestFull, Done, Move, Goto, UiTypes
      <3>2. screen \o Held(wbuf, widx) = Rendered(said)
        BY <2>2, <2>3, ConcatEmptySeq DEF InCall
      <3>3. widx < Size - Margin
        BY <1>1, <2>5, UiAssumption DEF Full, UiTypes, UiAssumption
      <3>4. AtRest'
        BY <2>1, <2>2, <2>5, <3>1, <3>2, <3>3 DEF InCall, AtRest
      <3> QED
        BY <1>1, <2>2, <3>1, <3>4, AloneAt DEF Places
    <2> QED
      BY <1>3, <2>4, <2>5
  <1>11. ASSUME NEW t \in UiThreads, WriteOut(t) PROVE AloneInv'
    <2>1. /\ where[t] \in {"write", "flush"} /\ ~Idle(t) /\ overlap' = overlap
          /\ UNCHANGED <<widx, wbuf, wlast, said, char, put, reg>>
          /\ screen' = screen \o Held(wbuf, widx)
      BY <1>11 DEF WriteOut, Move, Idle, Buffered, Held
    <2>2. /\ InCall(t) /\ \A u \in UiThreads \ {t} : Idle(u)
          /\ screen \in Seq(Chars) /\ Held(wbuf, widx) \in Seq(Chars) /\ Pending(t) \in Seq(Chars)
      BY <2>1, GoesOnAlone, UiAssumption
    <2>3. PICK at \in {"zero", "flushed"} :
            Goto(t, at) /\ (at = "zero" <=> where[t] = "write")
      BY <1>11 DEF WriteOut, Move
    <2>4. where'[t] = at /\ (t = "main" => where'["reader"] = where["reader"])
      BY <1>1, <1>3, <2>3 DEF Goto, UiTypes
    <2>5. /\ Unshown(t) = Held(wbuf, widx) /\ Unshown(t)' = << >>
          /\ Pending(t)' = Pending(t)
      BY <2>1, <2>3, <2>4 DEF Pending, Unshown
    <2>6. screen' \o (Unshown(t)' \o Pending(t)') = Rendered(said)
      <3>1. << >> \o Pending(t) = Pending(t)
        BY <2>2, ConcatEmptySeq
      <3>2. (screen \o Held(wbuf, widx)) \o Pending(t)
              = screen \o (Held(wbuf, widx) \o Pending(t))
        BY <2>2, ConcatAssociative
      <3> QED
        BY <2>1, <2>2, <2>5, <3>1, <3>2 DEF InCall
    <2>7. InCall(t)'
      BY <1>3, <2>1, <2>2, <2>3, <2>4, <2>6 DEF InCall
    <2> QED
      BY <1>1, <2>2, <2>3, <2>7, AloneAt DEF Places
  <1>12. ASSUME NEW t \in UiThreads, ZeroIndex(t) PROVE AloneInv'
    <2>1. /\ where[t] = "zero" /\ ~Idle(t) /\ overlap' = overlap /\ widx' = 0
          /\ UNCHANGED <<wbuf, wlast, screen, said, char, put, reg>>
          /\ Goto(t, IF t = "main" THEN "any" ELSE "out")
      BY <1>12 DEF ZeroIndex, Done, Move, Idle
    <2>2. InCall(t) /\ \A u \in UiThreads \ {t} : Idle(u)
      BY <2>1, GoesOnAlone, UiAssumption
    <2>3. screen \o (<< >> \o << >>) = Rendered(said)
      <3>1. Pending(t) = << >> /\ Unshown(t) = << >>
        BY <2>1 DEF Pending, Unshown
      <3> QED
        BY <2>2, <3>1 DEF InCall
    <2>4. CASE t = "main"
      <3>1. where'[t] = "any" /\ where'["reader"] = where["reader"]
        BY <1>1, <1>3, <2>1, <2>4 DEF Goto, UiTypes
      <3>2. Pending(t)' = << >> /\ Unshown(t)' = << >>
        BY <2>1, <2>4, <3>1 DEF Pending, Unshown, Held
      <3>3. InCall(t)'
        BY <2>1, <2>2, <2>3, <2>4, <3>1, <3>2 DEF InCall
      <3> QED
        BY <1>1, <2>1, <2>2, <2>4, <3>3, AloneAt DEF Places
    <2>5. CASE t = "reader"
      <3>1. Goto(t, "out") /\ where'["reader"] = "out"
        BY <1>1, <2>1, <2>5 DEF Goto, UiTypes
      <3>2. screen' \o Held(wbuf, widx)' = Rendered(said)'
        <4>1. Held(wbuf, widx)' = << >>
          BY <2>1 DEF Held
        <4>2. << >> \o << >> = << >>
          BY EmptySeq, ConcatEmptySeq
        <4> QED
          BY <2>1, <2>3, <4>1, <4>2
      <3>3. AtRest'
        BY <2>1, <2>2, <2>5, <3>1, <3>2, UiAssumption DEF InCall, AtRest
      <3> QED
        BY <1>1, <2>2, <3>1, <3>3, AloneAt DEF Places
    <2> QED
      BY <1>3, <2>4, <2>5
  <1>13. ASSUME NEW t \in UiThreads, TestAny(t) \/ Flushed(t) PROVE AloneInv'
    <2>1. /\ where[t] \in {"any", "flushed"} /\ ~Idle(t) /\ overlap' = overlap
          /\ UNCHANGED <<wbuf, wlast, screen, said, char, put, reg>>
      BY <1>13 DEF TestAny, Flushed, Move, Idle
    <2>2. /\ InCall(t) /\ \A u \in UiThreads \ {t} : Idle(u)
          /\ screen \in Seq(Chars) /\ Pending(t) \in Seq(Chars) /\ widx \in Nat
      BY <2>1, GoesOnAlone, UiAssumption
    <2>3. CASE TestAny(t) /\ widx > 0
      <3>1. Goto(t, "flush") /\ where[t] = "any" /\ widx' = widx
        BY <2>3 DEF TestAny, Move
      <3>2. where'[t] = "flush" /\ (t = "main" => where'["reader"] = where["reader"])
        BY <1>1, <1>3, <3>1 DEF Goto, UiTypes
      <3>3. Pending(t)' = Pending(t) /\ Unshown(t)' = Unshown(t)
        BY <2>1, <3>1, <3>2 DEF Pending, Unshown
      <3>4. InCall(t)'
        BY <1>3, <2>1, <2>2, <3>1, <3>2, <3>3 DEF InCall
      <3> QED
        BY <1>1, <2>2, <3>1, <3>4, AloneAt DEF Places
    <2>4. CASE ~(TestAny(t) /\ widx > 0)
      <3>1. Goto(t, AfterFlush(t)) /\ widx' = 0
        BY <1>13, <2>2, <2>4 DEF TestAny, Flushed, FlushedIndex, Move
      <3>2. Unshown(t) = << >>
        BY <1>13, <2>1, <2>2, <2>4 DEF TestAny, Flushed, Unshown, Held
      <3>3. screen \o Pending(t) = Rendered(said)
        BY <2>2, <3>2, ConcatEmptySeq DEF InCall
      <3>4. Held(wbuf', widx') = << >>
        BY <3>1 DEF Held
      <3>5. CASE t = "main"
        <4>1. Goto(t, "out") /\ where'["reader"] = where["reader"]
          BY <1>1, <1>3, <3>1, <3>5 DEF AfterFlush, Goto, UiTypes
        <4>2. Pending(t) = << >>
          BY <2>1, <3>5 DEF Pending
        <4>3. AtRest'
          BY <2>1, <2>2, <3>1, <3>3, <3>4, <4>1, <4>2, UiAssumption DEF AtRest, InCall
        <4> QED
          BY <1>1, <2>2, <4>1, <4>3, AloneAt DEF Places
      <3>6. CASE t = "reader"
        <4>1. Goto(t, "prompt") /\ where'[t] = "prompt"
          BY <1>1, <3>1, <3>6 DEF AfterFlush, Goto, UiTypes
        <4>2. Pending(t)' = Pending(t) /\ Unshown(t)' = << >>
          BY <2>1, <3>6, <4>1 DEF Pending, Unshown
        <4>3. << >> \o Pending(t) = Pending(t)
          BY <2>2, ConcatEmptySeq
        <4>4. InCall(t)'
          BY <2>1, <3>1, <3>3, <3>6, <4>1, <4>2, <4>3 DEF InCall
        <4> QED
          BY <1>1, <2>2, <4>1, <4>4, AloneAt DEF Places
      <3> QED
        BY <1>3, <3>5, <3>6
    <2> QED
      BY <2>3, <2>4
  <1>14. CASE LastFlush
    <2> DEFINE t == "reader"
    <2>1. /\ where[t] = "out" /\ Idle(t) /\ Begin(t, Prompt) /\ Goto(t, "any")
          /\ UNCHANGED <<widx, wbuf, wlast, screen>> /\ Prompt \in Chars
      BY <1>14 DEF LastFlush, Move, Idle, Chars
    <2>2. /\ AtRest /\ \A u \in UiThreads : Idle(u)
          /\ Rendered(said') = screen \o (Held(wbuf, widx) \o Shown(said, Prompt))
      BY <1>3, <2>1, BeginsAlone, UiAssumption
    <2>3. where'[t] = "any"
      BY <1>1, <1>3, <2>1 DEF Goto, UiTypes
    <2>4. Pending(t)' = Shown(said, Prompt) /\ Unshown(t)' = Held(wbuf, widx)
      BY <2>1, <2>3 DEF Pending, Unshown, Shown, Prompt
    <2>5. InCall(t)'
      BY <2>1, <2>2, <2>3, <2>4 DEF InCall
    <2> QED
      BY <1>1, <1>3, <2>1, <2>2, <2>5, AloneAt DEF Places
  <1>15. CASE PutUiPrompt
    <2> DEFINE t == "reader"
    <2>1. /\ where[t] = "prompt" /\ ~Idle(t) /\ overlap' = overlap /\ Goto(t, "ended")
          /\ UNCHANGED <<widx, wbuf, wlast, said>> /\ screen' = Append(screen, Prompt)
      BY <1>15 DEF PutUiPrompt, Move, Idle
    <2>2. /\ InCall(t) /\ \A u \in UiThreads \ {t} : Idle(u)
          /\ screen \in Seq(Chars) /\ Pending(t) \in Seq(Chars)
      BY <1>3, <2>1, GoesOnAlone, UiAssumption
    <2>3. where'["reader"] = "ended" /\ widx = 0
      BY <1>1, <1>3, <2>1, <2>2 DEF Goto, UiTypes, InCall
    <2>4. Pending(t) = <<Prompt>> /\ Unshown(t) = << >>
      BY <2>1 DEF Pending, Unshown
    <2>5. screen' = Rendered(said)
      <3>1. Prompt \in Chars
        BY DEF Chars
      <3>2. screen' = screen \o <<Prompt>>
        BY <2>1, <2>2, <3>1, AppendIsConcat
      <3>3. << >> \o <<Prompt>> = <<Prompt>>
        BY <2>2, <2>4, ConcatEmptySeq
      <3> QED
        BY <2>2, <2>4, <3>2, <3>3 DEF InCall
    <2>6. screen' \o Held(wbuf, widx)' = screen'
      <3>1. Held(wbuf, widx)' = << >> /\ screen' \in Seq(Chars)
        BY <1>1, <2>1, <2>3 DEF Held, UiTypes
      <3> QED
        BY <3>1, ConcatEmptySeq
    <2>7. AtRest'
      BY <2>1, <2>3, <2>5, <2>6, UiAssumption DEF AtRest
    <2> QED
      BY <1>1, <1>3, <2>1, <2>2, <2>7, AloneAt DEF Places
  <1>16. CASE UNCHANGED uiVars
    <2>1. UNCHANGED <<widx, wbuf, wlast, where, char, put, reg, todo, screen, said, overlap>>
      BY <1>16 DEF uiVars, threadVars
    <2>2. AtRest' <=> AtRest
      BY <2>1 DEF AtRest
    <2>3. ASSUME NEW t \in UiThreads PROVE (Idle(t)' <=> Idle(t)) /\ (InCall(t)' <=> InCall(t))
      BY <2>1 DEF InCall, Pending, Unshown, Idle
    <2> QED
      BY <1>1, <2>1, <2>2, <2>3 DEF AloneInv
  <1> QED
    BY <1>4, <1>5, <1>6, <1>7, <1>8, <1>9, <1>10, <1>11, <1>12, <1>13, <1>14, <1>15, <1>16
       DEF UiNext

(* What is shown and what is in the buffer are together what was           *)
(* dispatched, in order, for buffers and scripts of any length             *)
(* (ui.c:38-59).                                                           *)
THEOREM OutputIsExact == UiSpec => []ExactAlone
  <1>1. UiInit => AloneInv
    <2> SUFFICES ASSUME UiInit PROVE AloneInv
      OBVIOUS
    <2> USE DEF UiInit
    <2>1. NoChar \in Chars /\ << >> \in Seq(Chars) /\ "out" \in Places
      BY DEF Chars, Places
    <2>2. /\ todo \in [UiThreads -> Seq(Chars)]
          /\ \A i \in DOMAIN todo["main"] : todo["main"][i] # "\n"
      <3>1. PICK script \in Scripts :
              todo = [t \in UiThreads |-> IF t = "main" THEN script[1] ELSE script[2]]
        OBVIOUS
      <3>2. script[1] \in Seq(Chars) /\ script[2] \in Seq(Chars)
        <4>1. script[1] \in Seq(STRING) /\ script[2] \in Seq(STRING) /\ STRING \subseteq Chars
          BY UiAssumption DEF Chars
        <4> QED
          BY <4>1, SeqMonotonic
      <3> QED
        BY <3>1, <3>2, UiAssumption DEF UiThreads
    <2>3. UiTypes
      BY <2>1, <2>2, UiAssumption DEF UiTypes
    <2>4. AtRest
      <3>1. Held(wbuf, widx) = << >>
        BY DEF Held
      <3>2. << >> \o << >> = << >>
        BY EmptySeq, ConcatEmptySeq
      <3> QED
        BY <3>1, <3>2, RenderedNone, UiAssumption DEF AtRest, LastIn
    <2> QED
      BY <2>3, <2>4 DEF AloneInv, Idle
  <1>2. AloneInv => ExactAlone
    BY DEF AloneInv, ExactAlone, AtRest, Buffered, Held
  <1> QED
    BY <1>1, <1>2, AloneStays, PTL DEF UiSpec

-----------------------------------------------------------------------------
(* The command line: pipes.                                                *)

CommandSpec == CommandInit /\ [][CommandNext]_commandVars

(* A command is appended, or one of them changes. *)
LEMMA KidsAppend ==
  ASSUME NEW x, kids \in Seq(Range(kids)), kids' = Append(kids, x)
  PROVE  /\ kids' \in Seq(Range(kids)') /\ Len(kids') = Len(kids) + 1
         /\ DOMAIN kids' = 1 .. Len(kids) + 1 /\ DOMAIN kids = 1 .. Len(kids)
         /\ kids'[Len(kids) + 1] = x
         /\ \A k \in DOMAIN kids : kids'[k] = kids[k]
<1>1. kids \in Seq(Range(kids) \cup {x}) /\ Len(kids) \in Nat
  OBVIOUS
<1>2. kids' \in Seq(Range(kids) \cup {x})
  BY <1>1
<1>3. /\ Len(kids') = Len(kids) + 1 /\ DOMAIN kids' = 1 .. Len(kids) + 1
      /\ DOMAIN kids = 1 .. Len(kids)
      /\ kids'[Len(kids) + 1] = x /\ \A k \in DOMAIN kids : kids'[k] = kids[k]
  BY <1>1
<1>4. kids' \in Seq(Range(kids'))
  BY <1>2, SeqOfRange
<1> QED
  BY <1>3, <1>4

LEMMA KidChanges ==
  ASSUME NEW k \in DOMAIN kids, NEW x, kids \in Seq(Range(kids)),
         kids' = [kids EXCEPT ![k] = x]
  PROVE  /\ kids' \in Seq(Range(kids)') /\ Len(kids') = Len(kids)
         /\ DOMAIN kids' = DOMAIN kids /\ kids'[k] = x
         /\ \A j \in DOMAIN kids : j # k => kids'[j] = kids[j]
<1>1. DOMAIN kids = 1 .. Len(kids) /\ Len(kids) \in Nat
  OBVIOUS
<1>2. /\ DOMAIN kids' = DOMAIN kids /\ kids'[k] = x
      /\ \A j \in DOMAIN kids : j # k => kids'[j] = kids[j]
  BY <1>1
<1>3. kids \in Seq(Range(kids) \cup {x})
  OBVIOUS
<1>4. kids' \in Seq(Range(kids) \cup {x}) /\ Len(kids') = Len(kids)
  BY <1>3, <1>1
<1>5. kids' \in Seq(Range(kids'))
  BY <1>4, SeqOfRange
<1> QED
  BY <1>2, <1>4, <1>5

(* The manager alone moves. *)
LEMMA KidsKeep ==
  ASSUME PipesInOrder, UNCHANGED kids, prev' \in Nat, ManagerInOrder'
  PROVE  PipesInOrder'
<1>1. \A k \in DOMAIN kids : KidInOrder(k) <=> KidInOrder(k)'
  BY DEF KidInOrder, Ends
<1> QED
  BY <1>1 DEF PipesInOrder, Range

(* A child does nothing to what the manager holds. *)
LEMMA KidMoves ==
  ASSUME PipesInOrder, NEW k \in DOMAIN kids, NEW x, kids' = [kids EXCEPT ![k] = x],
         UNCHANGED <<phase, lineVars, first, prev, ours>>,
         x.run # "new", x.ends \subseteq {<<k - 1, "r">>, <<k, "w">>}
  PROVE  PipesInOrder'
<1>1. kids \in Seq(Range(kids)) /\ prev \in Nat
  BY DEF PipesInOrder
<1>2. /\ kids' \in Seq(Range(kids)') /\ Len(kids') = Len(kids)
      /\ DOMAIN kids' = DOMAIN kids /\ kids'[k] = x
      /\ \A j \in DOMAIN kids : j # k => kids'[j] = kids[j]
  BY <1>1, KidChanges
<1>3. HasNext' = HasNext /\ Closing' = Closing
  BY DEF HasNext, CommandEnd, Kind, Char, Closing, lineVars
<1>4. phase \notin {"read", "tokens"}
  BY DEF PipesInOrder, ManagerInOrder
<1>5. ManagerInOrder'
  BY <1>2, <1>3, <1>4 DEF PipesInOrder, ManagerInOrder, Ends
<1>6. ASSUME NEW j \in DOMAIN kids' PROVE KidInOrder(j)'
  <2>1. CASE j = k
    BY <1>2, <2>1 DEF KidInOrder
  <2>2. CASE j # k
    BY <1>2, <2>2 DEF KidInOrder, PipesInOrder, Ends
  <2> QED
    BY <2>1, <2>2
<1> QED
  BY <1>1, <1>2, <1>5, <1>6 DEF PipesInOrder

(* fork() gives the child what the manager holds: the read end of the last *)
(* pipe and both of the next.                                              *)
LEMMA ForkKeeps ==
  ASSUME PipesInOrder, NEW forked \in BOOLEAN, ForkCommand(forked),
         NEW n \in Nat, n = Len(kids)
  PROVE  PipesInOrder'
<1> DEFINE all == ours \cup (IF HasNext THEN Ends(Next1) ELSE {})
           kid == [run |-> IF forked THEN "new" ELSE "gone",
                   ends |-> IF forked THEN all ELSE {}, in |-> prev,
                   out |-> IF HasNext THEN Next1 ELSE 0,
                   argv |-> SubSeq(tokens, first, CommandEnd - 1)]
<1>1. /\ phase = "fork" /\ phase' = "close" /\ ours' = all
      /\ kids' = Append(kids, kid) /\ UNCHANGED <<lineVars, first, prev>>
  BY DEF ForkCommand
<1>2. kids \in Seq(Range(kids)) /\ n \in Nat /\ prev = n /\ Next1 = n + 1
  BY <1>1 DEF PipesInOrder, ManagerInOrder, Next1
<1>3. ours \subseteq Closing /\ Closing \subseteq {<<n, "r">>}
  BY <1>1, <1>2 DEF PipesInOrder, ManagerInOrder, Closing
<1>4. kid.run \in {"new", "gone"} /\ kid.in = n
  BY <1>2
<1>5. kid.out = (IF HasNext THEN n + 1 ELSE 0) /\ kid.ends \subseteq all
  BY <1>2
<1>6. kid.run = "gone" => kid.ends = {}
  OBVIOUS
<1> HIDE DEF kid
<1>7. /\ kids' \in Seq(Range(kids)') /\ Len(kids') = n + 1
      /\ DOMAIN kids' = 1 .. n + 1 /\ DOMAIN kids = 1 .. n
      /\ kids'[n + 1] = kid /\ \A k \in DOMAIN kids : kids'[k] = kids[k]
  BY <1>1, <1>2, KidsAppend
<1>8. HasNext' = HasNext /\ Closing' = Closing
  BY <1>1 DEF HasNext, CommandEnd, Kind, Char, Closing, lineVars
<1>9. ours' \subseteq Closing \cup (IF HasNext THEN Ends(n + 1) ELSE {})
  BY <1>1, <1>2, <1>3
<1>10. ManagerInOrder'
  BY <1>1, <1>2, <1>7, <1>8, <1>9 DEF ManagerInOrder, Ends
<1>11. KidInOrder(n + 1)'
  <2>1. kids'[n + 1] = kid /\ (n + 1) - 1 = n
    BY <1>2, <1>7
  <2>2. all \subseteq {<<n, "r">>} \cup (IF kid.out = 0 THEN {} ELSE Ends(n + 1))
    BY <1>2, <1>3, <1>5
  <2>3. kid.run = "new" => kid.ends \subseteq {<<n, "r">>} \cup (IF kid.out = 0 THEN {} ELSE Ends(n + 1))
    BY <1>5, <2>2
  <2>4. kid.out \in {0, n + 1}
    BY <1>5
  <2>5. CASE kid.run = "new"
    BY <1>4, <2>1, <2>3, <2>4, <2>5 DEF KidInOrder, Ends
  <2>6. CASE kid.run # "new"
    BY <1>4, <1>6, <2>1, <2>6 DEF KidInOrder
  <2> QED
    BY <2>5, <2>6
<1>12. ASSUME NEW k \in 1 .. n PROVE KidInOrder(k)'
  <2>1. kids'[k] = kids[k] /\ KidInOrder(k)
    BY <1>7 DEF PipesInOrder
  <2> QED
    BY <2>1 DEF KidInOrder, Ends
<1>13. \A k \in DOMAIN kids' : KidInOrder(k)'
  BY <1>2, <1>7, <1>11, <1>12
<1> QED
  BY <1>1, <1>2, <1>7, <1>10, <1>13 DEF PipesInOrder

(* Of what it held the manager keeps the read end for the next command. *)
LEMMA CloseKeeps ==
  ASSUME PipesInOrder, CloseEnds
  PROVE  PipesInOrder'
<1>1. /\ phase = "close" /\ ours' = ours \ Closed /\ UNCHANGED <<kids, lineVars>>
      /\ HasNext => phase' = "fork" /\ prev' = Len(kids)
      /\ ~HasNext => phase' = "wait" /\ UNCHANGED <<prev, first>>
  BY DEF CloseEnds
<1>2. /\ kids \in Seq(Range(kids)) /\ Len(kids) \in Nat /\ prev \in Nat
      /\ prev + 1 = Len(kids)
      /\ ours \subseteq Closing \cup (IF HasNext THEN Ends(Len(kids)) ELSE {})
  BY <1>1 DEF PipesInOrder, ManagerInOrder
<1>3. CASE HasNext
  <2>1. ours' \subseteq {<<Len(kids), "r">>}
    BY <1>1, <1>2, <1>3 DEF Closed, Ends
  <2>2. Closing' = {<<Len(kids), "r">>}
    BY <1>1, <1>2, <1>3 DEF Closing
  <2> QED
    BY <1>1, <1>2, <1>3, <2>1, <2>2, KidsKeep DEF ManagerInOrder
<1>4. CASE ~HasNext
  <2>1. ours' = {}
    BY <1>1, <1>2, <1>4 DEF Closed
  <2> QED
    BY <1>1, <1>2, <1>4, <2>1, KidsKeep DEF ManagerInOrder
<1> QED
  BY <1>3, <1>4

(* A child closes what is neither its input nor its output. *)
LEMMA StartKeeps ==
  ASSUME PipesInOrder, NEW k \in DOMAIN kids, NEW bad, ChildStarts(k, bad)
  PROVE  PipesInOrder'
<1> DEFINE kid == kids[k]
           r == Redirect(kid.argv, bad)
           in == IF "in" \in r.done THEN 0 ELSE kid.in
           out == IF "out" \in r.done THEN 0 ELSE kid.out
           x == [run |-> "run", in |-> in, out |-> out, argv |-> r.argv,
                 ends |-> Kept(k) \cup (IF in = 0 THEN {} ELSE {<<in, "r">>})
                                  \cup (IF out = 0 THEN {} ELSE {<<out, "w">>})]
<1>1. /\ kid.run = "new" /\ kids' = [kids EXCEPT ![k] = x]
      /\ UNCHANGED <<phase, lineVars, first, prev, ours>>
  BY DEF ChildStarts
<1>2. /\ kid.in = k - 1 /\ kid.out \in {0, k}
      /\ kid.ends \subseteq {<<k - 1, "r">>} \cup (IF kid.out = 0 THEN {} ELSE Ends(k))
  BY <1>1 DEF PipesInOrder, KidInOrder
<1>3. Kept(k) = {}
  BY <1>2 DEF Kept
<1>4. in \in {0, k - 1} /\ out \in {0, k}
  BY <1>2
<1>5. x.run = "run" /\ x.ends = Kept(k) \cup (IF in = 0 THEN {} ELSE {<<in, "r">>})
                                        \cup (IF out = 0 THEN {} ELSE {<<out, "w">>})
  OBVIOUS
<1> HIDE DEF in, out
<1>6. x.ends \subseteq {<<k - 1, "r">>, <<k, "w">>}
  BY <1>3, <1>4, <1>5
<1> HIDE DEF x
<1> QED
  BY <1>1, <1>5, <1>6, KidMoves

LEMMA NextPipes == PipesInOrder /\ [CommandNext]_commandVars => PipesInOrder'
<1> SUFFICES ASSUME PipesInOrder, [CommandNext]_commandVars PROVE PipesInOrder'
  OBVIOUS
<1>0. prev \in Nat /\ kids \in Seq(Range(kids)) /\ ManagerInOrder
  BY DEF PipesInOrder
<1>1. ASSUME NEW l \in Lines, EnterLine(l) PROVE PipesInOrder'
  BY <1>0, <1>1, KidsKeep DEF EnterLine, pipeVars, ManagerInOrder
<1>2. CASE SkipBlank \/ AddToken
  BY <1>0, <1>2, KidsKeep DEF SkipBlank, AddToken, pipeVars, ManagerInOrder
<1>3. CASE Tokenized
  <2>1. prev' = 0 /\ Len(kids') = 0 /\ ours' = {} /\ phase' \in {"exit", "fork"} /\ UNCHANGED kids
    BY <1>0, <1>3 DEF Tokenized, pipeVars, ManagerInOrder
  <2> QED
    BY <2>1, KidsKeep DEF ManagerInOrder
<1>4. ASSUME NEW forked \in BOOLEAN, ForkCommand(forked) PROVE PipesInOrder'
  <2>1. PICK n \in Nat : n = Len(kids)
    BY <1>0
  <2> QED
    BY <1>4, <2>1, ForkKeeps
<1>5. CASE PipeFails
  BY <1>0, <1>5, KidsKeep DEF PipeFails, ManagerInOrder
<1>6. CASE CloseEnds
  BY <1>6, CloseKeeps
<1>7. CASE WaitChild
  <2>1. CASE UNCHANGED kids
    <3>1. phase = "wait" /\ UNCHANGED <<phase, prev, ours>>
      BY <1>7 DEF WaitChild
    <3> QED
      BY <1>0, <2>1, <3>1, KidsKeep DEF ManagerInOrder
  <2>2. ASSUME NEW k \in DOMAIN kids, kids[k].run = "ended",
               kids' = [kids EXCEPT ![k].run = "gone"]
        PROVE  PipesInOrder'
    <3> DEFINE x == [kids[k] EXCEPT !.run = "gone"]
    <3>1. kids' = [kids EXCEPT ![k] = x]
      BY <2>2
    <3>2. x.ends = kids[k].ends /\ x.run # "new"
      BY <2>2
    <3>3. kids[k].ends \subseteq {<<k - 1, "r">>, <<k, "w">>}
      BY <2>2 DEF PipesInOrder, KidInOrder
    <3>4. UNCHANGED <<phase, lineVars, first, prev, ours>>
      BY <1>7 DEF WaitChild
    <3> HIDE DEF x
    <3> QED
      BY <3>1, <3>2, <3>3, <3>4, KidMoves
  <2> QED
    BY <1>7, <2>1, <2>2 DEF WaitChild
<1>8. CASE ManagerExits
  BY <1>0, <1>8, KidsKeep DEF ManagerExits, ManagerInOrder
<1>9. ASSUME NEW k \in DOMAIN kids, NEW bad, ChildStarts(k, bad) PROVE PipesInOrder'
  BY <1>9, StartKeeps
<1>10. ASSUME NEW k \in DOMAIN kids, ChildEnds(k) PROVE PipesInOrder'
  <2> DEFINE x == [kids[k] EXCEPT !.run = "ended", !.ends = {}]
  <2>1. kids' = [kids EXCEPT ![k] = x] /\ UNCHANGED <<phase, lineVars, first, prev, ours>>
    BY <1>10 DEF ChildEnds
  <2>2. x.run # "new" /\ x.ends = {}
    OBVIOUS
  <2> HIDE DEF x
  <2> QED
    BY <2>1, <2>2, KidMoves
<1>11. CASE UNCHANGED commandVars
  <2>1. UNCHANGED <<phase, kids, prev, ours, first, tokens, line>>
    BY <1>11 DEF commandVars, lineVars, pipeVars
  <2>2. HasNext' = HasNext /\ Closing' = Closing
    BY <2>1 DEF HasNext, CommandEnd, Kind, Char, Closing
  <2>3. ManagerInOrder'
    BY <1>0, <2>1, <2>2 DEF ManagerInOrder, Ends
  <2> QED
    BY <1>0, <2>1, <2>3, KidsKeep
<1> QED
  BY <1>1, <1>2, <1>3, <1>4, <1>5, <1>6, <1>7, <1>8, <1>9, <1>10, <1>11
     DEF CommandNext, Manage, Child

(* However many commands a line has, whichever cannot be forked and        *)
(* whatever is redirected, no process is left with an end of a pipe that   *)
(* is not its input or its output (pipe.c:41-74).                          *)
THEOREM EndsHold == CommandSpec => []EndsArePrivate
<1>1. CommandInit => PipesInOrder
  BY DEF CommandInit, PipesInOrder, ManagerInOrder, Range
<1>2. PipesInOrder => EndsArePrivate
  BY DEF PipesInOrder, ManagerInOrder, KidInOrder, EndsArePrivate
<1> QED
  BY <1>1, <1>2, NextPipes, PTL DEF CommandSpec

-----------------------------------------------------------------------------
(* The command line: tokens.                                               *)

(* A word has an end. *)
LEMMA WordEnds ==
  ASSUME line \in Seq(LineChars), NEW i \in 1 .. Len(line), Word(i)
  PROVE  /\ WordEnd(i) \in i + 1 .. Len(line) + 1
         /\ \A k \in i .. WordEnd(i) - 1 : Word(k)
         /\ WordEnd(i) = Len(line) + 1 \/ ~Word(WordEnd(i))
<1> DEFINE T == {j \in i + 1 .. Len(line) + 1 : j = Len(line) + 1 \/ ~Word(j)}
<1>1. Len(line) \in Nat
  OBVIOUS
<1>2. T \subseteq Nat /\ Len(line) + 1 \in T
  BY <1>1
<1>3. PICK n \in T : \A m \in T : n <= m
  BY <1>2, LeastOf
<1>4. \A k \in i .. n - 1 : Word(k)
  <2> SUFFICES ASSUME NEW k \in i .. n - 1, k # i PROVE Word(k)
    OBVIOUS
  <2>1. k \in i + 1 .. Len(line) + 1 /\ ~(n <= k)
    BY <1>1, <1>3
  <2> QED
    BY <1>3, <2>1
<1>5. /\ n \in i + 1 .. Len(line) + 1
      /\ \A k \in i .. n - 1 : Word(k)
      /\ n = Len(line) + 1 \/ ~Word(n)
  BY <1>3, <1>4
<1> QED
  BY <1>5 DEF WordEnd

(* The token that begins where the tokenizer is is a run, and the only one *)
(* to begin before its end, where the tokenizer is between runs again.     *)
LEMMA TokenHere ==
  ASSUME TokensInOrder, pos <= Len(line), ~Blank(pos),
         NEW end, end = IF Word(pos) THEN WordEnd(pos) ELSE pos + 1
  PROVE  /\ end \in pos + 1 .. Len(line) + 1
         /\ <<pos, end - pos>> \in Runs
         /\ \A r \in Runs : pos <= r[1] /\ r[1] < end => r = <<pos, end - pos>>
         /\ end = Len(line) + 1 \/ ~Word(end - 1) \/ ~Word(end)
<1>1. /\ Len(line) \in Nat /\ pos \in 1 .. Len(line) /\ line \in Seq(LineChars)
      /\ pos = 1 \/ ~Word(pos - 1) \/ ~Word(pos)
  BY DEF TokensInOrder
<1>2. \A r \in Runs : /\ r = <<r[1], r[2]>> /\ r[1] \in 1 .. Len(line) /\ r[2] \in 1 .. Len(line)
                      /\ IsRun(r[1], r[2])
  BY DEF Runs
<1>3. CASE Word(pos)
  <2>1. /\ end \in pos + 1 .. Len(line) + 1
        /\ \A k \in pos .. end - 1 : Word(k)
        /\ end = Len(line) + 1 \/ ~Word(end)
    BY <1>1, <1>3, WordEnds
  <2>2. PICK n \in 1 .. Len(line) : n = end - pos /\ pos + n - 1 = end - 1 /\ pos + n = end
    BY <1>1, <2>1
  <2>3. IsRun(pos, n)
    <3>1. pos + n - 1 <= Len(line) /\ (pos + n - 1 = Len(line) \/ ~Word(pos + n))
      <4>1. end - 1 <= Len(line) /\ (end = Len(line) + 1 => end - 1 = Len(line))
        BY <1>1, <2>1
      <4> QED
        BY <2>1, <2>2, <4>1
    <3>2. \A k \in pos .. pos + n - 1 : Word(k)
      BY <2>1, <2>2
    <3>3. pos = 1 \/ ~Word(pos - 1)
      BY <1>1, <1>3
    <3> QED
      BY <3>1, <3>2, <3>3 DEF IsRun
  <2>4. <<pos, end - pos>> \in Runs
    BY <1>1, <2>2, <2>3 DEF Runs
  <2>5. ASSUME NEW i \in 1 .. Len(line), NEW j \in 1 .. Len(line), IsRun(i, j),
               pos <= i, i < end
        PROVE  i = pos /\ j = end - pos
    <3>0. i \in pos .. end - 1
      BY <1>1, <2>1, <2>5
    <3>1. Word(i) /\ Char(i) # "|"
      <4>1. Word(i)
        BY <2>1, <3>0
      <4> QED
        BY <4>1 DEF Word
    <3>2. /\ i + j - 1 <= Len(line)
          /\ \A k \in i .. i + j - 1 : Word(k)
          /\ i = 1 \/ ~Word(i - 1)
          /\ i + j - 1 = Len(line) \/ ~Word(i + j)
      BY <3>1, <2>5 DEF IsRun
    <3>3. i = pos
      <4>1. pos < i => Word(i - 1) /\ i # 1
        BY <1>1, <2>1, <2>5
      <4> QED
        BY <1>1, <2>5, <3>2, <4>1
    <3>4. ~(i + j < end)
      <4>1. i + j < end => Word(i + j) /\ i + j - 1 # Len(line)
        BY <1>1, <2>1, <2>5, <3>3
      <4> QED
        BY <3>2, <4>1
    <3>5. ~(end < i + j)
      <4>1. end < i + j => Word(end) /\ end # Len(line) + 1
        BY <1>1, <2>1, <2>5, <3>2, <3>3
      <4> QED
        BY <2>1, <4>1
    <3> QED
      BY <1>1, <2>1, <2>5, <3>3, <3>4, <3>5
  <2> QED
    BY <1>2, <2>1, <2>4, <2>5
<1>4. CASE ~Word(pos)
  <2>0. end = pos + 1 /\ pos \in Nat
    BY <1>1, <1>4
  <2>1. /\ end = pos + 1 /\ end - pos = 1 /\ end - 1 = pos /\ Char(pos) = "|"
        /\ end \in pos + 1 .. Len(line) + 1
    <3>1. Char(pos) = "|"
      BY <1>4 DEF Word, Blank
    <3> QED
      BY <1>1, <2>0, <3>1
  <2>2. <<pos, end - pos>> \in Runs
    BY <1>1, <2>1 DEF Runs, IsRun
  <2>3. ASSUME NEW i \in 1 .. Len(line), NEW j \in 1 .. Len(line), IsRun(i, j),
               pos <= i, i < end
        PROVE  i = pos /\ j = end - pos
    <3>1. i = pos /\ i \in i .. i + j - 1
      BY <1>1, <2>1, <2>3
    <3> QED
      BY <1>4, <2>1, <2>3, <3>1 DEF IsRun
  <2>4. \A r \in Runs : pos <= r[1] /\ r[1] < end => r = <<pos, end - pos>>
    BY <1>2, <2>3
  <2>5. ~Word(end - 1)
    BY <1>4, <2>1
  <2> QED
    BY <2>1, <2>2, <2>4, <2>5
<1> QED
  BY <1>3, <1>4

LEMMA SkipTokens ==
  ASSUME TokensInOrder, SkipBlank
  PROVE  TokensInOrder'
<1>1. /\ phase = "tokens" /\ pos <= Len(line) /\ line[pos] = " " /\ pos' = pos + 1
      /\ UNCHANGED <<phase, line, tokens, cap, dropped>>
  BY DEF SkipBlank, Blank, Char
<1>2. /\ pos \in 1 .. Len(line) + 1 /\ line \in Seq(LineChars) /\ NullHasRoom
      /\ tokens \in Seq(Nat \X Nat) /\ cap \in Nat
      /\ \A i \in DOMAIN tokens : tokens[i] \in Runs /\ tokens[i][1] < pos
      /\ \A i, j \in DOMAIN tokens : i < j => tokens[i][1] < tokens[j][1]
      /\ ~dropped => \A q \in Runs : q[1] < pos => \E i \in DOMAIN tokens : tokens[i] = q
  BY DEF TokensInOrder
<1>3. /\ Len(line) \in Nat /\ pos \in 1 .. Len(line) /\ pos' \in 1 .. Len(line) + 1
      /\ pos' - 1 = pos /\ pos < pos'
  <2>1. Len(line) \in Nat
    BY <1>2
  <2>2. pos \in 1 .. Len(line) + 1 /\ pos <= Len(line) /\ pos' = pos + 1
    BY <1>1, <1>2
  <2> QED
    BY <2>1, <2>2
<1>4. Runs' = Runs /\ NullHasRoom'
  BY <1>1, <1>2 DEF Runs, IsRun, Word, Char, NullHasRoom
<1>5. (pos = 1 \/ pos = Len(line) + 1 \/ ~Word(pos - 1) \/ ~Word(pos))'
  BY <1>1, <1>3 DEF Word, Char
<1>6. \A q \in Runs : q[1] \in 1 .. Len(line) /\ q[2] \in 1 .. Len(line) /\ IsRun(q[1], q[2])
  BY DEF Runs
<1>7. ASSUME NEW q \in Runs, q[1] = pos PROVE FALSE
  <2>1. IsRun(pos, q[2]) /\ q[2] \in 1 .. Len(line)
    BY <1>6, <1>7
  <2>2. pos \in pos .. pos + q[2] - 1
    BY <1>3, <2>1
  <2>3. Char(pos) = " "
    BY <1>1 DEF Char
  <2>4. ~Word(pos)
    BY <2>3 DEF Word
  <2> QED
    BY <2>1, <2>2, <2>3, <2>4 DEF IsRun
<1>8. \A q \in Runs : q[1] < pos' => q[1] < pos
  <2> SUFFICES ASSUME NEW q \in Runs, q[1] < pos' PROVE q[1] < pos
    OBVIOUS
  <2>1. q[1] # pos /\ q[1] \in Nat
    BY <1>6, <1>7
  <2>2. pos' = pos + 1
    BY <1>1
  <2>3. pos \in 1 .. Len(line) /\ Len(line) \in Nat
    BY <1>3
  <2> QED
    BY <2>1, <2>2, <2>3
<1>9. \A i \in DOMAIN tokens : tokens[i] \in Runs /\ tokens[i][1] < pos'
  <2> SUFFICES ASSUME NEW i \in DOMAIN tokens PROVE tokens[i] \in Runs /\ tokens[i][1] < pos'
    OBVIOUS
  <2>1. tokens[i] \in Runs /\ tokens[i][1] < pos /\ tokens[i][1] \in Nat
    BY <1>2, <1>6
  <2> QED
    BY <1>3, <2>1
<1>10. ~dropped => \A q \in Runs : q[1] < pos' => \E i \in DOMAIN tokens : tokens[i] = q
  BY <1>2, <1>8
<1> QED
  BY <1>1, <1>2, <1>3, <1>4, <1>5, <1>9, <1>10 DEF TokensInOrder

LEMMA AddTokens ==
  ASSUME TokensInOrder, AddToken, NEW end, end = IF Word(pos) THEN WordEnd(pos) ELSE pos + 1
  PROVE  TokensInOrder'
<1> DEFINE r == <<pos, end - pos>>
<1>1. /\ phase = "tokens" /\ pos <= Len(line) /\ ~Blank(pos) /\ pos' = end
      /\ Add(r) /\ UNCHANGED <<phase, line>>
  BY DEF AddToken
<1>2. /\ end \in pos + 1 .. Len(line) + 1
      /\ r \in Runs
      /\ \A q \in Runs : pos <= q[1] /\ q[1] < end => q = r
      /\ end = Len(line) + 1 \/ ~Word(end - 1) \/ ~Word(end)
  BY <1>1, TokenHere
<1>3. /\ Len(line) \in Nat /\ pos \in 1 .. Len(line) /\ pos' \in 1 .. Len(line) + 1
      /\ tokens \in Seq(Nat \X Nat) /\ Len(tokens) \in Nat /\ cap \in Nat
  BY <1>1, <1>2 DEF TokensInOrder
<1>4. /\ \A i \in DOMAIN tokens : tokens[i] \in Runs /\ tokens[i][1] < pos
      /\ \A i, j \in DOMAIN tokens : i < j => tokens[i][1] < tokens[j][1]
      /\ Len(tokens) < cap
      /\ ~dropped => \A q \in Runs : q[1] < pos => \E i \in DOMAIN tokens : tokens[i] = q
  BY DEF TokensInOrder, NullHasRoom
<1>5. Runs' = Runs /\ \A q \in Runs : q \in Nat \X Nat /\ q[1] \in Nat
  <2>1. Runs' = Runs
    BY <1>1 DEF Runs, IsRun, Word, Char
  <2>2. Runs \subseteq Nat \X Nat
    BY <1>3 DEF Runs
  <2> QED
    BY <2>1, <2>2
<1>6. (pos = 1 \/ pos = Len(line) + 1 \/ ~Word(pos - 1) \/ ~Word(pos))'
  BY <1>1, <1>2 DEF Word, Char
<1>7. r[1] = pos
  OBVIOUS
<1> HIDE DEF r
<1>10. \A i \in DOMAIN tokens : tokens[i] \in Runs /\ tokens[i][1] < pos'
  <2> SUFFICES ASSUME NEW i \in DOMAIN tokens PROVE tokens[i] \in Runs /\ tokens[i][1] < pos'
    OBVIOUS
  <2>1. tokens[i] \in Runs /\ tokens[i][1] < pos /\ tokens[i][1] \in Nat
    BY <1>4, <1>5
  <2> QED
    BY <1>1, <1>2, <1>3, <2>1
<1>8. CASE tokens' = Append(tokens, r)
  <2>1. cap' = IF Grow(Len(tokens)) THEN 2 * cap ELSE cap
    <3>1. \/ tokens' = Append(tokens, r) /\ cap' = (IF Grow(Len(tokens)) THEN 2 * cap ELSE cap)
          \/ tokens' = tokens
      BY <1>1 DEF Add
    <3>2. Append(tokens, r) # tokens
      BY <1>3, <1>2, <1>5
    <3> QED
      BY <1>8, <3>1, <3>2
  <2>2. dropped' = dropped
    <3>1. (tokens' = Append(tokens, r) /\ dropped' = dropped) \/ tokens' = tokens
      BY <1>1 DEF Add
    <3>2. Append(tokens, r) # tokens
      BY <1>3, <1>2, <1>5
    <3> QED
      BY <1>8, <3>1, <3>2
  <2>3. /\ tokens' \in Seq(Nat \X Nat) /\ Len(tokens') = Len(tokens) + 1
        /\ DOMAIN tokens' = 1 .. Len(tokens) + 1 /\ DOMAIN tokens = 1 .. Len(tokens)
        /\ tokens'[Len(tokens) + 1] = r /\ \A i \in DOMAIN tokens : tokens'[i] = tokens[i]
    <3> DEFINE T == Nat \X Nat
    <3>1. r \in T /\ tokens \in Seq(T)
      BY <1>2, <1>3, <1>5
    <3> HIDE DEF T
    <3>2. tokens' \in Seq(T) /\ Len(tokens') = Len(tokens) + 1
      BY <1>8, <3>1
    <3>3. /\ DOMAIN tokens' = 1 .. Len(tokens) + 1 /\ DOMAIN tokens = 1 .. Len(tokens)
          /\ tokens'[Len(tokens) + 1] = r /\ \A i \in DOMAIN tokens : tokens'[i] = tokens[i]
      BY <1>8, <3>1
    <3> QED
      BY <3>2, <3>3 DEF T
  <2>4. cap' \in Nat /\ Len(tokens') < cap'
    BY <1>3, <1>4, <2>1, <2>3 DEF Grow
  <2>5. \A i \in DOMAIN tokens' : tokens'[i] \in Runs /\ tokens'[i][1] < pos'
    <3>1. \A i \in DOMAIN tokens : tokens'[i] \in Runs /\ tokens'[i][1] < pos'
      BY <1>10, <2>3
    <3>2. tokens'[Len(tokens) + 1] \in Runs /\ tokens'[Len(tokens) + 1][1] < pos'
      BY <1>1, <1>2, <1>3, <1>7, <2>3
    <3> QED
      BY <1>3, <2>3, <3>1, <3>2
  <2>6. ASSUME NEW i \in DOMAIN tokens', NEW j \in DOMAIN tokens', i < j
        PROVE  tokens'[i][1] < tokens'[j][1]
    <3>1. i \in DOMAIN tokens
      BY <1>3, <2>3, <2>6
    <3>2. CASE j \in DOMAIN tokens
      BY <1>4, <2>3, <2>6, <3>1, <3>2
    <3>3. CASE j = Len(tokens) + 1
      BY <1>4, <1>7, <2>3, <3>1, <3>3
    <3> QED
      BY <1>3, <2>3, <3>2, <3>3
  <2>7. ASSUME ~dropped', NEW q \in Runs, q[1] < pos'
        PROVE  \E i \in DOMAIN tokens' : tokens'[i] = q
    <3>1. CASE q[1] < pos
      BY <1>3, <1>4, <2>2, <2>3, <2>7, <3>1
    <3>2. CASE pos <= q[1]
      <4>1. q = r
        BY <1>1, <1>2, <2>7, <3>2
      <4>2. Len(tokens) + 1 \in DOMAIN tokens'
        BY <1>3, <2>3
      <4> QED
        BY <2>3, <4>1, <4>2
    <3> QED
      BY <1>3, <1>5, <2>7, <3>1, <3>2
  <2>8. phase' = "tokens" /\ line' = line /\ line \in Seq(LineChars)
    BY <1>1 DEF TokensInOrder
  <2> QED
    BY <1>3, <1>5, <1>6, <2>3, <2>4, <2>5, <2>6, <2>7, <2>8 DEF TokensInOrder, NullHasRoom
<1>9. CASE dropped' = TRUE /\ UNCHANGED <<tokens, cap>>
  <2>1. \A i \in DOMAIN tokens : tokens[i] \in Runs /\ tokens[i][1] < pos'
    BY <1>10
  <2>2. phase' = "tokens" /\ line' = line /\ line \in Seq(LineChars)
    BY <1>1 DEF TokensInOrder
  <2> QED
    BY <1>3, <1>4, <1>5, <1>6, <1>9, <2>1, <2>2 DEF TokensInOrder, NullHasRoom
<1> QED
  BY <1>1, <1>8, <1>9 DEF Add

LEMMA NextTokens == TokensInOrder /\ [CommandNext]_commandVars => TokensInOrder'
<1> SUFFICES ASSUME TokensInOrder, [CommandNext]_commandVars PROVE TokensInOrder'
  OBVIOUS
<1>0. ASSUME UNCHANGED lineVars, phase' = phase \/ (phase' \in {"fork", "close", "wait", "exit"} /\ pos = Len(line) + 1)
      PROVE  TokensInOrder'
  <2>1. UNCHANGED <<line, pos, tokens, cap, dropped>>
    BY <1>0 DEF lineVars
  <2>2. Runs' = Runs /\ NullHasRoom' = NullHasRoom
    BY <2>1 DEF Runs, IsRun, Word, Char, NullHasRoom
  <2>3. (pos = 1 \/ pos = Len(line) + 1 \/ ~Word(pos - 1) \/ ~Word(pos))'
    BY <2>1 DEF TokensInOrder, Word, Char
  <2> QED
    BY <1>0, <2>1, <2>2, <2>3 DEF TokensInOrder
<1>1. ASSUME NEW l \in Lines, EnterLine(l) PROVE TokensInOrder'
  <2>1. /\ line' \in Seq(LineChars) /\ pos' = 1 /\ tokens' = << >>
        /\ phase' = "tokens" \/ (phase' = "exit" /\ dropped')
    BY <1>1, EnteredAssumption DEF EnterLine, TokensInOrder
  <2>2. UNCHANGED <<cap, tokens>>
    BY <1>1 DEF EnterLine
  <2>3. \A q \in Runs' : ~(q[1] < 1)
    <3>1. Len(line') \in Nat
      BY <2>1
    <3> QED
      BY <3>1 DEF Runs
  <2>4. cap \in Nat /\ NullHasRoom' /\ Len(line') \in Nat /\ 1 \in 1 .. Len(line') + 1
    BY <2>1, <2>2 DEF TokensInOrder, NullHasRoom
  <2> QED
    BY <2>1, <2>2, <2>3, <2>4 DEF TokensInOrder
<1>2. CASE SkipBlank
  BY <1>2, SkipTokens
<1>3. CASE AddToken
  <2>1. PICK end : end = IF Word(pos) THEN WordEnd(pos) ELSE pos + 1
    OBVIOUS
  <2> QED
    BY <1>3, <2>1, AddTokens
<1>4. CASE Tokenized
  <2>1. phase' \in {"exit", "fork"} /\ pos = Len(line) + 1 /\ UNCHANGED lineVars
    BY <1>4 DEF Tokenized, TokensInOrder
  <2> QED
    BY <1>0, <2>1
<1>5. ASSUME NEW forked \in BOOLEAN, ForkCommand(forked) PROVE TokensInOrder'
  BY <1>0, <1>5 DEF ForkCommand, TokensInOrder
<1>6. CASE PipeFails \/ CloseEnds \/ WaitChild \/ ManagerExits
  BY <1>0, <1>6 DEF PipeFails, CloseEnds, WaitChild, ManagerExits, TokensInOrder
<1>7. ASSUME NEW k \in DOMAIN kids, Child(k) PROVE TokensInOrder'
  BY <1>0, <1>7 DEF Child, ChildStarts, ChildEnds
<1>8. CASE UNCHANGED commandVars
  BY <1>0, <1>8 DEF commandVars
<1> QED
  BY <1>1, <1>2, <1>3, <1>4, <1>5, <1>6, <1>7, <1>8 DEF CommandNext, Manage

(* It begins between two runs, ... *)
LEMMA TokensBegin == CommandInit => TokensInOrder
<1> SUFFICES ASSUME CommandInit PROVE TokensInOrder
  OBVIOUS
<1>1. line = << >> /\ pos = 1 /\ tokens = << >> /\ cap \in Nat \ {0} /\ phase = "read" /\ ~dropped
  BY CapAssumption DEF CommandInit
<1>2. Len(line) = 0 /\ Len(tokens) = 0 /\ line \in Seq(LineChars) /\ tokens \in Seq(Nat \X Nat)
  BY <1>1
<1>3. Runs = {}
  BY <1>2 DEF Runs
<1> QED
  BY <1>1, <1>2, <1>3 DEF TokensInOrder, NullHasRoom

(* ... and so the tokens are the words and bars, and the null has room. *)
LEMMA TokensRight == TokensInOrder => TokensAreRuns /\ NullHasRoom
<1> SUFFICES ASSUME TokensInOrder PROVE TokensAreRuns
  BY DEF TokensInOrder
<1>1. /\ \A i \in DOMAIN tokens : tokens[i] \in Runs
      /\ \A i, j \in DOMAIN tokens : i < j => tokens[i][1] < tokens[j][1]
  BY DEF TokensInOrder
<1>2. ASSUME phase \notin {"read", "tokens"}, ~dropped PROVE Range(tokens) = Runs
  <2>1. Len(line) \in Nat /\ pos = Len(line) + 1
    BY <1>2 DEF TokensInOrder
  <2>2. \A q \in Runs : q[1] < pos
    BY <2>1 DEF Runs
  <2>3. \A q \in Runs : \E i \in DOMAIN tokens : tokens[i] = q
    BY <1>2, <2>2 DEF TokensInOrder
  <2> QED
    BY <1>1, <2>3 DEF Range
<1> QED
  BY <1>1, <1>2 DEF TokensAreRuns

-----------------------------------------------------------------------------
(* The command line: arguments.                                            *)

(* What is left of s behind m arguments. *)
Rest(s, m) == SubSeq(s, m + 1, Len(s))

(* The first of what is left goes to what stays. *)
LEMMA OneStays ==
  ASSUME NEW X, NEW b \in Seq(X), NEW s \in Seq(X), NEW m \in Nat, m < Len(s)
  PROVE  b \o Rest(s, m) = (b \o <<s[m + 1]>>) \o Rest(s, m + 1)
  <1>0. PICK n \in Nat : n = Len(s)
    OBVIOUS
  <1>1. m + 1 \in 1 .. n /\ s[m + 1] \in X /\ m + 1 \in 1 .. Len(s) /\ n \in m + 1 .. Len(s)
    BY <1>0
  <1>2. SubSeq(s, m + 1, n) = <<s[m + 1]>> \o SubSeq(s, (m + 1) + 1, n)
    BY <1>1, SubSeqRecursiveFirst
  <1>3. PICK u \in Seq(X) : u = SubSeq(s, m + 2, n)
    <2>1. SubSeq(s, m + 2, n) \in Seq(X)
      BY <1>0
    <2> QED
      BY <2>1
  <1>4. PICK e \in Seq(X) : e = <<s[m + 1]>>
    <2>1. <<s[m + 1]>> \in Seq(X)
      BY <1>1, SeqOfOne
    <2> QED
      BY <2>1
  <1>5. SubSeq(s, m + 1, n) = e \o u
    <2>1. (m + 1) + 1 = m + 2
      OBVIOUS
    <2> QED
      BY <1>2, <1>3, <1>4, <2>1
  <1>6. (b \o e) \o u = b \o (e \o u)
    <2> DEFINE S == Seq(X)
    <2>1. Associative(S) /\ b \in S /\ e \in S /\ u \in S
      BY Associates
    <2> HIDE DEF S
    <2> QED
      BY <2>1 DEF Associative
  <1> QED
    <2>1. (m + 1) + 1 = m + 2
      OBVIOUS
    <2> QED
      BY <1>3, <1>4, <1>5, <1>6, <1>0, <2>1 DEF Rest

(* What is left, behind what stays. *)
IsBehind(w, b, s, m) ==
  /\ Len(w) = Len(b) + (Len(s) - m)
  /\ \A i \in 1 .. Len(b) + (Len(s) - m) :
       w[i] = IF i <= Len(b) THEN b[i] ELSE s[m + (i - Len(b))]

LEMMA LeftOver ==
  ASSUME NEW X, NEW b \in Seq(X), NEW s \in Seq(X), NEW k \in Nat, k = Len(b),
         NEW n \in Nat, n = Len(s), NEW m \in 0 .. n, NEW w, w = b \o Rest(s, m)
  PROVE  w \in Seq(X) /\ IsBehind(w, b, s, m)
  <1>1. /\ SubSeq(s, m + 1, n) \in Seq(X) /\ Len(SubSeq(s, m + 1, n)) = n - m
        /\ \A i \in 1 .. n - m : SubSeq(s, m + 1, n)[i] = s[m + i]
    <2>1. SubSeq(s, m + 1, n) \in Seq(X)
      OBVIOUS
    <2>2. Len(SubSeq(s, m + 1, n)) = n - m
      OBVIOUS
    <2>3. \A i \in 1 .. n - m : SubSeq(s, m + 1, n)[i] = s[m + i]
      OBVIOUS
    <2> QED
      BY <2>1, <2>2, <2>3
  <1>2. PICK t \in Seq(X) : /\ t = SubSeq(s, m + 1, n) /\ Len(t) = n - m
                            /\ \A i \in 1 .. n - m : t[i] = s[m + i]
    BY <1>1
  <1>3. /\ w = b \o t /\ w \in Seq(X) /\ Len(w) = k + (n - m)
        /\ \A i \in 1 .. k + (n - m) : w[i] = IF i <= k THEN b[i] ELSE t[i - k]
    <2>1. /\ b \o t \in Seq(X) /\ Len(b \o t) = Len(b) + Len(t)
          /\ \A i \in 1 .. Len(b) + Len(t) :
               (b \o t)[i] = IF i <= Len(b) THEN b[i] ELSE t[i - Len(b)]
      BY ConcatProperties
    <2> QED
      BY <1>2, <2>1 DEF Rest
  <1>4. ASSUME NEW i \in 1 .. k + (n - m), ~(i <= k) PROVE t[i - k] = s[m + (i - k)]
    <2>1. i - k \in 1 .. n - m
      BY <1>4
    <2> QED
      BY <1>2, <2>1
  <1> QED
    BY <1>3, <1>4 DEF IsBehind

(* Without the first two of them. *)
LEMMA TwoGo ==
  ASSUME NEW X, NEW b \in Seq(X), NEW s \in Seq(X), NEW m \in Nat, m + 1 < Len(s),
         NEW w \in Seq(X), IsBehind(w, b, s, m)
  PROVE  Without(w, Len(b) + 1) = b \o Rest(s, m + 2)
  <1>0. PICK k \in Nat, n \in Nat : k = Len(b) /\ n = Len(s)
    OBVIOUS
  <1>1. /\ Len(w) = k + (n - m)
        /\ \A i \in 1 .. k + (n - m) : w[i] = IF i <= k THEN b[i] ELSE s[m + (i - k)]
    BY <1>0 DEF IsBehind
  <1>2. SubSeq(w, 1, k) = b
    <2>1. /\ SubSeq(w, 1, k) \in Seq(X) /\ Len(SubSeq(w, 1, k)) = k
          /\ \A i \in 1 .. k : SubSeq(w, 1, k)[i] = w[i]
      BY <1>0, <1>1
    <2>2. \A i \in 1 .. k : w[i] = b[i]
      BY <1>0, <1>1
    <2> QED
      BY <1>0, <2>1, <2>2, SeqEqual
  <1>3. PICK q \in Nat : q = n - m - 2
    <2>1. n - m - 2 \in Nat
      BY <1>0
    <2> QED
      BY <2>1
  <1>4. PICK i \in Nat : i = k + 2
    OBVIOUS
  <1>5. PICK j \in Nat : j = m + 2
    OBVIOUS
  <1>6. ASSUME NEW p \in 1 .. q PROVE w[i + p] = s[j + p] /\ w[i + p] \in X
    <2>1. i + p \in 1 .. k + (n - m) /\ ~(i + p <= k) /\ j + p \in 1 .. n
      BY <1>0, <1>3, <1>4, <1>5
    <2>2. m + ((i + p) - k) = j + p
      BY <1>4, <1>5
    <2>3. w[i + p] = IF i + p <= k THEN b[i + p] ELSE s[m + ((i + p) - k)]
      BY <1>1, <2>1
    <2>4. w[i + p] = s[m + ((i + p) - k)]
      BY <2>1, <2>3
    <2>5. w[i + p] = s[j + p]
      BY <2>2, <2>4
    <2>6. s[j + p] \in X
      BY <1>0, <2>1
    <2> QED
      BY <2>5, <2>6
  <1>7. Stretch(w, i, q) = Stretch(s, j, q)
    <2>1. SameFrom(w, i, s, j, q, X)
      BY <1>6 DEF SameFrom
    <2>2. i \in Nat /\ j \in Nat /\ q \in Nat
      OBVIOUS
    <2> QED
      BY <2>1, <2>2, SameStretch
  <1>8. /\ i + 1 = k + 3 /\ i + q = k + (n - m) /\ j + 1 = m + 3 /\ j + q = n
    BY <1>0, <1>3, <1>4, <1>5
  <1>10. (m + 2) + 1 = m + 3
    OBVIOUS
  <1>9. (k + 1) - 1 = k /\ (k + 1) + 2 = k + 3 /\ Len(w) = k + (n - m)
    BY <1>1
  <1> QED
    BY <1>0, <1>2, <1>7, <1>8, <1>9, <1>10 DEF Without, Stretch, Rest

RoleNames == {"left", "operator", "name"}

(* Each argument has one role, which the one before it and its own kind    *)
(* determine.                                                              *)
RolesOf(s, role) ==
  /\ role \in [0 .. Len(s) -> RoleNames]
  /\ role[0] = "left"
  /\ \A j \in 1 .. Len(s) :
       role[j] = IF role[j - 1] = "operator" THEN "name"
                 ELSE IF j < Len(s) /\ Operator(s[j]) THEN "operator" ELSE "left"

LEMMA RolesAre ==
  ASSUME NEW s, Len(s) \in Nat
  PROVE  RolesOf(s, Roles(s))
  <1>0. PICK N \in Nat : N = Len(s)
    OBVIOUS
  <1> DEFINE S == RoleNames
             After(r, j) == IF r = "operator" THEN "name"
                            ELSE IF j < N /\ Operator(s[j]) THEN "operator" ELSE "left"
             step == [p \in S \X Nat |-> After(p[1], p[2])]
             Defines(h) == h = [j \in 0 .. N |-> IF j = 0 THEN "left" ELSE After(h[j - 1], j)]
             h == CHOOSE x : Defines(x)
  <1>1. step \in [S \X Nat -> S] /\ "left" \in S
    BY DEF RoleNames
  <1>2. ASSUME NEW r \in S, NEW i \in 1 .. N PROVE step[<<r, i>>] = After(r, i)
    BY <1>2
  <1> HIDE DEF step
  <1>3. PICK f : Chain(f, S, N, "left", step)
    BY <1>1, Iterates
  <1>4. ASSUME NEW i \in 1 .. N PROVE f[i] = After(f[i - 1], i)
    <2>1. i - 1 \in 0 .. N
      OBVIOUS
    <2>2. f[i - 1] \in S
      BY <1>3, <2>1 DEF Chain
    <2> QED
      BY <1>2, <1>3, <2>2 DEF Chain
  <1>5. f \in [0 .. N -> S] /\ f[0] = "left"
    BY <1>3 DEF Chain
  <1> HIDE DEF S
  <1>6. Defines(f)
    <2> HIDE DEF After
    <2>1. \A i \in 0 .. N : i # 0 => i \in 1 .. N
      OBVIOUS
    <2> QED
      BY <1>4, <1>5, <2>1
  <1>7. Defines(h)
    <2> HIDE DEF Defines
    <2> QED
      BY <1>6
  <1>8. Roles(s) = h
    BY <1>0 DEF Roles
  <1> HIDE DEF h
  <1>9. /\ h = [j \in 0 .. N |-> h[j]] /\ DOMAIN h = 0 .. N
        /\ h[0] = "left" /\ \A j \in 1 .. N : h[j] = After(h[j - 1], j)
    <2> HIDE DEF After
    <2>1. \A j \in 1 .. N : j \in 0 .. N /\ j # 0
      OBVIOUS
    <2> QED
      BY <1>7, <2>1
  <1>10. \A j \in 0 .. N : h[j] \in S
    <2>1. \A j \in 1 .. N : h[j] \in S
      BY <1>9 DEF S, RoleNames
    <2>2. \A j \in 0 .. N : j = 0 \/ j \in 1 .. N
      OBVIOUS
    <2> QED
      BY <1>1, <1>9, <2>1, <2>2
  <1> QED
    BY <1>0, <1>8, <1>9, <1>10 DEF RolesOf, S

KindNames == {"in", "out", "pipe", "arg"}

LEMMA KindIs ==
  \A t : Kind(t) \in KindNames
  BY DEF Kind, KindNames

Loops(X) == [argv : Seq(X), i : Nat \ {0}, done : SUBSET KindNames]

LEMMA PassKeeps ==
  ASSUME NEW X, NEW c \in Loops(X), NEW bad
  PROVE  Pass(c, bad) \in Loops(X)
  <1>1. c.argv \in Seq(X) /\ c.i \in Nat \ {0} /\ c.done \in SUBSET KindNames
    BY DEF Loops
  <1>2. PICK L \in Nat : L = Len(c.argv)
    BY <1>1
  <1>3. CASE c.i > L
    <2>1. ~(c.i < L)
      BY <1>1, <1>3
    <2>2. Pass(c, bad) = c
      BY <1>2, <1>3, <2>1 DEF Pass
    <2> QED
      BY <2>2
  <1>4. CASE c.i < L /\ Operator(c.argv[c.i])
    <2>1. Without(c.argv, c.i) \in Seq(X)
      <3>1. SubSeq(c.argv, 1, c.i - 1) \in Seq(X) /\ SubSeq(c.argv, c.i + 2, L) \in Seq(X)
        BY <1>1, <1>2, <1>4
      <3> QED
        BY <1>2, <3>1 DEF Without
    <2>2. (c.done \cup IF c.argv[c.i + 1] \in bad THEN {} ELSE {Kind(c.argv[c.i])}) \in SUBSET KindNames
      BY <1>1, KindIs
    <2>3. ~(c.i > L)
      BY <1>1, <1>4
    <2>4. Pass(c, bad) =
            [argv |-> Without(c.argv, c.i), i |-> c.i,
             done |-> c.done \cup IF c.argv[c.i + 1] \in bad THEN {} ELSE {Kind(c.argv[c.i])}]
      BY <1>2, <1>4, <2>3 DEF Pass
    <2> HIDE DEF Pass
    <2> QED
      BY <1>1, <2>1, <2>2, <2>4 DEF Loops
  <1>5. CASE ~(c.i > L) /\ ~(c.i < L /\ Operator(c.argv[c.i]))
    <2>1. Pass(c, bad) = [c EXCEPT !.i = c.i + 1]
      BY <1>2, <1>5 DEF Pass
    <2>2. c.i + 1 \in Nat \ {0}
      BY <1>1
    <2> QED
      BY <2>1, <2>2 DEF Loops
  <1> QED
    BY <1>3, <1>4, <1>5

(* The arguments left when the first m have been looked at. *)
Stays(s, role) == [j \in 1 .. Len(s) |-> IF role[j] = "left" THEN <<s[j]>> ELSE << >>]
LookedAt(s, role, n, c) ==
  \E m \in 0 .. Len(s) :
    /\ role[m] # "operator" /\ (n <= m \/ m = Len(s))
    /\ c.i = Len(JoinOf(Stays(s, role), m)) + 1
    /\ c.argv = JoinOf(Stays(s, role), m) \o Rest(s, m)

LEMMA PassGoes ==
  ASSUME NEW X, NEW s \in Seq(X), NEW role, RolesOf(s, role), NEW n \in Nat,
         NEW c \in Loops(X), LookedAt(s, role, n, c), NEW bad
  PROVE  LookedAt(s, role, n + 1, Pass(c, bad))
  <1>1. PICK N \in Nat : N = Len(s)
    OBVIOUS
  <1>2. s \in Seq(X) /\ \A j \in 1 .. N : s[j] \in X
    BY <1>1
  <1>3. PICK piece \in [1 .. N -> Seq(X)] :
          /\ piece = Stays(s, role)
          /\ \A j \in 1 .. N : piece[j] = IF role[j] = "left" THEN <<s[j]>> ELSE << >>
    <2>1. \A j \in 1 .. N : <<s[j]>> \in Seq(X) /\ << >> \in Seq(X)
      BY <1>2, SeqOfOne, EmptySeq
    <2>2. \A j \in 1 .. N : (IF role[j] = "left" THEN <<s[j]>> ELSE << >>) \in Seq(X)
      BY <2>1
    <2>3. /\ Stays(s, role) \in [1 .. N -> Seq(X)]
          /\ \A j \in 1 .. N : Stays(s, role)[j] = IF role[j] = "left" THEN <<s[j]>> ELSE << >>
      BY <1>1, <2>2 DEF Stays
    <2> QED
      BY <2>3
  <1>4. PICK m \in 0 .. N :
          /\ role[m] # "operator" /\ (n <= m \/ m = N)
          /\ c.i = Len(JoinOf(piece, m)) + 1
          /\ c.argv = JoinOf(piece, m) \o Rest(s, m)
    BY <1>1, <1>3 DEF LookedAt
  <1>5. PICK b \in Seq(X) :
          /\ b = JoinOf(piece, m)
          /\ \A k \in 0 .. N : k < N => JoinOf(piece, k + 1) = JoinOf(piece, k) \o piece[k + 1]
    <2>1. \A k \in 0 .. N : k < N => JoinOf(piece, k + 1) = JoinOf(piece, k) \o piece[k + 1]
      BY JoinGrows
    <2>2. JoinOf(piece, m) \in Seq(X)
      BY JoinGrows
    <2> QED
      BY <2>1, <2>2
  <1>6. PICK k \in Nat : k = Len(b)
    OBVIOUS
  <1>7. PICK w \in Seq(X) :
          /\ w = c.argv /\ Len(w) = k + (N - m)
          /\ \A i \in 1 .. k + (N - m) : w[i] = IF i <= k THEN b[i] ELSE s[m + (i - k)]
    <2>1. c.argv = b \o Rest(s, m)
      BY <1>4, <1>5
    <2>2. c.argv \in Seq(X) /\ IsBehind(c.argv, b, s, m)
      BY <1>1, <1>2, <1>6, <2>1, LeftOver
    <2> QED
      BY <1>1, <1>6, <2>2 DEF IsBehind
  <1>8. c.i = k + 1
    BY <1>4, <1>5, <1>6
  <1>9. CASE m = N
    <2>1. ~(c.i < Len(w)) /\ c.i > Len(w)
      BY <1>7, <1>8, <1>9
    <2>2. Pass(c, bad) = c
      BY <1>7, <2>1 DEF Pass
    <2> QED
      BY <1>1, <1>3, <1>4, <1>9, <2>2 DEF LookedAt
  <1>10. ASSUME m < N
         PROVE  /\ c.argv[c.i] = s[m + 1] /\ ~(c.i > Len(c.argv))
                /\ c.i < Len(c.argv) <=> m + 1 < N
                /\ m + 1 \in 1 .. N /\ (m + 1) - 1 = m /\ m + 1 \in 0 .. N
    <2>1. k + 1 \in 1 .. k + (N - m) /\ ~(k + 1 <= k) /\ m + ((k + 1) - k) = m + 1
      BY <1>10
    <2>2. w[k + 1] = s[m + 1]
      BY <1>7, <2>1
    <2> QED
      BY <1>7, <1>8, <1>10, <2>1, <2>2
  <1>11. CASE m + 1 < N /\ Operator(s[m + 1])
    <2>1. role[m + 1] = "operator" /\ role[m + 2] = "name"
      <3>1. m + 2 \in 1 .. N /\ (m + 2) - 1 = m + 1
        BY <1>11
      <3>2. m + 1 \in 1 .. N /\ (m + 1) - 1 = m /\ m + 1 < N
        BY <1>11
      <3>3. role[m + 1] = "operator"
        BY <1>1, <1>4, <1>11, <3>2 DEF RolesOf
      <3> QED
        BY <1>1, <3>1, <3>3 DEF RolesOf
    <2>2. JoinOf(piece, m + 2) = b
      <3>1. m + 1 \in 0 .. N /\ m + 1 < N /\ (m + 1) + 1 = m + 2 /\ m + 2 \in 1 .. N
        BY <1>11
      <3>2. piece[m + 1] = << >> /\ piece[m + 2] = << >>
        <4>1. piece[m + 1] = IF role[m + 1] = "left" THEN <<s[m + 1]>> ELSE << >>
          <5>1. m + 1 \in 1 .. N
            BY <1>11
          <5> QED
            BY <1>3, <5>1
        <4>2. piece[m + 2] = IF role[m + 2] = "left" THEN <<s[m + 2]>> ELSE << >>
          BY <1>3, <3>1
        <4> QED
          BY <2>1, <4>1, <4>2
      <3>3. JoinOf(piece, m + 1) = b \o << >>
        <4>1. m < N
          BY <1>11
        <4> QED
          BY <1>5, <3>2, <4>1
      <3>4. JoinOf(piece, m + 2) = JoinOf(piece, m + 1) \o << >>
        BY <1>5, <3>1, <3>2
      <3> QED
        BY <3>3, <3>4, ConcatEmptySeq
    <2>3. Without(w, k + 1) = b \o Rest(s, m + 2)
      <3>1. IsBehind(w, b, s, m)
        BY <1>1, <1>6, <1>7 DEF IsBehind
      <3>2. b \in Seq(X) /\ s \in Seq(X) /\ m \in Nat /\ m + 1 < Len(s) /\ w \in Seq(X)
        BY <1>1, <1>2, <1>11
      <3>3. Without(w, Len(b) + 1) = b \o Rest(s, m + 2)
        BY <3>1, <3>2, TwoGo
      <3> QED
        BY <1>6, <3>3
    <2>4. Pass(c, bad).argv = Without(w, k + 1) /\ Pass(c, bad).i = k + 1
      <3>1. ~(c.i > Len(c.argv)) /\ c.i < Len(c.argv) /\ Operator(c.argv[c.i])
        BY <1>10, <1>11
      <3> QED
        BY <1>7, <1>8, <3>1 DEF Pass
    <2>5. m + 2 \in 0 .. N /\ (n + 1 <= m + 2 \/ m + 2 = N)
      BY <1>4, <1>11
    <2> QED
      BY <1>1, <1>3, <1>6, <2>1, <2>2, <2>3, <2>4, <2>5 DEF LookedAt
  <1>12. CASE m < N /\ ~(m + 1 < N /\ Operator(s[m + 1]))
    <2>1. role[m + 1] = "left"
      BY <1>1, <1>4, <1>10, <1>12 DEF RolesOf
    <2>2. JoinOf(piece, m + 1) = b \o <<s[m + 1]>>
      BY <1>3, <1>5, <1>10, <1>12, <2>1
    <2>3. w = (b \o <<s[m + 1]>>) \o Rest(s, m + 1)
      <3>1. b \o Rest(s, m) = (b \o <<s[m + 1]>>) \o Rest(s, m + 1)
        <4>1. b \in Seq(X) /\ s \in Seq(X) /\ m \in Nat /\ m < Len(s)
          BY <1>1, <1>2, <1>12
        <4> QED
          BY <4>1, OneStays
      <3> QED
        BY <1>4, <1>5, <1>7, <3>1
    <2>4. Pass(c, bad) = [c EXCEPT !.i = c.i + 1]
      <3>1. ~(c.i > Len(c.argv)) /\ ~(c.i < Len(c.argv) /\ Operator(c.argv[c.i]))
        BY <1>10, <1>12
      <3> QED
        BY <3>1 DEF Pass
    <2>5. Pass(c, bad).argv = w /\ Pass(c, bad).i = (k + 1) + 1
      BY <1>7, <1>8, <2>4 DEF Loops
    <2>6. Len(b \o <<s[m + 1]>>) = k + 1
      <3>1. <<s[m + 1]>> \in Seq(X) /\ Len(<<s[m + 1]>>) = 1
        BY <1>2, <1>10, <1>12, SeqOfOne
      <3> QED
        BY <1>6, <3>1, ConcatProperties
    <2>7. n + 1 <= m + 1 \/ m + 1 = N
      BY <1>4, <1>12
    <2> QED
      BY <1>1, <1>3, <1>10, <1>12, <2>1, <2>2, <2>3, <2>5, <2>6, <2>7 DEF LookedAt
  <1> QED
    BY <1>9, <1>11, <1>12

LEMMA BeginsLoop ==
  ASSUME NEW X, NEW s \in Seq(X), NEW role, RolesOf(s, role),
         NEW c, c = [argv |-> s, i |-> 1, done |-> {}]
  PROVE  c \in Loops(X) /\ LookedAt(s, role, 0, c)
  <1>1. JoinOf(Stays(s, role), 0) = << >>
    <2>1. [j \in 1 .. 0 |-> Stays(s, role)[j]] = << >>
      <3> HIDE DEF Stays
      <3> QED
        OBVIOUS
    <2> QED
      BY <2>1, FlattenNone DEF JoinOf
  <1>2. << >> \o Rest(s, 0) = s
    <2>1. 0 + 1 = 1
      OBVIOUS
    <2>2. Rest(s, 0) = s
      BY <2>1, SubSeqFull DEF Rest
    <2> QED
      BY <2>2, ConcatEmptySeq
  <1>3. /\ 0 \in 0 .. Len(s) /\ role[0] # "operator" /\ 0 <= 0
        /\ Len(<< >>) + 1 = 1
    BY DEF RolesOf
  <1>4. c.argv = s /\ c.i = 1
    OBVIOUS
  <1>5. c \in Loops(X)
    BY DEF Loops
  <1> QED
    BY <1>1, <1>2, <1>3, <1>4, <1>5 DEF LookedAt

(* What redirection leaves of a command's arguments is what its line says. *)
LEMMA RedirectIs ==
  ASSUME NEW X, NEW s \in Seq(X), NEW bad
  PROVE  Redirect(s, bad).argv = Arguments(s)
  <1>0. PICK N \in Nat : N = Len(s)
    OBVIOUS
  <1>1. PICK role : role = Roles(s) /\ RolesOf(s, role)
    BY <1>0, RolesAre
  <1>2. PICK a : /\ a = [argv |-> s, i |-> 1, done |-> {}]
                 /\ a \in Loops(X) /\ LookedAt(s, role, 0, a)
    BY <1>1, BeginsLoop
  <1> DEFINE S == Loops(X)
             step == [p \in S \X Nat |-> Pass(p[1], bad)]
             Defines(g) == g = [n \in 0 .. N |-> IF n = 0 THEN a ELSE Pass(g[n - 1], bad)]
             h == CHOOSE g : Defines(g)
  <1>3. \A c \in S : Pass(c, bad) \in S
    BY PassKeeps
  <1>4. step \in [S \X Nat -> S] /\ a \in S
    BY <1>2, <1>3
  <1>5. \A c \in S, i \in 1 .. N : step[<<c, i>>] = Pass(c, bad)
    OBVIOUS
  <1> HIDE DEF step, S
  <1>6. PICK f : Chain(f, S, N, a, step)
    BY <1>4, Iterates
  <1>7. f \in [0 .. N -> S] /\ f[0] = a
    BY <1>6 DEF Chain
  <1>8. \A i \in 1 .. N : f[i] = Pass(f[i - 1], bad)
    <2> SUFFICES ASSUME NEW i \in 1 .. N PROVE f[i] = Pass(f[i - 1], bad)
      OBVIOUS
    <2>1. i - 1 \in 0 .. N
      OBVIOUS
    <2>2. f[i - 1] \in S
      BY <1>7, <2>1
    <2> QED
      BY <1>5, <1>6, <2>2 DEF Chain
  <1>9. Defines(f)
    <2>1. \A i \in 0 .. N : i # 0 => i \in 1 .. N
      OBVIOUS
    <2> QED
      BY <1>7, <1>8, <2>1
  <1>10. Defines(h)
    <2> HIDE DEF Defines
    <2> QED
      BY <1>9
  <1>11. Redirect(s, bad) = h[N]
    BY <1>0, <1>2 DEF Redirect
  <1> HIDE DEF h
  <1>12. h[0] = a /\ \A i \in 1 .. N : h[i] = Pass(h[i - 1], bad)
    <2>1. 0 \in 0 .. N /\ \A j \in 1 .. N : j \in 0 .. N /\ j # 0
      OBVIOUS
    <2> QED
      BY <1>10, <2>1
  <1> DEFINE Good(n) == h[n] \in Loops(X) /\ LookedAt(s, role, n, h[n])
             T == {n \in Nat : n <= N => Good(n)}
  <1>13. 0 \in T
    BY <1>2, <1>12
  <1>14. ASSUME NEW n \in Nat, n \in T PROVE n + 1 \in T
    <2> SUFFICES ASSUME n + 1 <= N PROVE Good(n + 1)
      OBVIOUS
    <2>1. Good(n)
      BY <1>14
    <2>2. n + 1 \in 1 .. N /\ (n + 1) - 1 = n
      OBVIOUS
    <2>3. h[n + 1] = Pass(h[n], bad)
      BY <1>12, <2>2
    <2>4. Pass(h[n], bad) \in Loops(X) /\ LookedAt(s, role, n + 1, Pass(h[n], bad))
      BY <1>1, <2>1, PassKeeps, PassGoes
    <2> QED
      BY <2>3, <2>4
  <1>15. N \in T
    <2> HIDE DEF T
    <2> QED
      BY <1>13, <1>14, AllOf
  <1>16. Good(N)
    BY <1>15
  <1>17. PICK m \in 0 .. N : /\ N <= m \/ m = N
                             /\ h[N].argv = JoinOf(Stays(s, role), m) \o Rest(s, m)
    BY <1>0, <1>16 DEF LookedAt
  <1>18. m = N /\ Rest(s, N) = << >>
    BY <1>0, <1>17, SubSeqEmpty DEF Rest
  <1>19. JoinOf(Stays(s, role), N) \o << >> = JoinOf(Stays(s, role), N)
    <2>1. Stays(s, role) \in [1 .. N -> Seq(X)]
      <3>1. \A j \in 1 .. N : <<s[j]>> \in Seq(X) /\ << >> \in Seq(X)
        BY <1>0, SeqOfOne, EmptySeq
      <3>2. \A j \in 1 .. N : (IF role[j] = "left" THEN <<s[j]>> ELSE << >>) \in Seq(X)
        BY <3>1
      <3> QED
        BY <1>0, <3>2 DEF Stays
    <2>2. JoinOf(Stays(s, role), N) \in Seq(X)
      BY <2>1, JoinGrows
    <2> QED
      BY <2>2, ConcatEmptySeq
  <1>20. Arguments(s) = JoinOf(Stays(s, role), N)
    <2>1. DOMAIN s = 1 .. N
      BY <1>0
    <2>2. [j \in 1 .. N |-> Stays(s, role)[j]] =
            [j \in 1 .. N |-> IF role[j] = "left" THEN <<s[j]>> ELSE << >>]
      BY <1>0 DEF Stays
    <2> QED
      BY <1>1, <2>1, <2>2 DEF Arguments, JoinOf
  <1> QED
    BY <1>11, <1>17, <1>18, <1>19, <1>20

(* The bars.                                                               *)
BarAt(j, k) == j \in Bars /\ BarsTo(j) = k

LEMMA FirstBar ==
  ASSUME tokens \in Seq(Nat \X Nat)
  PROVE  BarAt(0, 1)
  <1>1. PICK n \in Nat : n = Len(tokens)
    OBVIOUS
  <1>2. DOMAIN tokens = 1 .. n
    BY <1>1
  <1>3. {b \in Bars : b <= 0} = {0}
    BY <1>1, <1>2 DEF Bars
  <1>4. 0 \in Bars
    BY DEF Bars
  <1> QED
    BY <1>3, <1>4, FS_Singleton DEF BarAt, BarsTo

(* The end of a command is the next bar. *)
LEMMA NextBar ==
  ASSUME tokens \in Seq(Nat \X Nat), first \in 1 .. Len(tokens) + 1,
         NEW k \in Nat, BarAt(first - 1, k)
  PROVE  /\ BarAt(CommandEnd, k + 1)
         /\ CommandEnd \in first .. Len(tokens) + 1
  <1>1. PICK n \in Nat : n = Len(tokens)
    OBVIOUS
  <1>2. DOMAIN tokens = 1 .. n /\ first \in 1 .. n + 1
    BY <1>1
  <1> DEFINE T == {j \in first .. n + 1 : j = n + 1 \/ Kind(tokens[j]) = "pipe"}
  <1>3. PICK e \in T : \A m \in T : e <= m
    <2>1. T \subseteq Nat /\ n + 1 \in T
      BY <1>2
    <2> HIDE DEF T
    <2> QED
      BY <2>1, LeastOf
  <1>4. \A i \in first .. e - 1 : Kind(tokens[i]) # "pipe"
    <2> SUFFICES ASSUME NEW i \in first .. e - 1, Kind(tokens[i]) = "pipe" PROVE FALSE
      OBVIOUS
    <2>1. i \in T /\ ~(e <= i)
      BY <1>2, <1>3
    <2> QED
      BY <1>3, <2>1
  <1> DEFINE EndsAt(j) == /\ \A i \in first .. j - 1 : Kind(tokens[i]) # "pipe"
                          /\ j = n + 1 \/ Kind(tokens[j]) = "pipe"
  <1>5. e \in first .. n + 1 /\ EndsAt(e)
    BY <1>3, <1>4
  <1>6. CommandEnd = CHOOSE j \in first .. n + 1 : EndsAt(j)
    BY <1>1 DEF CommandEnd
  <1>7. PICK end : end = CommandEnd /\ end \in first .. n + 1 /\ EndsAt(end)
    <2> HIDE DEF EndsAt
    <2> QED
      BY <1>5, <1>6
  <1>8. end \in Bars
    BY <1>1, <1>2, <1>7 DEF Bars
  <1> DEFINE Before == {b \in Bars : b <= first - 1}
  <1>9. {b \in Bars : b <= end} = Before \cup {end}
    <2>1. ASSUME NEW b \in Bars, b <= end, ~(b <= first - 1) PROVE b = end
      <3>1. b \in first .. end
        BY <1>1, <1>2, <1>7, <2>1 DEF Bars
      <3>2. ASSUME b # end PROVE FALSE
        <4>1. b \in first .. end - 1 /\ b \in DOMAIN tokens
          BY <1>2, <1>7, <3>1, <3>2
        <4>2. Kind(tokens[b]) # "pipe"
          BY <1>7, <4>1
        <4>3. b # 0 /\ b # n + 1
          <5>1. first \in 1 .. n + 1 /\ end \in first .. n + 1 /\ b \in first .. end - 1
            BY <1>2, <1>7, <4>1
          <5> HIDE DEF EndsAt, Before
          <5> QED
            BY <5>1
        <4> QED
          BY <1>1, <4>2, <4>3 DEF Bars
      <3> QED
        BY <3>2
    <2>2. ASSUME NEW b \in Before PROVE b <= end
      <3>1. b \in 0 .. n + 1
        BY <1>1, <1>2 DEF Bars
      <3> QED
        BY <1>2, <1>7, <3>1
    <2>3. end <= end
      BY <1>2, <1>7
    <2> QED
      BY <1>8, <2>1, <2>2, <2>3
  <1>10. ~(end \in Before)
    BY <1>2, <1>7
  <1>11. IsFiniteSet(Before)
    <2>1. Before \subseteq 0 .. n + 1
      <3>1. \A b \in Bars : b \in 0 .. n + 1
        BY <1>1, <1>2 DEF Bars
      <3> QED
        BY <3>1
    <2>2. 0 \in Int /\ n + 1 \in Int
      OBVIOUS
    <2>3. IsFiniteSet(0 .. n + 1)
      BY <2>2, FS_Interval
    <2> HIDE DEF Before
    <2> QED
      BY <2>1, <2>3, FS_Subset
  <1>12. Cardinality(Before) = k
    BY DEF BarAt, BarsTo
  <1>13. Cardinality(Before \cup {end}) = k + 1
    <2> HIDE DEF Before
    <2> QED
      BY <1>10, <1>11, <1>12, FS_AddElement
  <1>14. BarsTo(end) = k + 1
    BY <1>9, <1>13 DEF BarsTo
  <1> QED
    BY <1>1, <1>7, <1>8, <1>14 DEF BarAt

(* What is between two bars is a sequence of tokens. *)
Between(a, b) == SubSeq(tokens, a + 1, b - 1)

LEMMA BetweenBars ==
  ASSUME tokens \in Seq(Nat \X Nat), NEW a \in Bars, NEW b \in Bars
  PROVE  Between(a, b) \in Seq(Nat \X Nat)
  <1>1. PICK n \in Nat : n = Len(tokens)
    OBVIOUS
  <1>2. DOMAIN tokens = 1 .. n
    BY <1>1
  <1>3. a \in 0 .. n + 1 /\ b \in 0 .. n + 1
    BY <1>1, <1>2 DEF Bars
  <1>4. \A i \in a + 1 .. b - 1 : tokens[i] \in Nat \X Nat
    BY <1>1, <1>3
  <1>5. a + 1 \in Int /\ b - 1 \in Int
    BY <1>3
  <1> QED
    BY <1>4, <1>5, SubSeqProperties DEF Between

(* What the k-th command has been given: what is between two bars, until   *)
(* it has looked for redirections.                                         *)
KidSays(k) ==
  kids[k].run # "gone" =>
    \E a, b \in Bars :
      /\ BarsTo(a) = k /\ BarsTo(b) = k + 1
      /\ kids[k].argv = IF kids[k].run = "new" THEN Between(a, b) ELSE Arguments(Between(a, b))

(* And the manager has handled as many commands as there are bars up to    *)
(* where the next begins.                                                  *)
ManagerSays ==
  /\ phase \in {"read", "tokens"} => first = 1
  /\ phase \in {"fork", "close"} =>
       /\ first \in 1 .. Len(tokens) + 1
       /\ BarAt(first - 1, IF phase = "fork" THEN Len(kids) + 1 ELSE Len(kids))

LineInv ==
  /\ TokensInOrder /\ PipesInOrder
  /\ ManagerSays
  /\ \A k \in DOMAIN kids : KidSays(k)

(* While the line and its tokens stay, so does what they say. *)
LEMMA LineStays ==
  ASSUME UNCHANGED <<line, tokens>>
  PROVE  /\ Bars' = Bars /\ \A j : BarsTo(j)' = BarsTo(j)
         /\ \A a, b : Between(a, b)' = Between(a, b)
         /\ \A s : Arguments(s)' = Arguments(s)
  <1>1. \A t : Kind(t)' = Kind(t)
    BY DEF Kind, Char
  <1>2. Bars' = Bars
    BY <1>1 DEF Bars
  <1>3. \A j : BarsTo(j)' = BarsTo(j)
    BY <1>2 DEF BarsTo
  <1>4. \A a, b : Between(a, b)' = Between(a, b)
    BY DEF Between
  <1>5. ASSUME NEW s PROVE Roles(s)' = Roles(s)
    BY DEF Roles, Operator, Kind, Char
  <1>6. ASSUME NEW s PROVE Arguments(s)' = Arguments(s)
    BY <1>5 DEF Arguments
  <1> QED
    BY <1>2, <1>3, <1>4, <1>6

(* A command that stays as it is still has what it had. *)
LEMMA KidStays ==
  ASSUME UNCHANGED <<line, tokens>>, NEW k, kids'[k] = kids[k], KidSays(k)
  PROVE  KidSays(k)'
  BY LineStays DEF KidSays

(* Nobody but the manager moves it. *)
LEMMA ManagerStays ==
  ASSUME ManagerSays, UNCHANGED <<line, tokens, phase, first>>, Len(kids') = Len(kids)
  PROVE  ManagerSays'
  BY LineStays DEF ManagerSays, BarAt

(* A command changes. *)
LEMMA KidGoesOn ==
  ASSUME LineInv, TokensInOrder', PipesInOrder', NEW k \in DOMAIN kids, NEW x,
         kids' = [kids EXCEPT ![k] = x], UNCHANGED <<line, tokens>>,
         UNCHANGED <<phase, first>>,
         KidSays(k)'
  PROVE  LineInv'
  <1>1. /\ Len(kids') = Len(kids) /\ DOMAIN kids' = DOMAIN kids
        /\ \A j \in DOMAIN kids : j # k => kids'[j] = kids[j]
    BY KidChanges DEF LineInv, PipesInOrder
  <1>2. ManagerSays'
    BY <1>1, ManagerStays DEF LineInv
  <1>3. ASSUME NEW j \in DOMAIN kids' PROVE KidSays(j)'
    BY <1>1, <1>3, KidStays DEF LineInv
  <1> QED
    BY <1>2, <1>3 DEF LineInv

LEMMA ForkSays ==
  ASSUME LineInv, TokensInOrder', PipesInOrder', NEW forked \in BOOLEAN, ForkCommand(forked)
  PROVE  LineInv'
  <1> DEFINE kid == [run |-> IF forked THEN "new" ELSE "gone",
                     ends |-> IF forked THEN ours \cup (IF HasNext THEN Ends(Next1) ELSE {}) ELSE {},
                     in |-> prev, out |-> IF HasNext THEN Next1 ELSE 0,
                     argv |-> SubSeq(tokens, first, CommandEnd - 1)]
  <1>1. /\ phase = "fork" /\ phase' = "close" /\ kids' = Append(kids, kid)
        /\ UNCHANGED <<line, tokens, first>>
    BY DEF ForkCommand, lineVars
  <1>2. kid.run \in {"new", "gone"} /\ kid.argv = SubSeq(tokens, first, CommandEnd - 1)
    OBVIOUS
  <1> HIDE DEF kid
  <1>3. PICK n \in Nat : n = Len(kids)
    BY DEF LineInv, PipesInOrder
  <1>4. /\ DOMAIN kids' = 1 .. n + 1 /\ DOMAIN kids = 1 .. n /\ Len(kids') = n + 1
        /\ kids'[n + 1] = kid /\ \A k \in DOMAIN kids : kids'[k] = kids[k]
    BY <1>1, <1>3, KidsAppend DEF LineInv, PipesInOrder
  <1>5. first \in 1 .. Len(tokens) + 1 /\ BarAt(first - 1, n + 1) /\ tokens \in Seq(Nat \X Nat)
    BY <1>1, <1>3 DEF LineInv, ManagerSays, TokensInOrder
  <1>6. n + 1 \in Nat
    OBVIOUS
  <1>7. BarAt(CommandEnd, (n + 1) + 1)
    BY <1>5, <1>6, NextBar
  <1>8. ManagerSays'
    BY <1>1, <1>4, <1>5, LineStays DEF ManagerSays, BarAt
  <1>9. KidSays(n + 1)'
    <2>1. (first - 1) + 1 = first
      BY <1>5
    <2>2. kid.argv = Between(first - 1, CommandEnd)
      BY <1>2, <2>1 DEF Between
    <2>3. PICK a \in Bars, b \in Bars :
            BarsTo(a) = n + 1 /\ BarsTo(b) = (n + 1) + 1 /\ kid.argv = Between(a, b)
      BY <1>5, <1>7, <2>2 DEF BarAt
    <2> QED
      BY <1>1, <1>2, <1>4, <2>3, LineStays DEF KidSays
  <1>10. ASSUME NEW k \in 1 .. n PROVE KidSays(k)'
    BY <1>1, <1>4, KidStays DEF LineInv
  <1>11. \A k \in 1 .. n + 1 : KidSays(k)'
    BY <1>9, <1>10
  <1> QED
    BY <1>4, <1>8, <1>11 DEF LineInv

LEMMA CloseSays ==
  ASSUME LineInv, TokensInOrder', PipesInOrder', CloseEnds
  PROVE  LineInv'
  <1>1. phase = "close" /\ UNCHANGED <<line, tokens, kids>>
    BY DEF CloseEnds, lineVars
  <1>2. PICK n \in Nat : n = Len(kids)
    BY DEF LineInv, PipesInOrder
  <1>3. first \in 1 .. Len(tokens) + 1 /\ BarAt(first - 1, n) /\ tokens \in Seq(Nat \X Nat)
    BY <1>1, <1>2 DEF LineInv, ManagerSays, TokensInOrder
  <1>4. BarAt(CommandEnd, n + 1) /\ CommandEnd \in first .. Len(tokens) + 1
    BY <1>2, <1>3, NextBar
  <1>5. \A k \in DOMAIN kids' : KidSays(k)'
    BY <1>1, KidStays DEF LineInv
  <1>6. CASE HasNext
    <2>1. phase' = "fork" /\ first' = CommandEnd + 1
      BY <1>6 DEF CloseEnds
    <2>2. PICK end : end = CommandEnd /\ end \in Nat /\ end <= Len(tokens)
      BY <1>3, <1>4, <1>6 DEF HasNext
    <2>3. first' \in 1 .. Len(tokens) + 1 /\ first' - 1 = end
      BY <1>3, <2>1, <2>2
    <2>4. ManagerSays'
      BY <1>1, <1>2, <1>4, <2>1, <2>2, <2>3, LineStays DEF ManagerSays, BarAt
    <2> QED
      BY <1>5, <2>4 DEF LineInv
  <1>7. CASE ~HasNext
    BY <1>5, <1>7 DEF LineInv, CloseEnds, ManagerSays
  <1> QED
    BY <1>6, <1>7

LEMMA StartSays ==
  ASSUME LineInv, TokensInOrder', PipesInOrder', NEW k \in DOMAIN kids, NEW bad,
         ChildStarts(k, bad)
  PROVE  LineInv'
  <1> DEFINE r == Redirect(kids[k].argv, bad)
             in == IF "in" \in r.done THEN 0 ELSE kids[k].in
             out == IF "out" \in r.done THEN 0 ELSE kids[k].out
             x == [run |-> "run", in |-> in, out |-> out, argv |-> r.argv,
                   ends |-> Kept(k) \cup (IF in = 0 THEN {} ELSE {<<in, "r">>})
                                    \cup (IF out = 0 THEN {} ELSE {<<out, "w">>})]
  <1>1. /\ kids' = [kids EXCEPT ![k] = x]
        /\ x.run = "run" /\ x.argv = Redirect(kids[k].argv, bad).argv
    <2>1. kids' = [kids EXCEPT ![k] = x]
      BY DEF ChildStarts
    <2> QED
      BY <2>1
  <1> HIDE DEF x
  <1>2. kids[k].run = "new" /\ UNCHANGED <<line, tokens, phase, first>>
    BY DEF ChildStarts, lineVars
  <1>3. kids'[k] = x
    BY <1>1, KidChanges DEF LineInv, PipesInOrder
  <1>4. PICK a \in Bars, b \in Bars :
          BarsTo(a) = k /\ BarsTo(b) = k + 1 /\ kids[k].argv = Between(a, b)
    BY <1>2 DEF LineInv, KidSays
  <1>5. PICK s : s = kids[k].argv /\ s \in Seq(Nat \X Nat)
    BY <1>4, BetweenBars DEF LineInv, TokensInOrder
  <1>6. x.argv = Arguments(s)
    BY <1>1, <1>5, RedirectIs
  <1>7. KidSays(k)'
    BY <1>1, <1>2, <1>3, <1>4, <1>5, <1>6, LineStays DEF KidSays
  <1> QED
    BY <1>1, <1>2, <1>7, KidGoesOn DEF LineInv

LEMMA NextLine ==
  ASSUME LineInv, [CommandNext]_commandVars
  PROVE  LineInv'
  <1>0. TokensInOrder' /\ PipesInOrder'
    BY NextTokens, NextPipes DEF LineInv
  <1>1. ASSUME NEW l \in Lines, EnterLine(l) PROVE LineInv'
    <2>1. kids' = << >> /\ phase' \in {"tokens", "exit"} /\ first' = 1
      BY <1>1 DEF EnterLine, pipeVars, LineInv, ManagerSays, PipesInOrder, ManagerInOrder
    <2> QED
      BY <1>0, <2>1 DEF LineInv, ManagerSays
  <1>2. CASE SkipBlank \/ AddToken
    <2>1. kids' = << >> /\ phase' = "tokens" /\ first' = 1
      BY <1>2 DEF SkipBlank, AddToken, pipeVars, LineInv, ManagerSays, PipesInOrder, ManagerInOrder
    <2> QED
      BY <1>0, <2>1 DEF LineInv, ManagerSays
  <1>3. CASE Tokenized
    <2>1. /\ kids' = << >> /\ phase' \in {"exit", "fork"} /\ first' = 1
          /\ UNCHANGED <<line, tokens>>
      BY <1>3 DEF Tokenized, lineVars, pipeVars, LineInv, ManagerSays, PipesInOrder, ManagerInOrder
    <2>2. tokens \in Seq(Nat \X Nat)
      BY DEF LineInv, TokensInOrder
    <2>3. BarAt(0, 1)'
      BY <2>1, <2>2, FirstBar, LineStays DEF BarAt
    <2>4. 1 \in 1 .. Len(tokens') + 1 /\ Len(kids') + 1 = 1 /\ 1 - 1 = 0
      BY <2>1, <2>2
    <2>5. ManagerSays'
      BY <2>1, <2>3, <2>4 DEF ManagerSays
    <2> QED
      BY <1>0, <2>1, <2>5 DEF LineInv
  <1>4. ASSUME NEW forked \in BOOLEAN, ForkCommand(forked) PROVE LineInv'
    BY <1>0, <1>4, ForkSays
  <1>5. CASE CloseEnds
    BY <1>0, <1>5, CloseSays
  <1>6. CASE PipeFails \/ ManagerExits
    <2>1. phase' = "exit" /\ UNCHANGED <<line, tokens, kids>>
      BY <1>6 DEF PipeFails, ManagerExits, lineVars
    <2>2. \A k \in DOMAIN kids' : KidSays(k)'
      BY <2>1, KidStays DEF LineInv
    <2> QED
      BY <1>0, <2>1, <2>2 DEF LineInv, ManagerSays
  <1>7. CASE WaitChild
    <2>1. phase = "wait" /\ UNCHANGED <<line, tokens, phase, first>>
      BY <1>7 DEF WaitChild, lineVars
    <2>2. CASE UNCHANGED kids
      <3>1. \A k \in DOMAIN kids' : KidSays(k)'
        BY <2>1, <2>2, KidStays DEF LineInv
      <3> QED
        BY <1>0, <2>1, <3>1 DEF LineInv, ManagerSays
    <2>3. ASSUME NEW k \in DOMAIN kids, kids[k].run = "ended",
                 kids' = [kids EXCEPT ![k].run = "gone"]
          PROVE  LineInv'
      <3> DEFINE x == [kids[k] EXCEPT !.run = "gone"]
      <3>1. kids' = [kids EXCEPT ![k] = x]
        BY <2>3
      <3>2. x.run = "gone"
        BY <2>3
      <3> HIDE DEF x
      <3>3. kids'[k] = x
        BY <3>1, KidChanges DEF LineInv, PipesInOrder
      <3>4. KidSays(k)'
        BY <3>2, <3>3 DEF KidSays
      <3> QED
        BY <1>0, <2>1, <3>1, <3>4, KidGoesOn DEF LineInv
    <2> QED
      BY <1>7, <2>2, <2>3 DEF WaitChild
  <1>8. ASSUME NEW k \in DOMAIN kids, NEW bad, ChildStarts(k, bad) PROVE LineInv'
    BY <1>0, <1>8, StartSays
  <1>9. ASSUME NEW k \in DOMAIN kids, ChildEnds(k) PROVE LineInv'
    <2> DEFINE x == [kids[k] EXCEPT !.run = "ended", !.ends = {}]
    <2>1. kids' = [kids EXCEPT ![k] = x] /\ UNCHANGED <<phase, line, tokens, first>>
      BY <1>9 DEF ChildEnds, lineVars
    <2>2. x.run = "ended" /\ x.argv = kids[k].argv /\ kids[k].run = "run"
      BY <1>9 DEF ChildEnds, MayEnd
    <2> HIDE DEF x
    <2>3. kids'[k] = x
      BY <2>1, KidChanges DEF LineInv, PipesInOrder
    <2>4. KidSays(k)'
      BY <2>1, <2>2, <2>3, LineStays DEF LineInv, KidSays
    <2> QED
      BY <1>0, <2>1, <2>4, KidGoesOn DEF LineInv
  <1>10. CASE UNCHANGED commandVars
    <2>1. UNCHANGED <<phase, line, tokens, first, kids>>
      BY <1>10 DEF commandVars, lineVars, pipeVars
    <2>2. \A k \in DOMAIN kids' : KidSays(k)'
      BY <2>1, KidStays DEF LineInv
    <2> QED
      BY <1>0, <2>1, <2>2, ManagerStays DEF LineInv
  <1> QED
    BY <1>1, <1>2, <1>3, <1>4, <1>5, <1>6, <1>7, <1>8, <1>9, <1>10
       DEF CommandNext, Manage, Child

(* Whatever is entered, the tokens are its words and bars, in order, none  *)
(* lost while there is memory, and the null has room (tokenizer.c:22,      *)
(* 65-97); and each program gets, in order, the arguments between its bars *)
(* that are no redirection (pipe.c:20-58, redirect.c:20-58): for lines of  *)
(* any length, with any number of commands and of redirections, whatever   *)
(* cannot be forked or opened.                                             *)
THEOREM LineHolds == CommandSpec => []LineIsUnderstood
<1>1. CommandInit => LineInv
  <2> SUFFICES ASSUME CommandInit PROVE LineInv
    OBVIOUS
  <2>1. TokensInOrder
    BY TokensBegin
  <2>2. phase = "read" /\ kids = << >> /\ first = 1
    BY DEF CommandInit
  <2>3. PipesInOrder
    BY DEF CommandInit, PipesInOrder, ManagerInOrder, Range
  <2> QED
    BY <2>1, <2>2, <2>3 DEF LineInv, ManagerSays
<1>2. LineInv => LineIsUnderstood
  <2> SUFFICES ASSUME LineInv PROVE ArgumentsAreRight
    BY TokensRight DEF LineInv, LineIsUnderstood
  <2> QED
    BY DEF LineInv, KidSays, ArgumentsAreRight, Between
<1> QED
  BY <1>1, <1>2, NextLine, PTL DEF CommandSpec

-----------------------------------------------------------------------------
(* Heredoc.                                                                *)

HeredocSpec == HeredocInit /\ [][HeredocNext]_heredocVars

(* The characters of the lines, and Pad. *)
Cells == Nat \X Nat

AlignedBefore(n) == \A i \in 1 .. n : Len(lines[i]) % Align = 0

(* What is stored is, but for what fills the lines up, the lines.  It is   *)
(* their text, and what fills the last up, if those before it are aligned; *)
(* or else a Pad is where a character of the text should be.  And its      *)
(* length is that of the text and of all that fills lines up.              *)
StoredInv ==
  /\ blocks \in Seq(Seq(Cells))
  /\ lines \in Seq(Seq(Cells))
  /\ total = Len(FlattenSeq(lines))
  /\ \A i \in DOMAIN FlattenSeq(lines) : FlattenSeq(lines)[i] # Pad
  /\ Unpadded(FlattenSeq(blocks)) = FlattenSeq(lines)
  /\ Filling \in Seq(Cells) /\ Len(FlattenSeq(blocks)) = total + Len(Filling)
  /\ IF AlignedBefore(Len(lines) - 1)
     THEN FlattenSeq(blocks) = FlattenSeq(lines) \o
            (IF lines = << >> THEN << >> ELSE Padding(Len(lines[Len(lines)])))
     ELSE \E p \in 1 .. total : FlattenSeq(blocks)[p] = Pad

HereInv ==
  /\ StoredInv
  /\ hd \in {"start", "read", "done", "null", "stuck", "crash", "overrun"}
  /\ hd = "start" => lines = << >> /\ total = 0
  /\ hd \in {"done", "overrun"} => flat = FlattenSeq(blocks)
  /\ hd = "done" => Len(flat) <= total + 1 /\ result = SubSeq(flat, 1, total)
  /\ hd = "overrun" => ~(Len(flat) <= total + 1)

(* Three sequences of cells. *)
LEMMA Regroup ==
  \A a, b, c \in Seq(Cells) : (a \o b) \o c = a \o (b \o c)
  BY ConcatAssociative

(* One more cell, ... *)
LEMMA UnpaddedAppend ==
  ASSUME NEW s \in Seq(Cells), NEW c \in Cells
  PROVE  /\ Unpadded(s) \in Seq(Cells)
         /\ Unpadded(Append(s, c)) = Unpadded(s) \o (IF c = Pad THEN << >> ELSE <<c>>)
  <1> DEFINE Piece(x) == IF x = Pad THEN << >> ELSE <<x>>
             Pieces(r) == [i \in 1 .. Len(r) |-> Piece(r[i])]
  <1>0. PICK N \in Nat : N = Len(s)
    OBVIOUS
  <1>1. PICK sc \in Seq(Cells) :
          /\ sc = Append(s, c) /\ Len(sc) = N + 1 /\ sc[N + 1] = c
          /\ \A i \in 1 .. N : sc[i] = s[i]
    <2>1. /\ Append(s, c) \in Seq(Cells) /\ Len(Append(s, c)) = N + 1
          /\ Append(s, c)[N + 1] = c
          /\ \A i \in 1 .. N : Append(s, c)[i] = s[i]
      BY <1>0, AppendIs
    <2> QED
      BY <2>1
  <1>2. ASSUME NEW x \in Cells PROVE Piece(x) \in Seq(Cells)
    BY SeqOfOne, EmptySeq
  <1>3. ASSUME NEW r \in Seq(Cells) PROVE Unpadded(r) = FlattenSeq(Pieces(r))
    <2>1. DOMAIN r = 1 .. Len(r)
      OBVIOUS
    <2> QED
      BY <2>1 DEF Unpadded
  <1> HIDE DEF Piece
  <1>4. ASSUME NEW r \in Seq(Cells)
        PROVE  Pieces(r) \in Seq(Seq(Cells)) /\ Len(Pieces(r)) = Len(r)
    <2>1. ASSUME NEW i \in 1 .. Len(r) PROVE Piece(r[i]) \in Seq(Cells)
      BY <1>2
    <2> QED
      BY <2>1
  <1>5. Pieces(sc) = Append(Pieces(s), Piece(c))
    <2>1. PICK a \in Seq(Seq(Cells)) :
            /\ a = Append(Pieces(s), Piece(c)) /\ Len(a) = N + 1 /\ a[N + 1] = Piece(c)
            /\ \A i \in 1 .. N : a[i] = Pieces(s)[i]
      <3>1. Pieces(s) \in Seq(Seq(Cells)) /\ Len(Pieces(s)) = N /\ Piece(c) \in Seq(Cells)
        BY <1>0, <1>2, <1>4
      <3> HIDE DEF Pieces
      <3>2. /\ Append(Pieces(s), Piece(c)) \in Seq(Seq(Cells))
            /\ Len(Append(Pieces(s), Piece(c))) = N + 1
            /\ Append(Pieces(s), Piece(c))[N + 1] = Piece(c)
            /\ \A i \in 1 .. N : Append(Pieces(s), Piece(c))[i] = Pieces(s)[i]
        BY <3>1, AppendIs
      <3> QED
        BY <3>2
    <2>2. Pieces(sc) \in Seq(Seq(Cells)) /\ Len(Pieces(sc)) = N + 1
      BY <1>1, <1>4
    <2>3. ASSUME NEW i \in 1 .. N + 1 PROVE a[i] = Pieces(sc)[i]
      <3>1. Pieces(sc)[i] = Piece(sc[i])
        BY <1>1
      <3>2. CASE i = N + 1
        BY <1>1, <2>1, <3>1, <3>2
      <3>3. CASE i # N + 1
        <4>1. i \in 1 .. N
          BY <3>3
        <4>2. Pieces(s)[i] = Piece(s[i])
          BY <1>0, <4>1
        <4> QED
          BY <1>1, <2>1, <3>1, <4>1, <4>2
      <3> QED
        BY <3>2, <3>3
    <2> HIDE DEF Pieces
    <2>4. a = Pieces(sc)
      BY <2>1, <2>2, <2>3, SeqEqual
    <2> QED
      BY <2>1, <2>4
  <1>6. /\ Pieces(s) \in Seq(Seq(Cells)) /\ Piece(c) \in Seq(Cells)
        /\ Unpadded(s) = FlattenSeq(Pieces(s)) /\ Unpadded(sc) = FlattenSeq(Pieces(sc))
    BY <1>2, <1>3, <1>4
  <1>7. /\ FlattenSeq(Pieces(s)) \in Seq(Cells)
        /\ FlattenSeq(Append(Pieces(s), Piece(c))) = FlattenSeq(Pieces(s)) \o Piece(c)
    <2> HIDE DEF Pieces
    <2> QED
      BY <1>6, FlattenAppend
  <1> HIDE DEF Pieces
  <1> QED
    BY <1>1, <1>5, <1>6, <1>7 DEF Piece

(* ... none, ... *)
LEMMA UnpaddedNone == Unpadded(<< >>) = << >>
  <1>1. [i \in DOMAIN << >> |-> IF << >>[i] = Pad THEN << >> ELSE << << >>[i] >>] = << >>
    OBVIOUS
  <1> QED
    BY <1>1, FlattenNone DEF Unpadded

(* A sequence that is not empty is what comes before its last member and   *)
(* that member.                                                            *)
LEMMA BeforeLast ==
  ASSUME NEW X, NEW t \in Seq(X), NEW n \in Nat, Len(t) = n + 1
  PROVE  \E u \in Seq(X), e \in X :
           /\ t = Append(u, e) /\ Len(u) = n /\ t[n + 1] = e
           /\ \A i \in 1 .. n : t[i] = u[i]
  <1>1. PICK u \in Seq(X), e \in X : t = Append(u, e)
    BY SequenceEmptyOrAppend
  <1>2. PICK m \in Nat : m = Len(u)
    OBVIOUS
  <1>3. Len(t) = m + 1 /\ t[m + 1] = e /\ \A i \in 1 .. m : t[i] = u[i]
    BY <1>1, <1>2, AppendIs
  <1>4. m = n
    BY <1>3
  <1> QED
    BY <1>1, <1>2, <1>3, <1>4

(* What is appended to the second is appended to both. *)
LEMMA JoinAppend ==
  ASSUME NEW s \in Seq(Cells), NEW v \in Seq(Cells), NEW e \in Cells
  PROVE  s \o Append(v, e) = Append(s \o v, e)
  <1>1. PICK d \in Seq(Cells) : d = <<e>>
    BY SeqOfOne
  <1>2. (s \o v) \o d = s \o (v \o d)
    BY ConcatAssociative
  <1>3. s \o v \in Seq(Cells)
    OBVIOUS
  <1>4. Append(s \o v, e) = (s \o v) \o <<e>> /\ Append(v, e) = v \o <<e>>
    BY <1>3, AppendIsConcat
  <1> QED
    BY <1>1, <1>2, <1>4

(* ... some more, ... *)
LEMMA UnpaddedJoin ==
  ASSUME NEW s \in Seq(Cells), NEW t \in Seq(Cells)
  PROVE  Unpadded(s \o t) = Unpadded(s) \o Unpadded(t)
  <1> DEFINE Adds(u) == Unpadded(s \o u) = Unpadded(s) \o Unpadded(u)
             T == {n \in Nat : \A u \in Seq(Cells) : Len(u) = n => Adds(u)}
  <1>1. Unpadded(s) \in Seq(Cells)
    <2>1. <<0, 0>> \in Cells
      BY DEF Cells
    <2> QED
      BY <2>1, UnpaddedAppend
  <1>2. 0 \in T
    <2> SUFFICES ASSUME NEW u \in Seq(Cells), Len(u) = 0 PROVE Adds(u)
      OBVIOUS
    <2>1. u = << >>
      OBVIOUS
    <2>2. s \o u = s /\ Unpadded(s) \o << >> = Unpadded(s)
      BY <1>1, <2>1, ConcatEmptySeq
    <2> QED
      BY <2>1, <2>2, UnpaddedNone
  <1>3. ASSUME NEW n \in Nat, n \in T PROVE n + 1 \in T
    <2> SUFFICES ASSUME NEW u \in Seq(Cells), Len(u) = n + 1 PROVE Adds(u)
      OBVIOUS
    <2>1. PICK v \in Seq(Cells), e \in Cells :
            /\ u = Append(v, e) /\ Len(v) = n /\ u[n + 1] = e
            /\ \A i \in 1 .. n : u[i] = v[i]
      BY BeforeLast
    <2>2. Adds(v)
      BY <1>3, <2>1
    <2>6. PICK P \in Seq(Cells) : P = IF e = Pad THEN << >> ELSE <<e>>
      BY SeqOfOne, EmptySeq
    <2>3. Unpadded(v) \in Seq(Cells) /\ Unpadded(u) = Unpadded(v) \o P
      BY <2>1, <2>6, UnpaddedAppend
    <2>4. s \o u = Append(s \o v, e)
      BY <2>1, JoinAppend
    <2>5. Unpadded(s \o u) = Unpadded(s \o v) \o P
      <3>1. s \o v \in Seq(Cells)
        OBVIOUS
      <3> QED
        BY <2>4, <2>6, <3>1, UnpaddedAppend
    <2>7. (Unpadded(s) \o Unpadded(v)) \o P = Unpadded(s) \o (Unpadded(v) \o P)
      <3>1. P \in Seq(Cells)
        BY <2>6
      <3> QED
        BY <1>1, <2>3, <3>1, Regroup, ZenonT(40)
    <2> QED
      BY <2>2, <2>3, <2>5, <2>7
  <1>4. Nat \subseteq T
    <2> HIDE DEF T
    <2> QED
      BY <1>2, <1>3, AllOf
  <1> HIDE DEF Adds
  <1>5. Adds(t)
    BY <1>4
  <1> QED
    BY <1>5 DEF Adds

(* ... the text of a line, and what fills it up. *)
LEMMA UnpaddedText ==
  ASSUME NEW t \in Seq(Cells)
  PROVE  /\ (\A i \in 1 .. Len(t) : t[i] # Pad) => Unpadded(t) = t
         /\ (\A i \in 1 .. Len(t) : t[i] = Pad) => Unpadded(t) = << >>
  <1> DEFINE Text(u) == /\ (\A i \in 1 .. Len(u) : u[i] # Pad) => Unpadded(u) = u
                        /\ (\A i \in 1 .. Len(u) : u[i] = Pad) => Unpadded(u) = << >>
             T == {n \in Nat : \A u \in Seq(Cells) : Len(u) = n => Text(u)}
  <1>1. 0 \in T
    <2> SUFFICES ASSUME NEW u \in Seq(Cells), Len(u) = 0 PROVE Text(u)
      OBVIOUS
    <2>1. u = << >>
      OBVIOUS
    <2> QED
      BY <2>1, UnpaddedNone
  <1>2. ASSUME NEW n \in Nat, n \in T PROVE n + 1 \in T
    <2> SUFFICES ASSUME NEW u \in Seq(Cells), Len(u) = n + 1 PROVE Text(u)
      OBVIOUS
    <2>1. PICK v \in Seq(Cells), e \in Cells :
            /\ u = Append(v, e) /\ Len(v) = n /\ u[n + 1] = e
            /\ \A i \in 1 .. n : u[i] = v[i]
      BY BeforeLast
    <2>2. Text(v)
      BY <1>2, <2>1
    <2>3. Unpadded(u) = Unpadded(v) \o (IF e = Pad THEN << >> ELSE <<e>>)
      BY <2>1, UnpaddedAppend
    <2>4. n + 1 \in 1 .. n + 1 /\ \A i \in 1 .. n : i \in 1 .. n + 1
      OBVIOUS
    <2>5. ASSUME \A i \in 1 .. Len(u) : u[i] # Pad PROVE Unpadded(u) = u
      <3>1. e # Pad /\ \A i \in 1 .. n : v[i] # Pad
        BY <2>1, <2>4, <2>5
      <3>2. Unpadded(v) = v
        BY <2>1, <2>2, <3>1
      <3> QED
        BY <2>1, <2>3, <3>1, <3>2, AppendIsConcat
    <2>6. ASSUME \A i \in 1 .. Len(u) : u[i] = Pad PROVE Unpadded(u) = << >>
      <3>1. e = Pad /\ \A i \in 1 .. n : v[i] = Pad
        BY <2>1, <2>4, <2>6
      <3>2. Unpadded(v) = << >>
        BY <2>1, <2>2, <3>1
      <3>3. << >> \o << >> = << >>
        BY EmptySeq, ConcatEmptySeq
      <3> QED
        BY <2>3, <3>1, <3>2, <3>3
    <2> QED
      BY <2>5, <2>6
  <1>3. Nat \subseteq T
    <2> HIDE DEF T
    <2> QED
      BY <1>1, <1>2, AllOf
  <1> HIDE DEF Text
  <1>4. Text(t)
    BY <1>3
  <1> QED
    BY <1>4 DEF Text

(* What fills up a line: something, if it is not aligned.                  *)
LEMMA PaddingIs ==
  ASSUME NEW len \in Nat
  PROVE  /\ Padding(len) \in Seq(Cells) /\ \A i \in DOMAIN Padding(len) : Padding(len)[i] = Pad
         /\ len % Align = 0 => Padding(len) = << >>
         /\ len % Align # 0 => Len(Padding(len)) >= 1 /\ Padding(len)[1] = Pad
  <1> USE LinesAssumption DEF LinesAssumption
  <1>1. PICK k \in Nat :
          /\ k = (Align - (len % Align)) % Align
          /\ len % Align = 0 => k = 0
          /\ len % Align # 0 => k >= 1
    <2>1. PICK r \in 0 .. Align - 1 : r = len % Align
      OBVIOUS
    <2>2. CASE r = 0
      BY <2>1, <2>2
    <2>3. CASE r # 0
      <3>1. Align - r \in 1 .. Align - 1
        BY <2>1, <2>3
      <3>2. (Align - r) % Align = Align - r
        BY <3>1
      <3> QED
        BY <2>1, <2>3, <3>1, <3>2
    <2> QED
      BY <2>2, <2>3
  <1>2. Padding(len) = [i \in 1 .. k |-> Pad]
    BY <1>1 DEF Padding
  <1>3. Pad \in Cells
    BY DEF Pad, Cells
  <1>4. /\ Padding(len) \in Seq(Cells) /\ Len(Padding(len)) = k
        /\ \A i \in DOMAIN Padding(len) : Padding(len)[i] = Pad
    BY <1>2, <1>3
  <1>5. k = 0 => Padding(len) = << >>
    BY <1>2
  <1>6. k >= 1 => Padding(len)[1] = Pad
    BY <1>2
  <1> QED
    BY <1>1, <1>4, <1>5, <1>6

(* The cells of a line: how long it is, and what fills it up.              *)
LEMMA LineCells ==
  ASSUME NEW n \in Nat \ {0}, NEW len \in LineLens
  PROVE  /\ LineOf(n, len) \in Seq(Cells) /\ Len(LineOf(n, len)) = len
         /\ \A i \in 1 .. len : LineOf(n, len)[i] # Pad
         /\ len \in Nat /\ len >= 1
         /\ Padding(len) \in Seq(Cells) /\ \A i \in DOMAIN Padding(len) : Padding(len)[i] = Pad
         /\ len % Align = 0 => Padding(len) = << >>
  <1> USE LinesAssumption DEF LinesAssumption
  <1>1. len \in Nat /\ len >= 1
    OBVIOUS
  <1>2. LineOf(n, len) \in Seq(Cells) /\ Len(LineOf(n, len)) = len
    <2>1. \A i \in 1 .. len : <<n, i>> \in Cells
      BY <1>1 DEF Cells
    <2> QED
      BY <1>1, <2>1 DEF LineOf
  <1>3. \A i \in 1 .. len : LineOf(n, len)[i] # Pad
    BY <1>1 DEF LineOf, Pad
  <1> QED
    BY <1>1, <1>2, <1>3, PaddingIs

(* What is stored comes behind what was, in whatever block.                *)
LEMMA StoredBehind ==
  ASSUME blocks \in Seq(Seq(Cells)), blocks # << >>, NEW l \in Seq(Cells),
         Padding(Len(l)) \in Seq(Cells)
  PROVE  /\ Stored(l) \in Seq(Seq(Cells)) /\ Stored(l) # << >>
         /\ FlattenSeq(Stored(l)) = FlattenSeq(blocks) \o (l \o Padding(Len(l)))
  <1> DEFINE cells == l \o Padding(Len(l))
  <1>1. PICK n \in Nat : Len(blocks) = n + 1
    <2>1. Len(blocks) \in Nat /\ Len(blocks) # 0
      OBVIOUS
    <2>2. Len(blocks) - 1 \in Nat /\ Len(blocks) = (Len(blocks) - 1) + 1
      BY <2>1
    <2> QED
      BY <2>2
  <1>2. PICK before \in Seq(Seq(Cells)), b \in Seq(Cells) :
          /\ blocks = Append(before, b) /\ Len(before) = n /\ blocks[n + 1] = b
          /\ \A i \in 1 .. n : blocks[i] = before[i]
    BY <1>1, BeforeLast
  <1>3. cells \in Seq(Cells) /\ b \o cells \in Seq(Cells)
    BY ConcatProperties
  <1> HIDE DEF cells
  <1>4. CASE Len(b) + Len(cells) <= BlockSize
    <2>1. Stored(l) = [blocks EXCEPT ![n + 1] = b \o cells]
      BY <1>1, <1>2, <1>4 DEF Stored, cells
    <2> DEFINE a == Append(before, b \o cells)
               d == [blocks EXCEPT ![n + 1] = b \o cells]
    <2>2. /\ a \in Seq(Seq(Cells)) /\ Len(a) = n + 1
          /\ a[n + 1] = b \o cells /\ \A i \in 1 .. n : a[i] = before[i]
      BY <1>2, <1>3, AppendIs
    <2>3. /\ d \in Seq(Seq(Cells)) /\ Len(d) = n + 1
          /\ \A j \in 1 .. n + 1 : d[j] = IF j = n + 1 THEN b \o cells ELSE blocks[j]
      <3>1. n + 1 \in 1 .. Len(blocks)
        BY <1>1
      <3> QED
        BY <1>1, <1>3, <3>1, ExceptSeq
    <2> HIDE DEF a, d
    <2>4. ASSUME NEW i \in 1 .. n + 1 PROVE a[i] = d[i]
      <3>1. i # n + 1 => i \in 1 .. n
        OBVIOUS
      <3>2. i # n + 1 => a[i] = before[i] /\ d[i] = blocks[i] /\ blocks[i] = before[i]
        BY <1>2, <2>2, <2>3, <3>1
      <3> QED
        BY <2>2, <2>3, <3>2
    <2>5. a = d /\ d # << >>
      <3>1. Len(a) = Len(d) /\ \A i \in 1 .. Len(a) : a[i] = d[i]
        BY <2>2, <2>3, <2>4
      <3>2. a = d
        BY <2>2, <2>3, <3>1, SeqEqual, Zenon
      <3>3. d # << >>
        BY <2>3
      <3> QED
        BY <3>2, <3>3
    <2>6. FlattenSeq(a) = FlattenSeq(before) \o (b \o cells)
      BY <1>2, <1>3, FlattenAppend DEF a
    <2>7. /\ FlattenSeq(before) \in Seq(Cells)
          /\ FlattenSeq(blocks) = FlattenSeq(before) \o b
      BY <1>2, FlattenAppend
    <2>8. FlattenSeq(before) \o (b \o cells) = (FlattenSeq(before) \o b) \o cells
      BY <1>3, <2>7, Regroup, Zenon
    <2> QED
      BY <2>1, <2>3, <2>5, <2>6, <2>7, <2>8 DEF cells, d
  <1>5. CASE ~(Len(b) + Len(cells) <= BlockSize)
    <2>1. Stored(l) = Append(blocks, cells)
      BY <1>1, <1>2, <1>5 DEF Stored, cells
    <2>2. Stored(l) \in Seq(Seq(Cells)) /\ Stored(l) # << >>
      <3>1. Append(blocks, cells) \in Seq(Seq(Cells)) /\ Len(Append(blocks, cells)) = n + 1 + 1
        BY <1>1, <1>3, AppendIs
      <3>2. Len(Append(blocks, cells)) # 0
        BY <3>1
      <3> QED
        BY <2>1, <3>1, <3>2, EmptySeq
    <2> QED
      BY <1>3, <2>1, <2>2, FlattenAppend DEF cells
  <1> QED
    BY <1>4, <1>5

(* What fills each line up, ... *)
Fills(ls) == [i \in DOMAIN ls |-> Padding(Len(ls[i]))]

(* ... and what does when there is one line more.                          *)
LEMMA FillsAppend ==
  ASSUME NEW ls \in Seq(Seq(Cells)), NEW l \in Seq(Cells)
  PROVE  /\ Fills(ls) \in Seq(Seq(Cells))
         /\ Fills(Append(ls, l)) = Append(Fills(ls), Padding(Len(l)))
  <1>1. PICK N \in Nat : N = Len(ls)
    OBVIOUS
  <1>2. PICK more \in Seq(Seq(Cells)) :
          /\ more = Append(ls, l) /\ Len(more) = N + 1 /\ more[N + 1] = l
          /\ \A i \in 1 .. N : more[i] = ls[i]
    <2>1. /\ Append(ls, l) \in Seq(Seq(Cells)) /\ Len(Append(ls, l)) = N + 1
          /\ Append(ls, l)[N + 1] = l
          /\ \A i \in 1 .. N : Append(ls, l)[i] = ls[i]
      BY <1>1, AppendIs
    <2> QED
      BY <2>1
  <1>3. ASSUME NEW r \in Seq(Seq(Cells))
        PROVE  /\ Fills(r) \in Seq(Seq(Cells)) /\ Len(Fills(r)) = Len(r)
               /\ \A i \in 1 .. Len(r) : Fills(r)[i] = Padding(Len(r[i]))
    <2>1. \A i \in 1 .. Len(r) : Padding(Len(r[i])) \in Seq(Cells)
      <3>1. \A i \in 1 .. Len(r) : Len(r[i]) \in Nat
        OBVIOUS
      <3> QED
        BY <3>1, PaddingIs
    <2>2. DOMAIN r = 1 .. Len(r) /\ Len(r) \in Nat
      OBVIOUS
    <2> QED
      BY <2>1, <2>2 DEF Fills
  <1>4. Padding(Len(l)) \in Seq(Cells)
    BY PaddingIs
  <1>5. PICK f \in Seq(Seq(Cells)) :
          /\ f = Fills(ls) /\ Len(f) = N /\ \A i \in 1 .. N : f[i] = Padding(Len(ls[i]))
    BY <1>1, <1>3
  <1>6. PICK g \in Seq(Seq(Cells)) :
          /\ g = Fills(more) /\ Len(g) = N + 1
          /\ \A i \in 1 .. N + 1 : g[i] = Padding(Len(more[i]))
    <2>1. /\ Fills(more) \in Seq(Seq(Cells)) /\ Len(Fills(more)) = N + 1
          /\ \A i \in 1 .. N + 1 : Fills(more)[i] = Padding(Len(more[i]))
      BY <1>2, <1>3
    <2> QED
      BY <2>1
  <1>7. PICK a \in Seq(Seq(Cells)) :
          /\ a = Append(f, Padding(Len(l))) /\ Len(a) = N + 1 /\ a[N + 1] = Padding(Len(l))
          /\ \A i \in 1 .. N : a[i] = f[i]
    <2>1. /\ Append(f, Padding(Len(l))) \in Seq(Seq(Cells))
          /\ Len(Append(f, Padding(Len(l)))) = N + 1
          /\ Append(f, Padding(Len(l)))[N + 1] = Padding(Len(l))
          /\ \A i \in 1 .. N : Append(f, Padding(Len(l)))[i] = f[i]
      BY <1>4, <1>5, AppendIs
    <2> QED
      BY <2>1
  <1>8. ASSUME NEW i \in 1 .. N + 1 PROVE g[i] = a[i]
    <2>1. i # N + 1 => i \in 1 .. N
      OBVIOUS
    <2> QED
      BY <1>2, <1>5, <1>6, <1>7, <2>1
  <1>9. Len(g) = Len(a) /\ \A i \in 1 .. Len(g) : g[i] = a[i]
    BY <1>6, <1>7, <1>8
  <1> QED
    BY <1>2, <1>5, <1>6, <1>7, <1>9, SeqEqual

(* Without a line nothing is stored, with one block or none.               *)
LEMMA NothingStored ==
  /\ << >> \in Seq(Seq(Cells)) /\ FlattenSeq(<< >>) = << >>
  /\ << << >> >> \in Seq(Seq(Cells)) /\ FlattenSeq(<< << >> >>) = << >>
  /\ << >> \in Seq(Cells) /\ Unpadded(<< >>) = << >>
  /\ Len(<< >>) = 0 /\ DOMAIN << >> = {} /\ << >> \o << >> = << >>
  /\ FlattenSeq(Fills(<< >>)) = << >>
  <1>1. << << >> >> \in Seq(Seq(Cells)) /\ << >> \in Seq(Seq(Cells)) /\ << >> \in Seq(Cells)
    BY EmptySeq, SeqOfOne
  <1>2. Append(<< >>, << >>) = << << >> >> /\ Len(<< >>) = 0 /\ DOMAIN << >> = {}
    OBVIOUS
  <1>3. << >> \o << >> = << >>
    BY EmptySeq, ConcatEmptySeq
  <1>4. FlattenSeq(<< << >> >>) = << >>
    BY <1>1, <1>2, <1>3, FlattenAppend, FlattenNone
  <1>5. Fills(<< >>) = << >>
    BY <1>2 DEF Fills
  <1> QED
    BY <1>1, <1>2, <1>3, <1>4, <1>5, FlattenNone, UnpaddedNone

(* One more line keeps that: if all before it are aligned, what is stored  *)
(* is their text, and it comes behind; if only the last was not, the text  *)
(* goes on where a Pad is.                                                 *)
LEMMA LineIsStored ==
  ASSUME StoredInv, NEW len \in LineLens, blocks # << >>,
         blocks' = Stored(LineOf(Len(lines) + 1, len)),
         total' = total + len, lines' = Append(lines, LineOf(Len(lines) + 1, len))
  PROVE  StoredInv'
  <1>1. PICK n \in Nat : n = Len(lines)
    BY DEF StoredInv
  <1>2. PICK l \in Seq(Cells) :
          /\ l = LineOf(n + 1, len) /\ Len(l) = len /\ \A i \in 1 .. len : l[i] # Pad
    BY LineCells
  <1>3. PICK e \in Seq(Cells) :
          /\ e = Padding(len) /\ \A i \in 1 .. Len(e) : e[i] = Pad
          /\ len % Align = 0 => e = << >>
    <2>1. /\ Padding(len) \in Seq(Cells)
          /\ \A i \in DOMAIN Padding(len) : Padding(len)[i] = Pad
          /\ len % Align = 0 => Padding(len) = << >>
      BY LineCells
    <2>2. DOMAIN Padding(len) = 1 .. Len(Padding(len))
      BY <2>1
    <2> QED
      BY <2>1, <2>2
  <1>4. len \in Nat /\ len >= 1
    BY LineCells
  <1>5. PICK text \in Seq(Cells) :
          /\ text = FlattenSeq(lines) /\ Len(text) = total /\ \A i \in 1 .. total : text[i] # Pad
    <2>1. FlattenSeq(lines) \in Seq(Cells)
      BY <1>2, FlattenAppend DEF StoredInv
    <2>2. DOMAIN FlattenSeq(lines) = 1 .. Len(FlattenSeq(lines))
      BY <2>1
    <2> QED
      BY <2>1, <2>2 DEF StoredInv
  <1>0. PICK fill \in Seq(Cells) : fill = Filling
    BY DEF StoredInv
  <1>6. PICK kept \in Seq(Cells) :
          /\ kept = FlattenSeq(blocks) /\ Unpadded(kept) = text
          /\ Len(kept) = total + Len(fill) /\ total <= Len(kept)
    <2>1. FlattenSeq(blocks) \in Seq(Cells)
      BY <1>2, FlattenAppend DEF StoredInv
    <2>2. total \in Nat
      BY <1>5
    <2> QED
      BY <1>0, <1>5, <2>1, <2>2 DEF StoredInv
  <1>7. /\ l \o e \in Seq(Cells) /\ Len(l \o e) = len + Len(e)
        /\ text \o l \in Seq(Cells) /\ Len(text \o l) = total + len
        /\ \A i \in 1 .. total + len : (text \o l)[i] = IF i <= total THEN text[i] ELSE l[i - total]
    <2>1. /\ text \o l \in Seq(Cells) /\ Len(text \o l) = Len(text) + Len(l)
          /\ \A i \in 1 .. Len(text) + Len(l) :
               (text \o l)[i] = IF i <= Len(text) THEN text[i] ELSE l[i - Len(text)]
      BY ConcatProperties
    <2>2. l \o e \in Seq(Cells) /\ Len(l \o e) = Len(l) + Len(e)
      BY ConcatProperties
    <2> QED
      BY <1>2, <1>5, <2>1, <2>2
  <1>8. /\ blocks' \in Seq(Seq(Cells)) /\ blocks' # << >>
        /\ FlattenSeq(blocks') = kept \o (l \o e)
    BY <1>1, <1>2, <1>3, <1>6, StoredBehind DEF StoredInv
  <1>9. lines' \in Seq(Seq(Cells)) /\ FlattenSeq(lines') = text \o l
    BY <1>1, <1>2, <1>5, FlattenAppend, AppendProperties DEF StoredInv
  <1>10. /\ Len(lines') = n + 1 /\ lines'[n + 1] = l /\ lines' # << >>
         /\ \A i \in 1 .. n : lines'[i] = lines[i]
    <2>1. lines \in Seq(Seq(Cells)) /\ lines' = Append(lines, l)
      BY <1>1, <1>2 DEF StoredInv
    <2>2. /\ Len(lines') = n + 1 /\ lines'[n + 1] = l
          /\ \A i \in 1 .. n : lines'[i] = lines[i]
      BY <1>1, <2>1, AppendIs
    <2>3. lines' # << >>
      <3>1. n + 1 # 0
        OBVIOUS
      <3>2. Len(<< >>) = 0
        OBVIOUS
      <3> QED
        BY <2>2, <3>1, <3>2, Zenon
    <2> QED
      BY <2>2, <2>3
  <1>11. total \in Nat
    BY <1>5
  <1>12. Unpadded(kept \o (l \o e)) = text \o l
    <2>1. Unpadded(l) = l /\ Unpadded(e) = << >>
      BY <1>2, <1>3, UnpaddedText
    <2>2. Unpadded(l \o e) = l
      <3>1. Unpadded(l \o e) = l \o << >>
        BY <2>1, UnpaddedJoin
      <3> QED
        BY <3>1, ConcatEmptySeq
    <2> QED
      <3>1. Unpadded(kept \o (l \o e)) = Unpadded(kept) \o Unpadded(l \o e)
        BY <1>7, UnpaddedJoin
      <3> QED
        BY <1>6, <2>2, <3>1
  <1>13. ASSUME NEW i \in 1 .. total + len PROVE (text \o l)[i] # Pad
    <2>1. CASE i <= total
      BY <1>5, <1>7, <1>11, <2>1
    <2>2. CASE ~(i <= total)
      <3>1. i - total \in 1 .. len
        BY <1>4, <1>11, <2>2
      <3> QED
        BY <1>2, <1>7, <2>2, <3>1
    <2> QED
      BY <2>1, <2>2
  <1>14. /\ kept \o (l \o e) \in Seq(Cells)
         /\ Len(kept \o (l \o e)) = Len(kept) + (len + Len(e))
         /\ \A i \in 1 .. Len(kept) : (kept \o (l \o e))[i] = kept[i]
    BY <1>7, ConcatProperties
  <1>15. Filling' \in Seq(Cells) /\ Len(kept \o (l \o e)) = (total + len) + Len(Filling')
    <2>1. lines \in Seq(Seq(Cells)) /\ lines' = Append(lines, l)
      BY <1>1, <1>2 DEF StoredInv
    <2>2. Fills(lines) \in Seq(Seq(Cells)) /\ Fills(lines') = Append(Fills(lines), e)
      BY <1>2, <1>3, <2>1, FillsAppend
    <2>3. Filling = FlattenSeq(Fills(lines)) /\ Filling' = FlattenSeq(Fills(lines'))
      BY DEF Filling, Fills
    <2>4. Filling' = fill \o e
      BY <1>0, <2>2, <2>3, FlattenAppend
    <2>5. fill \o e \in Seq(Cells) /\ Len(fill \o e) = Len(fill) + Len(e)
      BY ConcatProperties
    <2>6. Len(fill) \in Nat /\ Len(e) \in Nat
      OBVIOUS
    <2> QED
      BY <1>4, <1>6, <1>11, <1>14, <2>4, <2>5, <2>6
  <1>16. AlignedBefore(Len(lines) - 1)' <=> \A i \in 1 .. n : Len(lines[i]) % Align = 0
    BY <1>10 DEF AlignedBefore
  <1>17. ASSUME IF \A i \in 1 .. n : Len(lines[i]) % Align = 0
                THEN kept \o (l \o e) = (text \o l) \o e
                ELSE \E p \in 1 .. total + len : (kept \o (l \o e))[p] = Pad
         PROVE  StoredInv'
    <2>1. /\ total' = Len(text \o l)
          /\ \A i \in DOMAIN (text \o l) : (text \o l)[i] # Pad
          /\ Filling' \in Seq(Cells) /\ Len(kept \o (l \o e)) = total' + Len(Filling')
      <3>1. DOMAIN (text \o l) = 1 .. Len(text \o l)
        BY <1>7
      <3> QED
        BY <1>7, <1>13, <1>15, <3>1 DEF StoredInv
    <2>2. IF AlignedBefore(Len(lines) - 1)'
          THEN kept \o (l \o e) = (text \o l) \o Padding(Len(lines'[Len(lines')]))
          ELSE \E p \in 1 .. total' : (kept \o (l \o e))[p] = Pad
      BY <1>2, <1>3, <1>10, <1>16, <1>17
    <2> QED
      BY <1>8, <1>9, <1>10, <1>12, <2>1, <2>2 DEF StoredInv
  <1>18. CASE \A i \in 1 .. n : Len(lines[i]) % Align = 0
    <2>1. kept = text
      <3>1. AlignedBefore(Len(lines) - 1)
        BY <1>1, <1>18 DEF AlignedBefore
      <3>2. CASE lines = << >>
        <4>1. kept = text \o << >>
          BY <1>5, <1>6, <3>1, <3>2 DEF StoredInv
        <4> QED
          BY <4>1, ConcatEmptySeq
      <3>3. CASE lines # << >>
        <4>1. kept = text \o Padding(Len(lines[n]))
          BY <1>1, <1>5, <1>6, <3>1, <3>3 DEF StoredInv
        <4>2. Padding(Len(lines[n])) = << >>
          <5>1. n \in 1 .. n
            BY <1>1, <3>3 DEF StoredInv
          <5>2. Len(lines[n]) % Align = 0
            BY <1>18, <5>1
          <5>3. (Align - 0) % Align = 0
            BY LinesAssumption DEF LinesAssumption
          <5> QED
            BY <5>2, <5>3 DEF Padding
        <4> QED
          BY <4>1, <4>2, ConcatEmptySeq
      <3> QED
        BY <3>2, <3>3
    <2>2. text \o (l \o e) = (text \o l) \o e
      BY <1>3, Regroup, Zenon
    <2> QED
      BY <1>18, <1>17, <2>1, <2>2
  <1>19. CASE ~ \A i \in 1 .. n : Len(lines[i]) % Align = 0
    <2>1. \E p \in 1 .. total + len : kept[p] = Pad /\ p \in 1 .. Len(kept)
      <3>1. CASE AlignedBefore(Len(lines) - 1)
        <4>1. Len(lines[n]) % Align # 0 /\ n # 0
          <5>1. PICK i \in 1 .. n : Len(lines[i]) % Align # 0
            BY <1>19
          <5>2. i \notin 1 .. n - 1
            BY <1>1, <3>1, <5>1 DEF AlignedBefore
          <5>3. i = n
            BY <5>2
          <5> QED
            BY <5>1, <5>3
        <4>2. kept = text \o Padding(Len(lines[n]))
          <5>1. lines # << >>
            BY <1>1, <4>1
          <5> QED
            BY <1>1, <1>5, <1>6, <3>1, <5>1 DEF StoredInv
        <4>3. PICK m \in Nat : m = Len(lines[n])
          BY <1>1, <4>1 DEF StoredInv
        <4>4. PICK f \in Seq(Cells) : f = Padding(m) /\ Len(f) >= 1 /\ f[1] = Pad
          BY <4>1, <4>3, PaddingIs
        <4>5. PICK k \in Nat : k = Len(f) /\ k >= 1
          BY <4>4
        <4>6. kept = text \o f
          BY <4>2, <4>3, <4>4
        <4>7. /\ Len(kept) = total + k
              /\ \A i \in 1 .. total + k :
                   kept[i] = IF i <= total THEN text[i] ELSE f[i - total]
          <5>1. /\ Len(text \o f) = Len(text) + Len(f)
                /\ \A i \in 1 .. Len(text) + Len(f) :
                     (text \o f)[i] = IF i <= Len(text) THEN text[i] ELSE f[i - Len(text)]
            BY ConcatProperties
          <5> QED
            BY <1>5, <4>5, <4>6, <5>1
        <4>8. total + 1 \in 1 .. total + k /\ ~(total + 1 <= total) /\ (total + 1) - total = 1
          BY <1>11, <4>5
        <4>9. kept[total + 1] = Pad /\ total + 1 \in 1 .. Len(kept)
          BY <4>4, <4>7, <4>8
        <4> QED
          BY <1>4, <1>11, <4>9
      <3>2. CASE ~AlignedBefore(Len(lines) - 1)
        <4>1. PICK p \in 1 .. total : kept[p] = Pad
          BY <1>6, <3>2 DEF StoredInv
        <4>2. p \in 1 .. total + len /\ p \in 1 .. Len(kept)
          BY <1>4, <1>6, <1>11
        <4> QED
          BY <4>1, <4>2
      <3> QED
        BY <3>1, <3>2
    <2>2. \E p \in 1 .. total + len : (kept \o (l \o e))[p] = Pad
      BY <1>14, <2>1
    <2> QED
      BY <1>19, <1>17, <2>2
  <1> QED
    BY <1>18, <1>19

(* The text that was saved is copied whole, over the end of the buffer if  *)
(* more than one cell fills lines up and only then, and if it fits is what *)
(* is returned if all lines but the last are aligned and only then,        *)
(* however many lines, blocks and whatever alignment there are             *)
(* (redirect.c:72-118).                                                    *)
THEOREM HeredocComesBack == HeredocSpec => []TextComesBack
  <1>1. HeredocInit => HereInv
    <2> SUFFICES ASSUME HeredocInit PROVE HereInv
      OBVIOUS
    <2>1. Filling = FlattenSeq(Fills(<< >>))
      BY DEF HeredocInit, Filling, Fills
    <2>2. /\ blocks = << >> /\ lines = << >> /\ total = 0 /\ hd = "start"
          /\ Len(lines) = 0 /\ lines \in Seq(Seq(Cells)) /\ blocks \in Seq(Seq(Cells))
          /\ FlattenSeq(lines) = << >> /\ FlattenSeq(blocks) = << >>
          /\ Filling = << >>
      BY <2>1, NothingStored DEF HeredocInit
    <2>3. StoredInv
      <3>1. AlignedBefore(Len(lines) - 1)
        BY <2>2 DEF AlignedBefore
      <3> QED
        BY <2>2, <3>1, NothingStored DEF StoredInv
    <2> QED
      BY <2>2, <2>3 DEF HereInv
  <1>2. HereInv /\ [HeredocNext]_heredocVars => HereInv'
    <2> SUFFICES ASSUME HereInv, [HeredocNext]_heredocVars PROVE HereInv'
      OBVIOUS
    <2>1. ASSUME UNCHANGED <<blocks, total, lines>> PROVE StoredInv'
      BY <2>1 DEF HereInv, StoredInv, AlignedBefore, Filling
    <2>2. CASE InitHeredoc
      <3>1. /\ lines = << >> /\ total = 0 /\ UNCHANGED <<lines, total>>
            /\ hd' \in {"read", "crash", "null"}
        BY <2>2 DEF InitHeredoc, HereInv
      <3>2. CASE UNCHANGED blocks
        BY <2>1, <3>1, <3>2 DEF HereInv
      <3>3. CASE blocks' \in {<< << >> >>, << >>}
        <4>1. Filling' = FlattenSeq(Fills(<< >>)) /\ lines' = << >> /\ total' = 0
          BY <3>1 DEF Filling, Fills
        <4>2. StoredInv'
          <5>1. /\ Len(lines') = 0 /\ lines' \in Seq(Seq(Cells)) /\ blocks' \in Seq(Seq(Cells))
                /\ FlattenSeq(lines') = << >> /\ FlattenSeq(blocks') = << >>
                /\ Filling' = << >>
            BY <3>3, <4>1, NothingStored
          <5>2. \A i \in 1 .. Len(lines') - 1 : Len(lines'[i]) % Align = 0
            BY <5>1
          <5>3. Len(FlattenSeq(lines')) = 0 /\ DOMAIN FlattenSeq(lines') = {}
            BY <5>1, NothingStored
          <5>4. total' = 0 /\ lines' = << >> /\ Len(Filling') = 0 /\ Filling' \in Seq(Cells)
            BY <4>1, <5>1, NothingStored
          <5> QED
            BY <5>1, <5>2, <5>3, <5>4, NothingStored DEF StoredInv, AlignedBefore
        <4> QED
          BY <3>1, <4>2 DEF HereInv
      <3> QED
        BY <2>2, <3>2, <3>3 DEF InitHeredoc
    <2>3. ASSUME NEW len \in LineLens, ReadLine(len) PROVE HereInv'
      <3>1. hd' \in {"read", "stuck"}
        BY <2>3 DEF ReadLine
      <3>2. CASE UNCHANGED <<blocks, total, lines>>
        BY <2>1, <3>1, <3>2 DEF HereInv
      <3>3. CASE ~UNCHANGED <<blocks, total, lines>>
        BY <2>3, <3>1, <3>3, LineIsStored DEF ReadLine, HereInv
      <3> QED
        BY <3>2, <3>3
    <2>4. CASE ReadDelimiter
      <3>1. StoredInv' /\ UNCHANGED <<blocks, total>>
        BY <2>1, <2>4 DEF ReadDelimiter
      <3> QED
        BY <2>4, <3>1 DEF ReadDelimiter, HereInv
    <2>5. CASE NoArena
      BY <2>1, <2>5 DEF NoArena, HereInv
    <2>6. CASE UNCHANGED heredocVars
      BY <2>1, <2>6 DEF heredocVars, HereInv
    <2> QED
      BY <2>2, <2>3, <2>4, <2>5, <2>6 DEF HeredocNext
  <1>3. HereInv => TextComesBack
    <2> SUFFICES ASSUME HereInv, hd \in {"done", "overrun"}
                 PROVE  /\ Unpadded(flat) = FlattenSeq(lines)
                        /\ hd = "overrun" <=> Len(Filling) > 1
                        /\ hd = "done" =>
                             (result = FlattenSeq(lines) <=> AlignedBefore(Len(lines) - 1))
      BY DEF TextComesBack, EveryLineIsCopied, OverrunIfPadded, TextIfAligned, AlignedBefore
    <2>1. flat = FlattenSeq(blocks) /\ (hd = "done" => result = SubSeq(flat, 1, total))
      BY DEF HereInv
    <2>2. << >> \in Seq(Cells)
      BY EmptySeq
    <2>3. PICK text \in Seq(Cells) :
            /\ text = FlattenSeq(lines) /\ Len(text) = total
            /\ \A i \in 1 .. total : text[i] # Pad
      <3>1. FlattenSeq(lines) \in Seq(Cells)
        BY <2>2, FlattenAppend DEF HereInv, StoredInv
      <3>2. DOMAIN FlattenSeq(lines) = 1 .. Len(FlattenSeq(lines))
        BY <3>1
      <3> QED
        BY <3>1, <3>2 DEF HereInv, StoredInv
    <2>4. flat \in Seq(Cells) /\ total <= Len(flat) /\ total \in Nat
      BY <2>1, <2>2, <2>3, FlattenAppend DEF HereInv, StoredInv
    <2>8. Unpadded(flat) = FlattenSeq(lines) /\ (hd = "overrun" <=> Len(Filling) > 1)
      <3>1. Len(Filling) \in Nat /\ Len(flat) = total + Len(Filling)
        BY <2>1 DEF HereInv, StoredInv
      <3>2. Len(flat) <= total + 1 <=> Len(Filling) <= 1
        BY <2>4, <3>1
      <3>3. Len(Filling) <= 1 <=> ~(Len(Filling) > 1)
        BY <3>1
      <3> QED
        BY <2>1, <3>2, <3>3 DEF HereInv, StoredInv
    <2>9. CASE hd = "overrun"
      BY <2>8, <2>9
    <2>5. ASSUME hd = "done"
          PROVE  /\ result \in Seq(Cells) /\ Len(result) = total
                 /\ \A i \in 1 .. total : result[i] = flat[i]
      BY <2>1, <2>4, <2>5
    <2>6. CASE hd = "done" /\ AlignedBefore(Len(lines) - 1)
      <3>1. PICK e \in Seq(Cells) : flat = text \o e
        <4>1. lines = << >> => FlattenSeq(blocks) = text \o << >>
          BY <2>3, <2>6 DEF HereInv, StoredInv
        <4>2. lines # << >> => FlattenSeq(blocks) = text \o Padding(Len(lines[Len(lines)]))
          BY <2>3, <2>6 DEF HereInv, StoredInv
        <4>3. lines # << >> => Padding(Len(lines[Len(lines)])) \in Seq(Cells)
          <5>1. lines # << >> => Len(lines[Len(lines)]) \in Nat
            BY DEF HereInv, StoredInv
          <5> QED
            BY <5>1, PaddingIs
        <4> QED
          BY <2>1, <2>2, <4>1, <4>2, <4>3
      <3>2. \A i \in 1 .. total : result[i] = text[i]
        BY <2>3, <2>4, <2>5, <2>6, <3>1, ConcatProperties
      <3>3. result = text
        BY <2>3, <2>5, <2>6, <3>2, SeqEqual
      <3> QED
        BY <2>3, <2>6, <2>8, <3>3
    <2>7. CASE hd = "done" /\ ~AlignedBefore(Len(lines) - 1)
      <3>1. PICK p \in 1 .. total : flat[p] = Pad
        BY <2>1, <2>7 DEF HereInv, StoredInv
      <3>2. result # text
        BY <2>3, <2>5, <2>7, <3>1
      <3> QED
        BY <2>3, <2>7, <2>8, <3>2
    <2> QED
      BY <2>6, <2>7, <2>9
  <1> QED
    BY <1>1, <1>2, <1>3, PTL DEF HeredocSpec
=============================================================================
