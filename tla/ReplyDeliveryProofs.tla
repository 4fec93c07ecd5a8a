------------------------- MODULE ReplyDeliveryProofs -------------------------
(***************************************************************************)
(* What a chat shows of an answer is whole, in order and not repeated:     *)
(* theorems about ReplyDelivery for any pipelines, any answers and any     *)
(* chunk limit.                                                            *)
(***************************************************************************)
EXTENDS ReplyDelivery, FiniteSetTheorems, WellFoundedInduction, NaturalsInduction, TLAPS

-----------------------------------------------------------------------------
(* Arithmetic and induction *)

LEMMA DivType ==
  ASSUME NEW a \in Nat, NEW b \in Nat \ {0}
  PROVE  a \div b \in Nat
BY SMT

LEMMA DivBelow ==
  ASSUME NEW a \in Nat, NEW b \in Nat \ {0}
  PROVE  (a \div b) * b <= a
BY SMT

LEMMA DivAbove ==
  ASSUME NEW a \in Nat, NEW b \in Nat \ {0}
  PROVE  a < (a \div b) * b + b
BY SMT

LEMMA Times ==
  ASSUME NEW k \in Nat, NEW l \in Nat, NEW b \in Nat \ {0}, k < l
  PROVE  k * b \in Nat /\ l * b \in Nat /\ k * b + b <= l * b
BY SMT

LEMMA TimesType ==
  ASSUME NEW k \in Nat, NEW b \in Nat
  PROVE  k * b \in Nat
BY SMT

LEMMA TimesNext ==
  ASSUME NEW k \in Nat, NEW b \in Nat
  PROVE  (k + 1) * b = k * b + b
BY SMT

\* A set of numbers that is not empty has a least element.
LEMMA LeastElement ==
  ASSUME NEW T \in SUBSET Nat, T # {}
  PROVE  \E n \in T : \A k \in T : n <= k
<1>1. \E n \in T : \A k \in T : ~(<<k, n>> \in OpToRel(<, Nat))
  BY NatLessThanWellFounded, WFMin
<1>2. PICK n \in T : \A k \in T : ~(<<k, n>> \in OpToRel(<, Nat))
  BY <1>1
<1>3. \A k \in T : ~(k < n)
  BY <1>2 DEF OpToRel
<1> QED  BY <1>3

\* Induction, for a set.
LEMMA Induction ==
  ASSUME NEW T, NEW N \in Nat \ {0}, 1 \in T, \A n \in 2 .. N : n - 1 \in T => n \in T
  PROVE  \A n \in 1 .. N : n \in T
<1> SUFFICES ASSUME NEW m \in 1 .. N, m \notin T  PROVE FALSE
  OBVIOUS
<1> DEFINE U == {n \in 1 .. N : n \notin T}
<1>1. U \in SUBSET Nat /\ U # {}
  OBVIOUS
<1>2. PICK n \in U : \A k \in U : n <= k
  BY <1>1, LeastElement
<1>3. n \in 2 .. N /\ n - 1 \in 1 .. N /\ ~(n <= n - 1)
  BY <1>2
<1>4. n - 1 \notin U
  BY <1>2, <1>3
<1> QED  BY <1>2, <1>3, <1>4

-----------------------------------------------------------------------------
(* The slices of a line *)

Piece == [line : Nat, from : Nat, to : Nat]

\* The piece x holds character c of line i.
Holds(x, i, c) == x.line = i /\ x.from <= c /\ c < x.to

\* Pieces of lines in S, none empty or too long, and no two of them overlap.
Cut(s, S) ==
  /\ s \in Seq(Piece)
  /\ \A k \in 1 .. Len(s) : /\ s[k].line \in S
                            /\ s[k].from < s[k].to /\ s[k].to - s[k].from <= Limit
  /\ \A k, l \in 1 .. Len(s) : \A i \in S, c \in Nat :
       Holds(s[k], i, c) /\ Holds(s[l], i, c) => k = l

\* The pieces hold all of the length characters of line i.
Whole(s, i, length) ==
  \A c \in 0 .. (length - 1) : \E k \in 1 .. Len(s) : Holds(s[k], i, c)

LEMMA LimitFacts == Limit \in Nat /\ Limit > 0 /\ Limit \in Nat \ {0}
BY LimitType

LEMMA PiecesAre ==
  ASSUME NEW i \in Nat, NEW length \in Nat
  PROVE  LET s == Pieces(i, length)
             n == (length + Limit - 1) \div Limit
         IN  /\ n \in Nat /\ s \in Seq(Piece) /\ Len(s) = n
             /\ \A k \in 1 .. n : /\ s[k].line = i
                                  /\ s[k].from = (k - 1) * Limit
                                  /\ s[k].to = IF k * Limit < length THEN k * Limit ELSE length
<1> DEFINE n == (length + Limit - 1) \div Limit
           s == Pieces(i, length)
<1>1. length + Limit - 1 \in Nat
  BY LimitFacts
<1>2. n \in Nat
  BY <1>1, LimitFacts, DivType
<1> HIDE DEF n
<1>3. s = [k \in 1 .. n |-> [line |-> i, from |-> (k - 1) * Limit,
                             to |-> IF k * Limit < length THEN k * Limit ELSE length]]
  BY DEF Pieces, n
<1> HIDE DEF s
<1>4. ASSUME NEW k \in 1 .. n
      PROVE  (k - 1) * Limit \in Nat /\ (IF k * Limit < length THEN k * Limit ELSE length) \in Nat
  <2>1. k \in Nat /\ k - 1 \in Nat
    BY <1>2
  <2>2. (k - 1) * Limit \in Nat /\ k * Limit \in Nat
    BY <2>1, LimitFacts, TimesType
  <2> QED  BY <2>2
<1>5. \A k \in 1 .. n : s[k] \in Piece
  BY <1>3, <1>4 DEF Piece
<1>6. s \in Seq(Piece) /\ Len(s) = n
  BY <1>2, <1>3, <1>5
<1> QED  BY <1>2, <1>3, <1>6 DEF n, s

LEMMA PiecesCut ==
  ASSUME NEW i \in Nat, NEW length \in Nat
  PROVE  Cut(Pieces(i, length), {i}) /\ Whole(Pieces(i, length), i, length)
<1> DEFINE n == (length + Limit - 1) \div Limit
           s == Pieces(i, length)
<1>1. /\ n \in Nat /\ s \in Seq(Piece) /\ Len(s) = n
      /\ \A k \in 1 .. n : /\ s[k].line = i
                           /\ s[k].from = (k - 1) * Limit
                           /\ s[k].to = IF k * Limit < length THEN k * Limit ELSE length
  BY PiecesAre
<1>2. n * Limit <= length + Limit - 1 /\ length + Limit - 1 < n * Limit + Limit /\ n * Limit \in Nat
  <2>1. length + Limit - 1 \in Nat
    BY LimitFacts
  <2> QED  BY <1>1, <2>1, LimitFacts, DivBelow, DivAbove, TimesType
<1> HIDE DEF n, s
<1>3. ASSUME NEW k \in 1 .. n
      PROVE  /\ (k - 1) * Limit \in Nat /\ k * Limit = (k - 1) * Limit + Limit
             /\ (k - 1) * Limit < length
  <2>1. k \in Nat /\ k - 1 \in Nat /\ k = (k - 1) + 1 /\ k - 1 < n
    BY <1>1
  <2>2. (k - 1) * Limit \in Nat /\ ((k - 1) + 1) * Limit = (k - 1) * Limit + Limit
    BY <2>1, LimitFacts, TimesType, TimesNext
  <2>3. (k - 1) * Limit + Limit <= n * Limit
    BY <1>1, <2>1, LimitFacts, Times
  <2> QED  BY <1>2, <2>1, <2>2, <2>3, LimitFacts
<1>4. ASSUME NEW k \in 1 .. n
      PROVE  s[k].from < s[k].to /\ s[k].to - s[k].from <= Limit
  <2> DEFINE b == (k - 1) * Limit
             e == k * Limit
  <2>1. b \in Nat /\ e = b + Limit /\ b < length
    BY <1>3
  <2>2. s[k].from = b /\ s[k].to = IF e < length THEN e ELSE length
    BY <1>1
  <2> HIDE DEF b, e
  <2> QED  BY <2>1, <2>2, LimitFacts
<1>5. ASSUME NEW k \in 1 .. n, NEW l \in 1 .. n, NEW c \in Nat,
             s[k].from <= c, c < s[k].to, s[l].from <= c, c < s[l].to
      PROVE  ~(k < l)
  <2> SUFFICES ASSUME k < l  PROVE FALSE
    OBVIOUS
  <2>1. k - 1 \in Nat /\ l - 1 \in Nat /\ k - 1 < l - 1
    BY <1>1, <1>5
  <2>2. (k - 1) * Limit + Limit <= (l - 1) * Limit
    BY <2>1, LimitFacts, Times
  <2>3. s[k].to <= (k - 1) * Limit + Limit
    <3> DEFINE b == (k - 1) * Limit
               e == k * Limit
    <3>1. b \in Nat /\ e = b + Limit
      BY <1>3
    <3>2. s[k].to = IF e < length THEN e ELSE length
      BY <1>1
    <3> HIDE DEF b, e
    <3>3. s[k].to <= b + Limit
      BY <3>1, <3>2, LimitFacts
    <3> QED  BY <3>3 DEF b
  <2>4. (k - 1) * Limit \in Nat /\ (l - 1) * Limit \in Nat
    BY <1>3
  <2>5. s[l].from = (l - 1) * Limit
    BY <1>1
  <2>6. s[k].to \in Nat
    <3>1. s[k] \in Piece
      BY <1>1
    <3> QED  BY <3>1 DEF Piece
  <2> QED  BY <1>5, <2>2, <2>3, <2>4, <2>5, <2>6, LimitFacts
<1>6. Cut(s, {i})
  <2>1. \A k, l \in 1 .. n : \A c \in Nat : Holds(s[k], i, c) /\ Holds(s[l], i, c) => k = l
    BY <1>1, <1>5 DEF Holds
  <2> QED  BY <1>1, <1>4, <2>1 DEF Cut
<1>7. Whole(s, i, length)
  <2> SUFFICES ASSUME NEW c \in 0 .. (length - 1)
               PROVE  \E k \in 1 .. n : Holds(s[k], i, c)
    BY <1>1 DEF Whole
  <2> DEFINE q == c \div Limit
  <2>1. q \in Nat /\ q * Limit <= c /\ c < q * Limit + Limit /\ q * Limit \in Nat
    BY LimitFacts, DivType, DivBelow, DivAbove, TimesType
  <2> HIDE DEF q
  <2>2. q + 1 <= n
    <3> SUFFICES ASSUME ~(q + 1 <= n)  PROVE FALSE
      OBVIOUS
    <3>1. n = q \/ n < q
      BY <1>1, <2>1
    <3>2. n * Limit <= q * Limit
      BY <1>1, <2>1, <3>1, LimitFacts, Times
    <3> QED  BY <1>2, <2>1, <3>2, LimitFacts
  <2>3. q + 1 \in 1 .. n /\ (q + 1) - 1 = q
    BY <1>1, <2>1, <2>2
  <2>4. s[q + 1].from = q * Limit /\ (q + 1) * Limit = q * Limit + Limit
    BY <1>1, <1>3, <2>3
  <2>5. s[q + 1].line = i
    BY <1>1, <2>3
  <2>6. c < s[q + 1].to
    <3> DEFINE e == (q + 1) * Limit
    <3>1. s[q + 1].to = IF e < length THEN e ELSE length
      BY <1>1, <2>3
    <3>2. c < e
      BY <2>1, <2>4
    <3> HIDE DEF e
    <3> QED  BY <3>1, <3>2
  <2>7. Holds(s[q + 1], i, c)
    BY <2>1, <2>4, <2>5, <2>6 DEF Holds
  <2> QED  BY <2>3, <2>7
<1> QED  BY <1>6, <1>7 DEF s

-----------------------------------------------------------------------------
(* The pieces of an answer *)

LEMMA Joined ==
  ASSUME NEW V, NEW s \in Seq(V), NEW t \in Seq(V)
  PROVE  /\ s \o t \in Seq(V) /\ Len(s \o t) = Len(s) + Len(t)
         /\ \A k \in 1 .. Len(s) : k \in 1 .. Len(s \o t) /\ (s \o t)[k] = s[k]
         /\ \A k \in 1 .. Len(t) : /\ Len(s) + k \in 1 .. Len(s \o t)
                                   /\ (s \o t)[Len(s) + k] = t[k]
         /\ \A k \in 1 .. Len(s \o t) : \/ k \in 1 .. Len(s)
                                        \/ \E l \in 1 .. Len(t) : k = Len(s) + l
<1>1. s \o t \in Seq(V) /\ Len(s \o t) = Len(s) + Len(t) /\ Len(s) \in Nat /\ Len(t) \in Nat
  OBVIOUS
<1>2. \A k \in 1 .. Len(s) : k \in 1 .. Len(s \o t) /\ (s \o t)[k] = s[k]
  OBVIOUS
<1>3. \A k \in 1 .. Len(t) : Len(s) + k \in 1 .. Len(s \o t) /\ (s \o t)[Len(s) + k] = t[k]
  OBVIOUS
<1>4. ASSUME NEW k \in 1 .. Len(s \o t), k \notin 1 .. Len(s)
      PROVE  \E l \in 1 .. Len(t) : k = Len(s) + l
  <2>1. k - Len(s) \in 1 .. Len(t) /\ k = Len(s) + (k - Len(s))
    BY <1>1, <1>4
  <2> QED  BY <2>1
<1> QED  BY <1>1, <1>2, <1>3, <1>4

LEMMA CutJoined ==
  ASSUME NEW S \in SUBSET Nat, NEW T \in SUBSET Nat, S \cap T = {}, NEW s, NEW t,
         Cut(s, S), Cut(t, T)
  PROVE  /\ Cut(s \o t, S \cup T)
         /\ \A i \in Nat, length \in Nat :
              Whole(s, i, length) \/ Whole(t, i, length) => Whole(s \o t, i, length)
<1> DEFINE u == s \o t
<1>1. s \in Seq(Piece) /\ t \in Seq(Piece) /\ Len(s) \in Nat /\ Len(t) \in Nat
  BY DEF Cut
<1>2. u \in Seq(Piece)
  BY <1>1, Joined
<1>3. \A k \in 1 .. Len(s) : k \in 1 .. Len(u) /\ u[k] = s[k]
  BY <1>1, Joined
<1>4. \A k \in 1 .. Len(t) : Len(s) + k \in 1 .. Len(u) /\ u[Len(s) + k] = t[k]
  BY <1>1, Joined
<1>5. \A k \in 1 .. Len(u) : k \in 1 .. Len(s) \/ \E l \in 1 .. Len(t) : k = Len(s) + l
  BY <1>1, Joined
<1> HIDE DEF u
<1>6. ASSUME NEW k \in 1 .. Len(u)
      PROVE  /\ u[k].line \in S \cup T
             /\ u[k].from < u[k].to /\ u[k].to - u[k].from <= Limit
  <2>1. CASE k \in 1 .. Len(s)
    BY <1>3, <2>1 DEF Cut
  <2>2. ASSUME NEW l \in 1 .. Len(t), k = Len(s) + l
        PROVE  /\ u[k].line \in S \cup T
               /\ u[k].from < u[k].to /\ u[k].to - u[k].from <= Limit
    BY <1>4, <2>2 DEF Cut
  <2> QED  BY <1>5, <2>1, <2>2
<1>7. ASSUME NEW k \in 1 .. Len(u), NEW l \in 1 .. Len(u), NEW i \in S \cup T,
   NEW c \in Nat,
             Holds(u[k], i, c), Holds(u[l], i, c)
      PROVE  k = l
  <2>0. u[k].line = i /\ u[l].line = i
    BY <1>7 DEF Holds
  <2>1. CASE k \in 1 .. Len(s) /\ l \in 1 .. Len(s)
    <3>1. i \in S
      BY <1>3, <2>0, <2>1 DEF Cut
    <3> QED  BY <1>3, <1>7, <2>1, <3>1 DEF Cut
  <2>2. ASSUME NEW x \in 1 .. Len(t), NEW y \in 1 .. Len(t), k = Len(s) + x, l = Len(s) + y
        PROVE  k = l
    <3>1. u[k] = t[x] /\ u[l] = t[y]
      BY <1>4, <2>2
    <3>2. i \in T
      BY <2>0, <3>1 DEF Cut
    <3>3. x = y
      BY <1>7, <3>1, <3>2 DEF Cut
    <3> QED  BY <2>2, <3>3
  <2>3. ASSUME NEW x \in 1 .. Len(s), NEW y \in 1 .. Len(t)
        PROVE  s[x].line # t[y].line
    BY DEF Cut
  <2>4. ASSUME NEW x \in 1 .. Len(u), NEW y \in 1 .. Len(t), x \in 1 .. Len(s)
        PROVE  u[x].line # u[Len(s) + y].line
    <3>1. u[x] = s[x] /\ u[Len(s) + y] = t[y]
      BY <1>3, <1>4, <2>4
    <3> QED  BY <2>3, <2>4, <3>1
  <2>5. CASE k \in 1 .. Len(s)
    <3>1. CASE l \in 1 .. Len(s)
      BY <2>1, <2>5, <3>1
    <3>2. ASSUME NEW y \in 1 .. Len(t), l = Len(s) + y  PROVE FALSE
      BY <2>0, <2>4, <2>5, <3>2
    <3> QED  BY <1>5, <3>1, <3>2
  <2>6. ASSUME NEW x \in 1 .. Len(t), k = Len(s) + x  PROVE k = l
    <3>1. CASE l \in 1 .. Len(s)
      BY <2>0, <2>4, <2>6, <3>1
    <3>2. ASSUME NEW y \in 1 .. Len(t), l = Len(s) + y  PROVE k = l
      BY <2>2, <2>6, <3>2
    <3> QED  BY <1>5, <3>1, <3>2
  <2> QED  BY <1>5, <2>5, <2>6
<1>8. Cut(u, S \cup T)
  BY <1>2, <1>6, <1>7 DEF Cut
<1>9. ASSUME NEW i \in Nat, NEW length \in Nat, Whole(s, i, length) \/ Whole(t, i, length)
      PROVE  Whole(u, i, length)
  <2> SUFFICES ASSUME NEW c \in 0 .. (length - 1)
               PROVE  \E k \in 1 .. Len(u) : Holds(u[k], i, c)
    BY DEF Whole
  <2>1. CASE Whole(s, i, length)
    <3>1. PICK k \in 1 .. Len(s) : Holds(s[k], i, c)
      BY <2>1 DEF Whole
    <3>2. k \in 1 .. Len(u) /\ u[k] = s[k]
      BY <1>3
    <3> QED  BY <3>1, <3>2
  <2>2. CASE Whole(t, i, length)
    <3>1. PICK k \in 1 .. Len(t) : Holds(t[k], i, c)
      BY <2>2 DEF Whole
    <3>2. Len(s) + k \in 1 .. Len(u) /\ u[Len(s) + k] = t[k]
      BY <1>4
    <3> QED  BY <3>1, <3>2
  <2> QED  BY <1>9, <2>1, <2>2
<1> QED  BY <1>8, <1>9 DEF u

\* f is the function that FlattenSeq is the last value of.
Flattens(seqs, n, f) ==
  f = [i \in 1 .. n |-> IF i = 1 THEN seqs[i] ELSE f[i - 1] \o seqs[i]]

\* There is one: the recursion is well founded.
LEMMA FlattensExists ==
  ASSUME NEW seqs, NEW N \in Nat \ {0}
  PROVE  \E f : Flattens(seqs, N, f)
<1> DEFINE T == {n \in 1 .. N : \E f : Flattens(seqs, n, f)}
<1>1. 1 \in T
  <2>1. Flattens(seqs, 1, [i \in 1 .. 1 |-> seqs[1]])
    BY DEF Flattens
  <2> QED  BY <2>1
<1>2. ASSUME NEW n \in 2 .. N, n - 1 \in T  PROVE n \in T
  <2>1. PICK f : Flattens(seqs, n - 1, f)
    BY <1>2
  <2> DEFINE x == f[n - 1] \o seqs[n]
             g == [i \in 1 .. n |-> IF i = n THEN x ELSE f[i]]
  <2>2. \A i \in 1 .. n - 1 : g[i] = f[i]
    OBVIOUS
  <2> HIDE DEF x
  <2>3. g[n] = g[n - 1] \o seqs[n]
    <3>1. g[n] = x /\ g[n - 1] = f[n - 1] /\ n # 1
      OBVIOUS
    <3> QED  BY <3>1, Zenon DEF x
  <2>4. DOMAIN g = 1 .. n /\ g = [i \in 1 .. n |-> g[i]]
    OBVIOUS
  <2> HIDE DEF g
  <2>5. \A i \in 1 .. n - 1 : f[i] = IF i = 1 THEN seqs[i] ELSE f[i - 1] \o seqs[i]
    BY <2>1 DEF Flattens
  <2>6. \A i \in 1 .. n : g[i] = IF i = 1 THEN seqs[i] ELSE g[i - 1] \o seqs[i]
    <3> SUFFICES ASSUME NEW i \in 1 .. n, i # n
                 PROVE  g[i] = IF i = 1 THEN seqs[i] ELSE g[i - 1] \o seqs[i]
      <4>1. n # 1
        OBVIOUS
      <4> QED  BY <2>3, <4>1, Zenon
    <3>1. i \in 1 .. n - 1 /\ (i # 1 => i - 1 \in 1 .. n - 1)
      OBVIOUS
    <3> QED  BY <2>2, <2>5, <3>1
  <2>7. Flattens(seqs, n, g)
    BY <2>4, <2>6 DEF Flattens
  <2> QED  BY <2>7
<1> HIDE DEF T
<1>3. N \in 1 .. N
  OBVIOUS
<1>4. N \in T
  BY <1>1, <1>2, <1>3, Induction
<1> QED  BY <1>4 DEF T

LEMMA FlattenIs ==
  ASSUME NEW seqs, Len(seqs) \in Nat \ {0}
  PROVE  \E f : Flattens(seqs, Len(seqs), f) /\ FlattenSeq(seqs) = f[Len(seqs)]
<1>1. \E f : Flattens(seqs, Len(seqs), f)
  BY FlattensExists
<1> DEFINE F == CHOOSE f : Flattens(seqs, Len(seqs), f)
<1>2. Flattens(seqs, Len(seqs), F)
  BY <1>1
<1>3. FlattenSeq(seqs) = F[Len(seqs)]
  BY DEF FlattenSeq, Flattens
<1> QED  BY <1>2, <1>3

\* chunkReply loses nothing, shows nothing twice and keeps to the limit.
LEMMA ChunksAre ==
  ASSUME NEW lines \in Seq(Nat)
  PROVE  /\ Cut(ChunkReply(lines), 1 .. Len(lines))
         /\ \A i \in 1 .. Len(lines) : Whole(ChunkReply(lines), i, lines[i])
<1> DEFINE N == Len(lines)
           seqs == [i \in DOMAIN lines |-> Pieces(i, lines[i])]
<1>1. N \in Nat /\ DOMAIN lines = 1 .. N /\ \A i \in 1 .. N : lines[i] \in Nat
  OBVIOUS
<1>2. ASSUME NEW i \in 1 .. N
      PROVE  Cut(Pieces(i, lines[i]), {i}) /\ Whole(Pieces(i, lines[i]), i, lines[i])
  <2>1. i \in Nat /\ lines[i] \in Nat
    BY <1>1
  <2> QED  BY <2>1, PiecesCut
<1>3. \A i \in 1 .. N : Cut(seqs[i], {i}) /\ Whole(seqs[i], i, lines[i])
  BY <1>1, <1>2
<1>4. seqs \in Seq(Seq(Piece)) /\ Len(seqs) = N
  <2>1. seqs = [i \in 1 .. N |-> seqs[i]]
    BY <1>1
  <2>2. \A i \in 1 .. N : seqs[i] \in Seq(Piece)
    BY <1>3 DEF Cut
  <2> HIDE DEF seqs
  <2> QED  BY <1>1, <2>1, <2>2
<1>5. ChunkReply(lines) = FlattenSeq(seqs)
  BY DEF ChunkReply
<1> HIDE DEF seqs, N
<1>6. CASE N = 0
  <2>1. FlattenSeq(seqs) = seqs /\ seqs = <<>>
    BY <1>4, <1>6 DEF FlattenSeq
  <2>2. Cut(<<>>, 1 .. N)
    BY DEF Cut
  <2> QED  BY <1>5, <1>6, <2>1, <2>2 DEF N
<1>7. CASE N # 0
  <2>0. N \in Nat \ {0}
    BY <1>1, <1>7
  <2>1. PICK f : Flattens(seqs, N, f) /\ FlattenSeq(seqs) = f[N]
    BY <1>4, <2>0, FlattenIs
  <2>2. \A n \in 1 .. N : f[n] = IF n = 1 THEN seqs[n] ELSE f[n - 1] \o seqs[n]
    BY <2>1, Zenon DEF Flattens
  <2> DEFINE T == {n \in 1 .. N : /\ Cut(f[n], 1 .. n)
                                  /\ \A i \in 1 .. n : Whole(f[n], i, lines[i])}
  <2>3. 1 \in T
    <3>1. 1 \in 1 .. N /\ 1 .. 1 = {1}
      BY <2>0
    <3>2. f[1] = seqs[1]
      BY <2>2, <3>1
    <3> QED  BY <1>3, <3>1, <3>2
  <2>4. ASSUME NEW n \in 2 .. N, n - 1 \in T  PROVE n \in T
    <3>1. n \in 1 .. N /\ n # 1 /\ n - 1 \in Nat /\ n \in Nat
      BY <2>0
    <3>2. f[n] = f[n - 1] \o seqs[n]
      BY <2>2, <3>1
    <3>3. Cut(f[n - 1], 1 .. n - 1) /\ \A i \in 1 .. n - 1 : Whole(f[n - 1], i, lines[i])
      BY <2>4
    <3>4. Cut(seqs[n], {n}) /\ Whole(seqs[n], n, lines[n])
      BY <1>3, <3>1
    <3>5. 1 .. n - 1 \in SUBSET Nat /\ {n} \in SUBSET Nat /\ (1 .. n - 1) \cap {n} = {}
      BY <3>1
    <3>6. 1 .. n = (1 .. n - 1) \cup {n}
      BY <3>1
    <3>7. /\ Cut(f[n], (1 .. n - 1) \cup {n})
          /\ \A i \in Nat, length \in Nat :
               Whole(f[n - 1], i, length) \/ Whole(seqs[n], i, length) => Whole(f[n], i, length)
      <4> DEFINE S == 1 .. n - 1
      <4>1. S \in SUBSET Nat /\ {n} \in SUBSET Nat /\ S \cap {n} = {} /\ Cut(f[n - 1], S)
        BY <3>3, <3>5
      <4> HIDE DEF S
      <4>2. /\ Cut(f[n - 1] \o seqs[n], S \cup {n})
            /\ \A i \in Nat, length \in Nat :
                 Whole(f[n - 1], i, length) \/ Whole(seqs[n], i, length)
                   => Whole(f[n - 1] \o seqs[n], i, length)
        BY <3>4, <4>1, CutJoined
      <4> QED  BY <3>2, <4>2 DEF S
    <3>8. ASSUME NEW i \in 1 .. n  PROVE Whole(f[n], i, lines[i])
      <4>1. i \in Nat /\ lines[i] \in Nat /\ (i \in 1 .. n - 1 \/ i = n)
        BY <1>1, <3>1
      <4> QED  BY <3>3, <3>4, <3>7, <4>1
    <3>9. Cut(f[n], 1 .. n)
      BY <3>6, <3>7
    <3> QED  BY <3>1, <3>8, <3>9
  <2> HIDE DEF T
  <2>5. N \in 1 .. N
    BY <2>0
  <2>6. N \in T
    BY <2>0, <2>3, <2>4, <2>5, Induction
  <2> QED  BY <1>5, <2>1, <2>6 DEF T, N
<1> QED  BY <1>6, <1>7

\* No two chunks of an answer are alike, and none is taken for the excuse.
LEMMA ChunkFacts ==
  ASSUME NEW p \in Pipeline
  PROVE  /\ Chunks(p) \in Seq(Piece) /\ Len(Chunks(p)) \in Nat
         /\ \A k \in 1 .. Len(Chunks(p)) : Chunks(p)[k] \in Piece /\ Chunks(p)[k] # Excuse
         /\ \A k, l \in 1 .. Len(Chunks(p)) : Chunks(p)[k] = Chunks(p)[l] => k = l
<1> DEFINE C == Chunks(p)
           N == Len(Lines[p])
<1>0. Lines[p] \in Seq(Nat) /\ N \in Nat
  BY LinesType
<1>1. Cut(C, 1 .. N)
  BY <1>0, ChunksAre DEF Chunks
<1> HIDE DEF C, N
<1>2. C \in Seq(Piece) /\ Len(C) \in Nat
  BY <1>1 DEF Cut
<1>3. \A k \in 1 .. Len(C) : C[k] \in Piece
  BY <1>2
<1>4. \A k \in 1 .. Len(C) : C[k].line \in 1 .. N /\ C[k].from < C[k].to
  BY <1>1 DEF Cut
<1>5. \A k \in 1 .. Len(C) : C[k] # Excuse
  BY <1>4 DEF Excuse
<1>6. ASSUME NEW k \in 1 .. Len(C), NEW l \in 1 .. Len(C), C[k] = C[l]  PROVE k = l
  <2> DEFINE i == C[k].line
             c == C[k].from
  <2>1. i \in 1 .. N /\ c \in Nat
    BY <1>3, <1>4 DEF Piece
  <2>2. Holds(C[k], i, c) /\ Holds(C[l], i, c)
    BY <1>4, <1>6, <2>1 DEF Holds
  <2> HIDE DEF i, c
  <2> QED  BY <1>1, <2>1, <2>2 DEF Cut
<1> QED  BY <1>2, <1>3, <1>5, <1>6 DEF C

-----------------------------------------------------------------------------
(* What a step posts *)

Message == [by : Pipeline, what : Piece]

Types == /\ step \in [Pipeline -> Steps] /\ next \in [Pipeline -> Nat \ {0}]
         /\ chat \in Seq(Message)

\* Nothing of p is posted.
Silent(p) == PlacesOf(p)' = PlacesOf(p) /\ \A i \in PlacesOf(p) : chat'[i] = chat[i]

\* One message of p is posted, behind all others, and nothing of anybody else.
Posted(p, w) ==
  LET new == Len(chat) + 1
  IN  /\ new \in Nat /\ PlacesOf(p)' = PlacesOf(p) \cup {new}
      /\ \A i \in PlacesOf(p) : i \in Nat /\ i < new /\ chat'[i] = chat[i]
      /\ chat'[new].what = w
      /\ \A q \in Pipeline : q # p => Silent(q)

LEMMA Posting ==
  ASSUME Types, NEW p \in Pipeline, NEW w \in Piece, chat' = Append(chat, [by |-> p, what |-> w])
  PROVE  chat' \in Seq(Message) /\ Posted(p, w)
<1> DEFINE m == [by |-> p, what |-> w]
           new == Len(chat) + 1
<1>1. m \in Message /\ m.by = p /\ m.what = w
  BY DEF Message
<1> HIDE DEF m
<1>2. chat \in Seq(Message) /\ Len(chat) \in Nat /\ chat' = Append(chat, m)
  BY DEF Types, m
<1>3. chat' \in Seq(Message) /\ Len(chat') = new
  BY <1>1, <1>2
<1>4. chat'[new] = m /\ \A i \in 1 .. Len(chat) : chat'[i] = chat[i]
  BY <1>1, <1>2
<1>5. DOMAIN chat = 1 .. Len(chat) /\ DOMAIN chat' = (1 .. Len(chat)) \cup {new}
  <2>1. DOMAIN chat = 1 .. Len(chat) /\ DOMAIN chat' = 1 .. new
    BY <1>2, <1>3
  <2> QED  BY <1>2, <2>1
<1>6. \A i \in 1 .. Len(chat) : i \in Nat /\ i < new
  BY <1>2
<1>7. new \in Nat
  BY <1>2
<1> HIDE DEF new
<1>8. PlacesOf(p)' = PlacesOf(p) \cup {new}
  BY <1>1, <1>4, <1>5 DEF PlacesOf
<1>9. \A i \in PlacesOf(p) : i \in Nat /\ i < new /\ chat'[i] = chat[i]
  BY <1>4, <1>5, <1>6 DEF PlacesOf
<1>10. \A q \in Pipeline : q # p => Silent(q)
  BY <1>1, <1>4, <1>5 DEF PlacesOf, Silent
<1> QED  BY <1>1, <1>3, <1>4, <1>7, <1>8, <1>9, <1>10 DEF Posted, new

LEMMA SilentChunks ==
  ASSUME NEW p, Silent(p)
  PROVE  \A k : PlacesOfChunk(p, k)' = PlacesOfChunk(p, k)
BY DEF Silent, PlacesOfChunk

LEMMA PostedChunk ==
  ASSUME NEW p \in Pipeline, NEW n \in 1 .. Len(Chunks(p)), Posted(p, Chunks(p)[n])
  PROVE  \A k \in 1 .. Len(Chunks(p)) :
           PlacesOfChunk(p, k)' = IF k = n THEN PlacesOfChunk(p, k) \cup {Len(chat) + 1}
                                  ELSE PlacesOfChunk(p, k)
<1> SUFFICES ASSUME NEW k \in 1 .. Len(Chunks(p))
             PROVE  PlacesOfChunk(p, k)' = IF k = n THEN PlacesOfChunk(p, k) \cup {Len(chat) + 1}
                                           ELSE PlacesOfChunk(p, k)
  OBVIOUS
<1> DEFINE new == Len(chat) + 1
<1>1. Chunks(p)[n] = Chunks(p)[k] <=> k = n
  BY ChunkFacts
<1>2. /\ PlacesOf(p)' = PlacesOf(p) \cup {new} /\ chat'[new].what = Chunks(p)[n]
      /\ \A i \in PlacesOf(p) : chat'[i] = chat[i]
  BY DEF Posted
<1> HIDE DEF new
<1>3. PlacesOfChunk(p, k)' = {i \in PlacesOf(p)' : chat'[i].what = Chunks(p)[k]}
  BY DEF PlacesOfChunk
<1>4. PlacesOfChunk(p, k) = {i \in PlacesOf(p) : chat[i].what = Chunks(p)[k]}
  BY DEF PlacesOfChunk
<1>5. PlacesOfChunk(p, k)' = IF k = n THEN PlacesOfChunk(p,
   k) \cup {new} ELSE PlacesOfChunk(p, k)
  BY <1>1, <1>2, <1>3, <1>4
<1> QED  BY <1>5 DEF new

LEMMA PostedExcuse ==
  ASSUME NEW p \in Pipeline, Posted(p, Excuse)
  PROVE  \A k \in 1 .. Len(Chunks(p)) : PlacesOfChunk(p, k)' = PlacesOfChunk(p, k)
<1> SUFFICES ASSUME NEW k \in 1 .. Len(Chunks(p))
             PROVE  PlacesOfChunk(p, k)' = PlacesOfChunk(p, k)
  OBVIOUS
<1>1. Chunks(p)[k] # Excuse
  BY ChunkFacts
<1> QED  BY <1>1 DEF Posted, PlacesOfChunk

LEMMA FewPlaces ==
  ASSUME Types, NEW p \in Pipeline, NEW k
  PROVE  /\ IsFiniteSet(PlacesOfChunk(p, k)) /\ Cardinality(PlacesOfChunk(p, k)) \in Nat
         /\ Cardinality(PlacesOfChunk(p, k) \cup {Len(chat) + 1})
              = Cardinality(PlacesOfChunk(p, k)) + 1
<1>1. Len(chat) \in Nat /\ DOMAIN chat = 1 .. Len(chat)
  BY DEF Types
<1>2. IsFiniteSet(1 .. Len(chat))
  BY <1>1, FS_Interval
<1>3. PlacesOfChunk(p, k) \subseteq 1 .. Len(chat)
  BY <1>1 DEF PlacesOfChunk, PlacesOf
<1>4. IsFiniteSet(PlacesOfChunk(p, k))
  BY <1>2, <1>3, FS_Subset
<1>5. Len(chat) + 1 \notin PlacesOfChunk(p, k)
  BY <1>1, <1>3
<1> QED  BY <1>4, <1>5, FS_CardinalityType, FS_AddElement

-----------------------------------------------------------------------------
(* The inductive invariant *)

\* How far p has got: the chunks before the one it is at have been shown.
Reached(p) ==
  /\ step[p] \in {"idle", "replying"} => next[p] = 1
  /\ step[p] \notin {"idle", "sent"} => next[p] <= Len(Chunks(p))
  /\ step[p] = "sent" => next[p] = Len(Chunks(p)) + 1
  /\ \A k \in 1 .. Len(Chunks(p)) :
       k < next[p] \/ (k = next[p] /\ step[p] = "pausing") => PlacesOfChunk(p, k) # {}

\* How often chunk k of p can have been shown so far.
May(p, k) ==
  IF k > next[p] \/ (k = next[p] /\ step[p] \in {"idle", "replying"}) THEN 0
  ELSE IF k = next[p] /\ step[p] = "creating" THEN (IF k = 1 THEN 1 ELSE 0)
  ELSE IF k = 1 THEN 2 ELSE 1

Seldom(p) ==
  \A k \in 1 .. Len(Chunks(p)) : Cardinality(PlacesOfChunk(p, k)) <= May(p, k)

Ordered(p) ==
  \A k \in 2 .. Len(Chunks(p)) : \A i \in PlacesOfChunk(p, k) :
    \E j \in PlacesOfChunk(p, k - 1) : j < i

\* Whatever p has posted is a chunk of its answer, or the excuse it is at.
Own(p) ==
  \A i \in PlacesOf(p) : IF chat[i].what = Excuse THEN step[p] \in {"pleading", "excused"}
                         ELSE \E k \in 1 .. Len(Chunks(p)) : chat[i].what = Chunks(p)[k]

ExcusedLast(p) ==
  \A i, j \in PlacesOf(p) : chat[i].what = Excuse /\ i < j => chat[j].what = Excuse

Going(p) == Reached(p) /\ Seldom(p) /\ Ordered(p) /\ Own(p) /\ ExcusedLast(p)

Delivering == Types /\ \A p \in Pipeline : Going(p)

\* A pipeline that does nothing, while others may post.
LEMMA OtherGoing ==
  ASSUME NEW p \in Pipeline, Going(p), Silent(p), step'[p] = step[p], next'[p] = next[p]
  PROVE  Going(p)'
<1>1. \A k : PlacesOfChunk(p, k)' = PlacesOfChunk(p, k)
  BY SilentChunks
<1>2. Reached(p)'
  BY <1>1 DEF Going, Reached
<1>3. Seldom(p)'
  BY <1>1 DEF Going, Seldom, May
<1>4. Ordered(p)'
  BY <1>1 DEF Going, Ordered
<1>5. Own(p)' /\ ExcusedLast(p)'
  BY DEF Going, Silent, Own, ExcusedLast
<1> QED  BY <1>2, <1>3, <1>4, <1>5 DEF Going

\* A step that posts nothing: p starts, goes on to the next chunk, or fails.
LEMMA SilentStep ==
  ASSUME Types, NEW p \in Pipeline, Going(p), Silent(p), NEW a, step'[p] = a,
         \/ /\ next'[p] = next[p]
            /\ \/ step[p] = "idle" /\ a = "replying" /\ Len(Chunks(p)) # 0
               \/ step[p] = "idle" /\ a = "sent" /\ Len(Chunks(p)) = 0
               \/ step[p] = "replying" /\ a = "creating"
               \/ step[p] = "creating" /\ a \in {"excusing", "mute"}
               \/ step[p] = "excusing" /\ a = "pleading"
               \/ step[p] = "pleading" /\ a = "excused"
         \/ /\ step[p] = "pausing" /\ next'[p] = next[p] + 1
            /\ a = IF next[p] < Len(Chunks(p)) THEN "creating" ELSE "sent"
  PROVE  Going(p)'
<1> DEFINE C == Chunks(p)
<1>0. Len(C) \in Nat /\ next[p] \in Nat \ {0}
  BY ChunkFacts DEF Types
<1>1. \A k : PlacesOfChunk(p, k)' = PlacesOfChunk(p, k)
  BY SilentChunks
<1>2. Reached(p)'
  BY <1>0, <1>1 DEF Going, Reached
<1>3. Seldom(p)'
  <2> SUFFICES ASSUME NEW k \in 1 .. Len(C)
               PROVE  Cardinality(PlacesOfChunk(p, k)) <= May(p, k)'
    BY <1>1 DEF Seldom
  <2>1. Cardinality(PlacesOfChunk(p, k)) \in Nat /\ Cardinality(PlacesOfChunk(p,
     k)) <= May(p, k)
    BY FewPlaces DEF Going, Seldom
  <2>2. May(p, k) \in Nat /\ May(p, k)' \in Nat /\ May(p, k) <= May(p, k)'
    <3>1. Reached(p)
      BY DEF Going
    <3> QED  BY <1>0, <3>1 DEF May, Reached
  <2> QED  BY <2>1, <2>2
<1>4. Ordered(p)'
  BY <1>1 DEF Going, Ordered
<1>5. Own(p)' /\ ExcusedLast(p)'
  BY DEF Going, Silent, Own, ExcusedLast
<1> QED  BY <1>2, <1>3, <1>4, <1>5 DEF Going

\* A step that posts the chunk p is at.
LEMMA ChunkStep ==
  ASSUME Types, NEW p \in Pipeline, Going(p), Posted(p, Chunks(p)[next[p]]),
         next'[p] = next[p], NEW a, step'[p] = a,
         \/ step[p] = "replying" /\ a \in {"pausing", "creating"}
         \/ step[p] = "creating" /\ a \in {"pausing", "excusing", "mute"}
  PROVE  Going(p)'
<1> DEFINE C == Chunks(p)
           n == next[p]
           new == Len(chat) + 1
<1>0. Len(C) \in Nat /\ n \in 1 .. Len(C) /\ n \in Nat
  BY ChunkFacts DEF Types, Going, Reached
<1>1. \A k \in 1 .. Len(C) :
        PlacesOfChunk(p, k)' = IF k = n THEN PlacesOfChunk(p, k) \cup {new} ELSE PlacesOfChunk(p, k)
  BY <1>0, PostedChunk
<1>2. Reached(p)'
  BY <1>0, <1>1 DEF Going, Reached
<1>3. Seldom(p)'
  <2> SUFFICES ASSUME NEW k \in 1 .. Len(C)
               PROVE  Cardinality(PlacesOfChunk(p, k)') <= May(p, k)'
    BY DEF Seldom
  <2>1. /\ Cardinality(PlacesOfChunk(p, k)) \in Nat
        /\ Cardinality(PlacesOfChunk(p, k)) <= May(p, k)
        /\ Cardinality(PlacesOfChunk(p, k) \cup {new}) = Cardinality(PlacesOfChunk(p, k)) + 1
    BY FewPlaces DEF Going, Seldom
  <2>2. n = 1 \/ step[p] = "creating"
    BY DEF Going, Reached
  <2>3. CASE k = n
    <3>1. May(p, k) \in Nat /\ May(p, k)' \in Nat /\ May(p, k) + 1 <= May(p, k)'
      BY <1>0, <2>2, <2>3 DEF May
    <3>2. PlacesOfChunk(p, k)' = PlacesOfChunk(p, k) \cup {new}
      BY <1>1, <2>3
    <3>3. Cardinality(PlacesOfChunk(p, k)') = Cardinality(PlacesOfChunk(p, k)) + 1
      BY <2>1, <3>2
    <3> HIDE DEF new
    <3> QED  BY <2>1, <3>1, <3>3
  <2>4. CASE k # n
    <3>1. May(p, k) \in Nat /\ May(p, k)' = May(p, k)
      BY <2>4 DEF May
    <3> QED  BY <1>1, <2>1, <2>4, <3>1
  <2> QED  BY <2>3, <2>4
<1>4. Ordered(p)'
  <2> SUFFICES ASSUME NEW k \in 2 .. Len(C), NEW i \in PlacesOfChunk(p, k)'
               PROVE  \E j \in PlacesOfChunk(p, k - 1)' : j < i
    BY DEF Ordered
  <2>1. k \in 1 .. Len(C) /\ k - 1 \in 1 .. Len(C) /\ k - 1 < k /\ k - 1 # k
    BY <1>0
  <2>2. PlacesOfChunk(p, k - 1) \subseteq PlacesOfChunk(p, k - 1)'
    BY <1>1, <2>1
  <2>3. CASE i \in PlacesOfChunk(p, k)
    BY <2>2, <2>3 DEF Going, Ordered
  <2>4. CASE i \notin PlacesOfChunk(p, k)
    <3>1. k = n /\ i = new
      BY <1>1, <2>1, <2>4
    <3>2. PlacesOfChunk(p, k - 1) # {}
      BY <2>1, <3>1 DEF Going, Reached
    <3>3. \A j \in PlacesOfChunk(p, k - 1) : j < new
      BY DEF PlacesOfChunk, Posted
    <3> QED  BY <2>2, <3>1, <3>2, <3>3
  <2> QED  BY <2>3, <2>4
<1>5. \A i \in PlacesOf(p) : chat[i].what # Excuse
  BY DEF Going, Own
<1>6. /\ PlacesOf(p)' = PlacesOf(p) \cup {new} /\ chat'[new].what = C[n]
      /\ \A i \in PlacesOf(p) : chat'[i] = chat[i]
  BY DEF Posted
<1>7. C[n] # Excuse
  BY <1>0, ChunkFacts
<1> HIDE DEF new
<1>8. Own(p)'
  BY <1>0, <1>5, <1>6, <1>7 DEF Going, Own
<1>9. ExcusedLast(p)'
  BY <1>5, <1>6, <1>7 DEF ExcusedLast
<1> QED  BY <1>2, <1>3, <1>4, <1>8, <1>9 DEF Going

\* A step that posts the excuse.
LEMMA ExcuseStep ==
  ASSUME Types, NEW p \in Pipeline, Going(p), Posted(p, Excuse),
         next'[p] = next[p], NEW a, step'[p] = a,
         step[p] \in {"excusing", "pleading"}, a \in {"pleading", "excused"}
  PROVE  Going(p)'
<1> DEFINE C == Chunks(p)
           new == Len(chat) + 1
<1>0. Len(C) \in Nat /\ next[p] \in Nat \ {0}
  BY ChunkFacts DEF Types
<1>1. \A k \in 1 .. Len(C) : PlacesOfChunk(p, k)' = PlacesOfChunk(p, k)
  BY PostedExcuse
<1>2. Reached(p)'
  BY <1>0, <1>1 DEF Going, Reached
<1>3. Seldom(p)'
  <2>1. \A k \in 1 .. Len(C) : May(p, k)' = May(p, k)
    BY DEF May
  <2> QED  BY <1>1, <2>1 DEF Going, Seldom
<1>4. Ordered(p)'
  <2>1. \A k \in 2 .. Len(C) : k \in 1 .. Len(C) /\ k - 1 \in 1 .. Len(C)
    BY <1>0
  <2> QED  BY <1>1, <2>1 DEF Going, Ordered
<1>5. /\ PlacesOf(p)' = PlacesOf(p) \cup {new} /\ chat'[new].what = Excuse
      /\ \A i \in PlacesOf(p) : chat'[i] = chat[i] /\ i < new /\ i \in Nat
      /\ new \in Nat
  BY DEF Posted
<1> HIDE DEF new
<1>6. Own(p)'
  BY <1>5 DEF Going, Own
<1>7. ExcusedLast(p)'
  BY <1>5 DEF Going, ExcusedLast
<1> QED  BY <1>2, <1>3, <1>4, <1>6, <1>7 DEF Going

-----------------------------------------------------------------------------
(* The theorems *)

LEMMA DeliveringInit == Init => Delivering
<1> SUFFICES ASSUME Init  PROVE Delivering
  OBVIOUS
<1>1. Types
  BY DEF Init, Types, Steps
<1>2. ASSUME NEW p \in Pipeline  PROVE Going(p)
  <2>1. /\ step[p] = "idle" /\ next[p] = 1 /\ PlacesOf(p) = {} /\ Len(Chunks(p)) \in Nat
        /\ \A k : PlacesOfChunk(p, k) = {}
    BY ChunkFacts DEF Init, PlacesOf, PlacesOfChunk
  <2>2. Reached(p)
    BY <2>1 DEF Reached
  <2>3. Cardinality({}) = 0
    BY FS_EmptySet
  <2>4. Seldom(p)
    <3>1. \A k \in 1 .. Len(Chunks(p)) : May(p, k) = 0
      BY <2>1 DEF May
    <3>2. \A k : Cardinality(PlacesOfChunk(p, k)) = 0
      BY <2>1, <2>3
    <3> QED  BY <3>1, <3>2 DEF Seldom
  <2>5. Ordered(p) /\ Own(p) /\ ExcusedLast(p)
    BY <2>1 DEF Ordered, Own, ExcusedLast
  <2> QED  BY <2>2, <2>4, <2>5 DEF Going
<1> QED  BY <1>1, <1>2 DEF Delivering

\* What a step of p does to the variables.
LEMMA StepShape ==
  ASSUME Types, NEW p \in Pipeline, NEW a \in Steps, Goes(p, a)
  PROVE  /\ step' \in [Pipeline -> Steps] /\ step'[p] = a
         /\ \A q \in Pipeline : q # p => step'[q] = step[q]
BY DEF Types, Goes

\* A call posts what it carries or nothing.
LEMMA CallShape ==
  ASSUME Types, NEW p \in Pipeline, NEW w \in Piece,
         NEW confirmed \in Steps, NEW failed \in Steps, Call(p, w, confirmed, failed)
  PROVE  /\ step' \in [Pipeline -> Steps] /\ chat' \in Seq(Message)
         /\ \A q \in Pipeline : q # p => step'[q] = step[q] /\ Silent(q)
         /\ \/ Posted(p, w) /\ step'[p] \in {confirmed, failed}
            \/ Silent(p) /\ step'[p] = failed
<1>1. CASE UNCHANGED chat /\ Goes(p, failed)
  BY <1>1, StepShape DEF Silent, PlacesOf, Types
<1>2. CASE /\ chat' = Append(chat, [by |-> p, what |-> w])
           /\ Goes(p, confirmed) \/ Goes(p, failed)
  <2>1. chat' \in Seq(Message) /\ Posted(p, w)
    BY <1>2, Posting
  <2>2. \A q \in Pipeline : q # p => Silent(q)
    BY <2>1 DEF Posted
  <2> QED  BY <1>2, <2>1, <2>2, StepShape
<1> QED  BY <1>1, <1>2 DEF Call

LEMMA DeliveringStep == Delivering /\ [Next]_vars => Delivering'
<1> SUFFICES ASSUME Delivering, [Next]_vars  PROVE Delivering'
  OBVIOUS
<1>0. Types /\ \A p \in Pipeline : Going(p)
  BY DEF Delivering
<1>1. CASE UNCHANGED vars
  <2>1. Types'
    BY <1>0, <1>1 DEF vars, Types
  <2>2. \A p \in Pipeline : Silent(p) /\ step'[p] = step[p] /\ next'[p] = next[p]
    BY <1>1 DEF vars, Silent, PlacesOf
  <2> QED  BY <1>0, <2>1, <2>2, OtherGoing DEF Delivering
<1>2. ASSUME NEW p \in Pipeline,
             \/ StartSending(p) \/ Reply(p) \/ Create(p) \/ Pause(p)
             \/ ExcuseReply(p) \/ ExcuseCreate(p)
      PROVE  Delivering'
  <2> DEFINE C == Chunks(p)
             n == next[p]
  <2>0. Going(p) /\ n \in Nat \ {0} /\ Len(C) \in Nat /\ C \in Seq(Piece)
    BY <1>0, ChunkFacts DEF Types
  <2>1. SUFFICES /\ Types' /\ Going(p)'
                 /\ \A q \in Pipeline : q # p => /\ step'[q] = step[q] /\ next'[q] = next[q]
                                                 /\ Silent(q)
    BY <1>0, OtherGoing DEF Delivering
  <2>2. CASE StartSending(p)
    <3> DEFINE a == IF C = <<>> THEN "sent" ELSE "replying"
    <3>1. Goes(p, a) /\ UNCHANGED <<next, chat>> /\ step[p] = "idle" /\ a \in Steps
      BY <2>2 DEF StartSending, Steps
    <3>2. C = <<>> <=> Len(C) = 0
      BY <2>0
    <3>3. /\ step' \in [Pipeline -> Steps] /\ step'[p] = a
          /\ \A q \in Pipeline : q # p => step'[q] = step[q]
      BY <1>0, <3>1, StepShape
    <3>4. \A q \in Pipeline : Silent(q)
      BY <3>1 DEF Silent, PlacesOf
    <3>5. Going(p)'
      BY <1>0, <2>0, <3>1, <3>2, <3>3, <3>4, SilentStep
    <3> QED  BY <1>0, <3>1, <3>3, <3>4, <3>5 DEF Types
  <2>3. CASE Pause(p)
    <3> DEFINE a == IF n < Len(C) THEN "creating" ELSE "sent"
    <3>1. Goes(p, a) /\ UNCHANGED chat /\ step[p] = "pausing" /\ a \in Steps
      BY <2>3 DEF Pause, Steps
    <3>2. next' = [next EXCEPT ![p] = n + 1] /\ n + 1 \in Nat \ {0}
      BY <2>0, <2>3 DEF Pause
    <3>3. /\ step' \in [Pipeline -> Steps] /\ step'[p] = a
          /\ \A q \in Pipeline : q # p => step'[q] = step[q]
      BY <1>0, <3>1, StepShape
    <3>4. /\ next' \in [Pipeline -> Nat \ {0}] /\ next'[p] = n + 1
          /\ \A q \in Pipeline : q # p => next'[q] = next[q]
      BY <1>0, <3>2 DEF Types
    <3>5. \A q \in Pipeline : Silent(q)
      BY <3>1 DEF Silent, PlacesOf
    <3>6. Going(p)'
      BY <1>0, <2>0, <3>1, <3>3, <3>4, <3>5, SilentStep
    <3> QED  BY <1>0, <3>1, <3>3, <3>4, <3>5, <3>6 DEF Types
  <2>4. ASSUME step[p] \in {"replying", "creating"}, next' = next,
               NEW failed \in {"creating", "excusing", "mute"}, Call(p, C[n], "pausing", failed),
               step[p] = "replying" <=> failed = "creating"
        PROVE  /\ Types' /\ Going(p)'
               /\ \A q \in Pipeline : q # p => step'[q] = step[q] /\ next'[q] = next[q] /\ Silent(q)
    <3>1. C[n] \in Piece
      BY <2>0, <2>4 DEF Going, Reached
    <3>2. "pausing" \in Steps /\ failed \in Steps
      BY DEF Steps
    <3>3. /\ step' \in [Pipeline -> Steps] /\ chat' \in Seq(Message)
          /\ \A q \in Pipeline : q # p => step'[q] = step[q] /\ Silent(q)
          /\ \/ Posted(p, C[n]) /\ step'[p] \in {"pausing", failed}
             \/ Silent(p) /\ step'[p] = failed
      BY <1>0, <2>4, <3>1, <3>2, CallShape
    <3>4. Going(p)'
      <4>1. CASE Posted(p, C[n]) /\ step'[p] \in {"pausing", failed}
        BY <1>0, <2>0, <2>4, <4>1, ChunkStep
      <4>2. CASE Silent(p) /\ step'[p] = failed
        BY <1>0, <2>0, <2>4, <4>2, SilentStep
      <4> QED  BY <3>3, <4>1, <4>2
    <3> QED  BY <1>0, <2>4, <3>3, <3>4 DEF Types
  <2>5. ASSUME step[p] \in {"excusing", "pleading"}, next' = next,
               NEW failed \in {"pleading", "excused"}, Call(p, Excuse, "excused", failed),
               step[p] = "excusing" <=> failed = "pleading"
        PROVE  /\ Types' /\ Going(p)'
               /\ \A q \in Pipeline : q # p => step'[q] = step[q] /\ next'[q] = next[q] /\ Silent(q)
    <3>1. Excuse \in Piece
      BY DEF Excuse, Piece
    <3>2. "excused" \in Steps /\ failed \in Steps
      BY DEF Steps
    <3>3. /\ step' \in [Pipeline -> Steps] /\ chat' \in Seq(Message)
          /\ \A q \in Pipeline : q # p => step'[q] = step[q] /\ Silent(q)
          /\ \/ Posted(p, Excuse) /\ step'[p] \in {"excused", failed}
             \/ Silent(p) /\ step'[p] = failed
      BY <1>0, <2>5, <3>1, <3>2, CallShape
    <3>4. Going(p)'
      <4>1. CASE Posted(p, Excuse) /\ step'[p] \in {"excused", failed}
        BY <1>0, <2>0, <2>5, <4>1, ExcuseStep
      <4>2. CASE Silent(p) /\ step'[p] = failed
        BY <1>0, <2>0, <2>5, <4>2, SilentStep
      <4> QED  BY <3>3, <4>1, <4>2
    <3> QED  BY <1>0, <2>5, <3>3, <3>4 DEF Types
  <2>6. CASE Reply(p) \/ Create(p)
    BY <2>4, <2>6 DEF Reply, Create
  <2>7. CASE ExcuseReply(p) \/ ExcuseCreate(p)
    BY <2>5, <2>7 DEF ExcuseReply, ExcuseCreate
  <2> QED  BY <1>2, <2>2, <2>3, <2>6, <2>7
<1> QED  BY <1>1, <1>2 DEF Next

LEMMA Delivered == Spec => []Delivering
BY DeliveringInit, DeliveringStep, PTL DEF Spec

\* The types; a pipeline whose next chunk does not exist has sent its answer, or
\* has an answer without text.
THEOREM TypeCorrect == Spec => []TypeOK
<1>1. Delivering => TypeOK
  <2> SUFFICES ASSUME Delivering  PROVE TypeOK
    OBVIOUS
  <2>1. Types /\ \A p \in Pipeline : Reached(p)
    BY DEF Delivering, Going
  <2>2. ASSUME NEW p \in Pipeline, next[p] > Len(Chunks(p))
        PROVE  step[p] \in {"idle", "sent"}
    BY <2>1, <2>2, ChunkFacts DEF Types, Reached
  <2> QED  BY <2>1, <2>2 DEF TypeOK, Types, Message, Piece
<1> QED  BY <1>1, Delivered, PTL

\* Whatever fails and whoever else posts, no piece of an answer is in the chat
\* before the piece that precedes it (the loop over the chunks stops at the
\* first that could not be sent).
THEOREM ChunksInOrder == Spec => []InOrder
<1>1. Delivering => InOrder
  BY DEF Delivering, Going, Ordered, InOrder
<1> QED  BY <1>1, Delivered, PTL

\* Only the first chunk can be doubled, by a reply that was posted though its
\* call failed (sendFeishuReply falls back to a plain message).
THEOREM RepeatsAreFirst == Spec => []OnlyFirstTwice
<1>1. Delivering => OnlyFirstTwice
  <2> SUFFICES ASSUME Delivering, NEW p \in Pipeline, NEW k \in 1 .. Len(Chunks(p))
               PROVE  Cardinality(PlacesOfChunk(p, k)) <= IF k = 1 THEN 2 ELSE 1
    BY DEF OnlyFirstTwice
  <2>1. Types /\ Cardinality(PlacesOfChunk(p, k)) <= May(p, k)
    BY DEF Delivering, Going, Seldom
  <2>2. Cardinality(PlacesOfChunk(p, k)) \in Nat
    BY <2>1, FewPlaces
  <2> QED  BY <2>1, <2>2 DEF May
<1> QED  BY <1>1, Delivered, PTL

\* After the excuse a pipeline says nothing but the excuse, and never counts its
\* answer as sent (the catch block of processAggregatedMessage).
THEOREM NothingAfterExcuse == Spec => []ExcuseIsLast
<1>1. Delivering => ExcuseIsLast
  BY DEF Delivering, Going, Own, ExcusedLast, ExcuseIsLast
<1> QED  BY <1>1, Delivered, PTL

\* An answer that counts as sent is in the chat without a gap, an overlap or a
\* piece above the limit, for every text and every limit (chunkReply).
THEOREM AnswersAreWhole == Spec => []SentIsWhole
<1>1. Delivering => SentIsWhole
  <2> SUFFICES ASSUME Delivering, NEW p \in Pipeline, step[p] = "sent",
                      NEW i \in DOMAIN Lines[p], NEW c \in 0..(Lines[p][i] - 1)
               PROVE  LET covering == {chat[j].what : j \in {j \in PlacesOf(p) :
                                         /\ chat[j].what.line = i
                                         /\ chat[j].what.from <= c /\ c < chat[j].what.to}}
                      IN  /\ Cardinality(covering) = 1
                          /\ \A piece \in covering : piece.to - piece.from <= Limit
    BY Zenon DEF SentIsWhole
  <2> DEFINE C == Chunks(p)
             N == Len(Lines[p])
             places == {j \in PlacesOf(p) : /\ chat[j].what.line = i
                                            /\ chat[j].what.from <= c /\ c < chat[j].what.to}
             covering == {chat[j].what : j \in places}
  <2>1. Lines[p] \in Seq(Nat) /\ N \in Nat /\ i \in 1 .. N /\ Lines[p][i] \in Nat /\ c \in Nat
    BY LinesType
  <2>2. Cut(C, 1 .. N) /\ Whole(C, i, Lines[p][i])
    BY <2>1, ChunksAre DEF Chunks
  <2>3. next[p] = Len(C) + 1 /\ Len(C) \in Nat /\ Reached(p) /\ Own(p)
    BY ChunkFacts DEF Delivering, Going, Reached
  <2>4. PICK k \in 1 .. Len(C) : Holds(C[k], i, c)
    BY <2>2 DEF Whole
  <2>5. PlacesOfChunk(p, k) # {}
    BY <2>3 DEF Reached
  <2>6. C[k] \in covering
    <3>1. PICK j \in PlacesOf(p) : chat[j].what = C[k]
      BY <2>5 DEF PlacesOfChunk
    <3>2. j \in places
      BY <2>4, <3>1 DEF Holds
    <3> QED  BY <3>1, <3>2
  <2>7. ASSUME NEW x \in covering  PROVE x = C[k]
    <3>1. PICK j \in PlacesOf(p) : x = chat[j].what /\ Holds(x, i, c)
      BY DEF Holds
    <3>2. x # Excuse
      BY <2>1, <3>1 DEF Holds, Excuse
    <3>3. PICK l \in 1 .. Len(C) : x = C[l]
      BY <2>3, <3>1, <3>2 DEF Own
    <3>4. l = k
      BY <2>1, <2>2, <2>4, <3>1, <3>3 DEF Cut
    <3> QED  BY <3>3, <3>4
  <2>8. covering = {C[k]} /\ C[k].to - C[k].from <= Limit
    <3>1. covering = {C[k]}
      BY <2>6, <2>7
    <3>2. C[k].to - C[k].from <= Limit
      BY <2>2 DEF Cut
    <3> QED  BY <3>1, <3>2
  <2> HIDE DEF covering
  <2>9. Cardinality(covering) = 1 /\ \A piece \in covering : piece.to - piece.from <= Limit
    BY <2>8, FS_Singleton
  <2> QED  BY <2>9 DEF covering
<1> QED  BY <1>1, Delivered, PTL

=============================================================================
