-------------------------- MODULE Encodings_proofs --------------------------
(***************************************************************************)
(* A call of transcode.  First the operators of module Transcoding, for    *)
(* every source: sizes, texts and counts.  Then what decode_encode does    *)
(* with its two outbufs (module BufferedEncoder), for every sequence of    *)
(* code points and every window.  At the end, of the whole call, the       *)
(* properties of both levels.                                              *)
(*                                                                         *)
(* The size functions are exact, whatever the source: necessary_size says  *)
(* how many units the transcoder will write, or decode_encode.             *)
(*                                                                         *)
(* The two are loops of their own, which step through a source by their    *)
(* own tests.  One lemma for each kind of source (Step8, Step16, Step32,   *)
(* StepByte, StepTwice) shows that from any place they take as many units  *)
(* and that as many units are counted as are written; the rest is a        *)
(* balance that every step keeps (Balanced): what has been written, what   *)
(* the code points in the mini buffer will take, and what is counted from  *)
(* the first unit not yet read, is all that is counted.                    *)
(*                                                                         *)
(* A fill character is written as the transcoder would write it            *)
(* (FillIsWritten), and as long as char_size says (CharSizeIs).            *)
(*                                                                         *)
(* And the text is right.  Every transcoder reads the character that the   *)
(* encoding has at the front of the rest of its source (ReadIsCharacter,   *)
(* from the table of well-formed sequences, the ranges of surrogates and   *)
(* the tables of the single-byte encodings); what it writes is what the    *)
(* encoding has for that character or its replacement (WrittenIs); and     *)
(* whoever reads the destination gets back what was written, however the   *)
(* text goes on (RoundTrip, Reads).  The invariant (TextInv, Progress)     *)
(* splits the characters of the source in those written, those in the mini *)
(* buffer and those not yet read.                                          *)
(*                                                                         *)
(* codepoints_count, which recognises the beginnings of characters only,   *)
(* counts the characters of a source that is valid (CountIsLength).        *)
(***************************************************************************)
EXTENDS Encodings, FlushingWriters_proofs, FiniteSetTheorems, WellFoundedInduction

-----------------------------------------------------------------------------
(* Induction, recursive functions and sums.                                *)
LEMMA Smallest ==
  ASSUME NEW T, T \subseteq Nat, T # {}
  PROVE  \E x \in T : \A y \in T : x <= y
<1>. DEFINE R == {p \in Nat \X Nat : p[1] < p[2]}
<1>1. R = OpToRel(<, Nat)
  BY DEF OpToRel
<1>2. IsWellFoundedOn(R, Nat)
  BY <1>1, NatLessThanWellFounded
<1>. HIDE DEF R
<1>3. PICK x \in T : \A y \in T : ~(<<y, x>> \in R)
  BY <1>2, WFMin
<1>4. ASSUME NEW y \in T PROVE x <= y
  <2>1. x \in Nat /\ y \in Nat
    OBVIOUS
  <2>2. y < x => <<y, x>> \in R
    BY <2>1 DEF R
  <2>. QED BY <1>3, <2>1, <2>2
<1>. QED BY <1>4

LEMMA Induct ==
  ASSUME NEW S, 0 \in S, \A n \in Nat : n \in S => n + 1 \in S
  PROVE  \A n \in Nat : n \in S
<1>. DEFINE T == {n \in Nat : n \notin S}
<1>1. ASSUME T # {} PROVE FALSE
  <2>1. PICK x \in T : \A y \in T : x <= y
    BY <1>1, Smallest
  <2>2. x # 0 /\ x \in Nat
    OBVIOUS
  <2>3. x - 1 \in Nat /\ x - 1 \notin T
    BY <2>1, <2>2
  <2>4. (x - 1) + 1 \in S
    BY <2>3
  <2>. QED BY <2>2, <2>4
<1>. QED BY <1>1

(* A count that goes through a sequence from its front: z[i] for what is   *)
(* at i, and then u[i] units on.  Such a function exists, and any function *)
(* that satisfies its equation counts like it.                             *)
LEMMA CountExists ==
  ASSUME NEW n \in Nat, NEW z \in [1 .. n -> Nat], NEW u \in [1 .. n -> Nat],
         \A i \in 1 .. n : u[i] >= 1 /\ i + u[i] <= n + 1
  PROVE  \E f : f = [i \in 1 .. n + 1 |-> IF i > n THEN 0 ELSE z[i] + f[i + u[i]]]
<1>. DEFINE Good(k, f) == /\ f \in [1 .. n + 1 -> Nat] /\ f[n + 1] = 0
                          /\ \A i \in 1 .. n : i > n - k => f[i] = z[i] + f[i + u[i]]
            S == {k \in Nat : \E f : Good(k, f)}
<1>1. 0 \in S
  <2>1. Good(0, [i \in 1 .. n + 1 |-> 0])
    OBVIOUS
  <2>. QED BY <2>1
<1>2. ASSUME NEW k \in Nat, k \in S PROVE k + 1 \in S
  <2>1. PICK f : Good(k, f)
    BY <1>2
  <2>2. CASE n - k \notin 1 .. n
    <3>1. Good(k + 1, f) /\ k + 1 \in Nat
      BY <2>1, <2>2
    <3>. HIDE DEF Good
    <3>. QED BY <3>1, Zenon
  <2>3. CASE n - k \in 1 .. n
    <3>. DEFINE j == n - k
                g == [f EXCEPT ![j] = z[j] + f[j + u[j]]]
    <3>1. j \in 1 .. n /\ z[j] \in Nat /\ u[j] \in Nat /\ j + u[j] \in 1 .. n + 1
      BY <2>3
    <3>2. f \in [1 .. n + 1 -> Nat] /\ f[j + u[j]] \in Nat
      BY <2>1, <3>1
    <3>3. g \in [1 .. n + 1 -> Nat]
      <4>. DEFINE v == z[j] + f[j + u[j]]
      <4>1. v \in Nat
        <5>1. \A a, b \in Nat : a + b \in Nat
          OBVIOUS
        <5>. QED BY <3>1, <3>2, <5>1, Zenon
      <4>. HIDE DEF v
      <4>2. [f EXCEPT ![j] = v] \in [1 .. n + 1 -> Nat]
        BY <3>2, <4>1
      <4>. QED BY <4>2, Zenon DEF v
    <3>4. g[n + 1] = 0
      BY <2>1, <3>1
    <3>5. ASSUME NEW i \in 1 .. n, i > n - (k + 1) PROVE g[i] = z[i] + g[i + u[i]]
      <4>1. i = j \/ i > n - k
        BY <3>1, <3>5
      <4>2. u[i] \in Nat /\ u[i] >= 1 /\ i + u[i] \in 1 .. n + 1 /\ i + u[i] # j
        <5>1. u[i] \in Nat /\ u[i] >= 1 /\ i + u[i] <= n + 1
          OBVIOUS
        <5>2. i \in Nat /\ i >= 1 /\ j \in Nat /\ i >= j
          BY <3>1, <4>1
        <5>. QED BY <5>1, <5>2
      <4>3. g[i + u[i]] = f[i + u[i]]
        BY <3>2, <4>2
      <4>4. CASE i = j
        <5>1. g[i] = z[j] + f[j + u[j]]
          BY <3>1, <3>2, <4>4
        <5>. QED BY <4>3, <4>4, <5>1
      <4>5. CASE i > n - k
        <5>1. g[i] = f[i]
          BY <3>1, <3>2, <4>5
        <5>2. f[i] = z[i] + f[i + u[i]]
          BY <2>1, <4>5
        <5>. QED BY <4>3, <5>1, <5>2
      <4>. QED BY <4>1, <4>4, <4>5
    <3>. HIDE DEF g
    <3>6. Good(k + 1, g) /\ k + 1 \in Nat
      BY <3>3, <3>4, <3>5
    <3>. HIDE DEF Good
    <3>. QED BY <3>6, Zenon
  <2>. QED BY <2>2, <2>3
<1>. HIDE DEF S
<1>3. \A k \in Nat : k \in S
  BY <1>1, <1>2, Induct
<1>4. PICK f : Good(n, f)
  BY <1>3 DEF S
<1>5. f = [i \in 1 .. n + 1 |-> IF i > n THEN 0 ELSE z[i] + f[i + u[i]]]
  <2>. DEFINE g == [i \in 1 .. n + 1 |-> IF i > n THEN 0 ELSE z[i] + f[i + u[i]]]
  <2>1. ASSUME NEW i \in 1 .. n + 1 PROVE f[i] = g[i]
    <3>1. CASE i = n + 1
      BY <1>4, <3>1
    <3>2. CASE i \in 1 .. n
      <4>1. f[i] = z[i] + f[i + u[i]]
        BY <1>4, <3>2
      <4>2. g[i] = z[i] + f[i + u[i]]
        BY <3>2
      <4>. QED BY <4>1, <4>2
    <3>. QED BY <3>1, <3>2
  <2>2. f \in [1 .. n + 1 -> Nat] /\ DOMAIN g = 1 .. n + 1 /\ g = [i \in 1 .. n + 1 |-> g[i]]
    BY <1>4
  <2>. HIDE DEF g
  <2>3. f = g
    BY <2>1, <2>2
  <2>. QED BY <2>3 DEF g
<1>. QED BY <1>5

LEMMA CountDown ==
  ASSUME NEW n \in Nat, NEW z \in [1 .. n -> Nat], NEW u \in [1 .. n -> Nat],
         \A i \in 1 .. n : u[i] >= 1 /\ i + u[i] <= n + 1,
         NEW f, f = [i \in 1 .. n + 1 |-> IF i > n THEN 0 ELSE z[i] + f[i + u[i]]]
  PROVE  /\ f \in [1 .. n + 1 -> Nat] /\ f[n + 1] = 0
         /\ \A i \in 1 .. n : f[i] = z[i] + f[i + u[i]]
<1>1. f = [i \in 1 .. n + 1 |-> IF i > n THEN 0 ELSE z[i] + f[i + u[i]]]
  OBVIOUS
<1>2. DOMAIN f = 1 .. n + 1
  BY <1>1, Zenon
<1>3. f[n + 1] = 0
  <2>1. n + 1 \in 1 .. n + 1 /\ n + 1 > n
    OBVIOUS
  <2>. QED BY <1>1, <2>1, Zenon
<1>4. \A i \in 1 .. n : f[i] = z[i] + f[i + u[i]]
  <2>1. \A i \in 1 .. n : i \in 1 .. n + 1 /\ ~(i > n)
    OBVIOUS
  <2>. QED BY <1>1, <2>1, Zenon
<1>. DEFINE S == {k \in Nat : \A i \in 1 .. n + 1 : i >= n + 1 - k => f[i] \in Nat}
<1>5. 0 \in S
  BY <1>3
<1>6. ASSUME NEW k \in Nat, k \in S PROVE k + 1 \in S
  <2>1. ASSUME NEW i \in 1 .. n + 1, i >= n + 1 - (k + 1) PROVE f[i] \in Nat
    <3>1. CASE i >= n + 1 - k
      BY <1>6, <3>1
    <3>2. CASE i < n + 1 - k
      <4>1. i \in 1 .. n /\ i + 1 >= n + 1 - k
        BY <2>1, <3>2
      <4>2. z[i] \in Nat /\ u[i] \in Nat /\ u[i] >= 1 /\ i + u[i] \in 1 .. n + 1
        BY <4>1
      <4>3. f[i + u[i]] \in Nat
        <5>1. i + u[i] >= n + 1 - k
          BY <4>1, <4>2
        <5>. QED BY <1>6, <4>2, <5>1, Zenon
      <4>4. f[i] = z[i] + f[i + u[i]]
        BY <1>4, <4>1
      <4>. QED BY <4>2, <4>3, <4>4
    <3>. QED BY <3>1, <3>2
  <2>. QED BY <2>1
<1>. HIDE DEF S
<1>7. \A k \in Nat : k \in S
  BY <1>5, <1>6, Induct
<1>8. \A i \in 1 .. n + 1 : f[i] \in Nat
  <2>1. n \in S
    BY <1>7
  <2>2. \A i \in 1 .. n + 1 : i >= n + 1 - n
    OBVIOUS
  <2>. QED BY <2>1, <2>2, Zenon DEF S
<1>9. f = [i \in 1 .. n + 1 |-> f[i]]
  BY <1>1, Zenon
<1>10. f \in [1 .. n + 1 -> Nat]
  BY <1>8, <1>9
<1>. QED BY <1>3, <1>4, <1>10

(* The lengths of sequences add up in the one that all are joined to.      *)
LEMMA JoinExists ==
  ASSUME NEW seqs, NEW n \in Nat
  PROVE  \E g : g = [i \in 1 .. n |-> IF i = 1 THEN seqs[i] ELSE g[i - 1] \o seqs[i]]
<1>. DEFINE Joining(g, i) == IF i = 1 THEN seqs[i] ELSE g[i - 1] \o seqs[i]
            S == {k \in Nat : \E g : /\ DOMAIN g = 1 .. k /\ g = [i \in 1 .. k |-> g[i]]
                                     /\ \A i \in 1 .. k : g[i] = Joining(g, i)}
<1>1. 0 \in S
  <2>. DEFINE g == [i \in 1 .. 0 |-> 0]
  <2>1. DOMAIN g = 1 .. 0 /\ g = [i \in 1 .. 0 |-> g[i]] /\ \A i \in 1 .. 0 : g[i] = Joining(g, i)
    OBVIOUS
  <2>. QED BY <2>1
<1>2. ASSUME NEW k \in Nat, k \in S PROVE k + 1 \in S
  <2>1. PICK g : DOMAIN g = 1 .. k /\ \A i \in 1 .. k : g[i] = Joining(g, i)
    BY <1>2
  <2>. DEFINE h == [i \in 1 .. k + 1 |-> IF i <= k THEN g[i] ELSE Joining(g, i)]
  <2>2. DOMAIN h = 1 .. k + 1 /\ h = [i \in 1 .. k + 1 |-> h[i]]
    BY Zenon
  <2>3. ASSUME NEW i \in 1 .. k + 1 PROVE h[i] = Joining(h, i)
    <3>1. h[i] = Joining(g, i)
      <4>1. i <= k => i \in 1 .. k
        OBVIOUS
      <4>2. h[i] = IF i <= k THEN g[i] ELSE Joining(g, i)
        BY Zenon
      <4>. HIDE DEF h, Joining
      <4>. QED BY <2>1, <4>1, <4>2, Zenon
    <3>2. i # 1 => h[i - 1] = g[i - 1]
      <4>1. i # 1 => i - 1 \in 1 .. k + 1 /\ i - 1 <= k
        OBVIOUS
      <4>. QED BY <4>1, Zenon
    <3>. HIDE DEF h
    <3>. QED BY <3>1, <3>2, Zenon
  <2>4. k + 1 \in Nat
    OBVIOUS
  <2>. HIDE DEF h, Joining
  <2>. QED BY <2>2, <2>3, <2>4, Zenon
<1>. HIDE DEF S
<1>3. n \in S
  BY <1>1, <1>2, Induct
<1>4. PICK g : g = [i \in 1 .. n |-> g[i]] /\ \A i \in 1 .. n : g[i] = Joining(g, i)
  BY <1>3, Zenon DEF S
<1>5. [i \in 1 .. n |-> g[i]] = [i \in 1 .. n |-> Joining(g, i)]
  BY <1>4
<1>6. g = [i \in 1 .. n |-> Joining(g, i)]
  BY <1>4, <1>5, Zenon
<1>. QED BY <1>6, Zenon

LEMMA JoinedLength ==
  ASSUME NEW A, NEW seqs \in Seq(Seq(A)), NEW S \in [0 .. Len(seqs) -> Nat], S[0] = 0,
         \A i \in 1 .. Len(seqs) : S[i] = S[i - 1] + Len(seqs[i])
  PROVE  FlattenSeq(seqs) \in Seq(A) /\ Len(FlattenSeq(seqs)) = S[Len(seqs)]
<1>. DEFINE n == Len(seqs)
<1>1. CASE n = 0
  <2>1. FlattenSeq(seqs) = <<>>
    BY <1>1 DEF FlattenSeq
  <2>. QED BY <1>1, <2>1
<1>2. CASE n # 0
  <2>. DEFINE g == CHOOSE g : g = [i \in 1 .. n |-> IF i = 1 THEN seqs[i] ELSE g[i - 1] \o seqs[i]]
  <2>1. FlattenSeq(seqs) = g[n]
    BY <1>2, Zenon DEF FlattenSeq
  <2>2. g = [i \in 1 .. n |-> IF i = 1 THEN seqs[i] ELSE g[i - 1] \o seqs[i]]
    <3>1. n \in Nat
      OBVIOUS
    <3>. HIDE DEF n
    <3>2. \E f : f = [i \in 1 .. n |-> IF i = 1 THEN seqs[i] ELSE f[i - 1] \o seqs[i]]
      BY <3>1, JoinExists, Zenon
    <3>. QED BY <3>2, Zenon
  <2>. HIDE DEF g
  <2>3. /\ \A i \in 1 .. n : i = 1 => g[i] = seqs[i]
        /\ \A i \in 1 .. n : i # 1 => g[i] = g[i - 1] \o seqs[i]
    BY <2>2, Zenon
  <2>. DEFINE T == {k \in Nat : k + 1 \in 1 .. n => g[k + 1] \in Seq(A) /\ Len(g[k + 1]) = S[k + 1]}
  <2>4. 0 \in T
    <3>1. 1 \in 1 .. n /\ seqs[1] \in Seq(A) /\ S[1] = Len(seqs[1])
      BY <1>2
    <3>. QED BY <2>3, <3>1
  <2>5. ASSUME NEW k \in Nat, k \in T PROVE k + 1 \in T
    <3>1. ASSUME k + 2 \in 1 .. n
          PROVE  g[k + 2] \in Seq(A) /\ Len(g[k + 2]) = S[k + 2]
      <4>1. k + 1 \in 1 .. n /\ (k + 2) - 1 = k + 1 /\ k + 2 # 1
        BY <3>1
      <4>2. g[k + 1] \in Seq(A) /\ Len(g[k + 1]) = S[k + 1] /\ seqs[k + 2] \in Seq(A)
        BY <2>5, <3>1, <4>1
      <4>3. g[k + 2] = g[k + 1] \o seqs[k + 2]
        BY <2>3, <3>1, <4>1
      <4>4. S[k + 2] = S[k + 1] + Len(seqs[k + 2])
        BY <3>1, <4>1
      <4>. QED BY <4>2, <4>3, <4>4, ConcatProperties
    <3>2. (k + 1) + 1 = k + 2
      OBVIOUS
    <3>. QED BY <3>1, <3>2
  <2>. HIDE DEF T
  <2>6. n - 1 \in T
    <3>1. n - 1 \in Nat
      BY <1>2
    <3>2. \A k \in Nat : k \in T
      BY <2>4, <2>5, Induct
    <3>. QED BY <3>1, <3>2
  <2>7. (n - 1) + 1 = n /\ n \in 1 .. n
    BY <1>2
  <2>. QED BY <2>1, <2>6, <2>7 DEF T
<1>. QED BY <1>1, <1>2

-----------------------------------------------------------------------------
(* UTF-8: what is taken for a character is one, in its shortest form.      *)
Points == {c \in Nat : c <= 1114111}

LEMMA ReachedThree ==
  ASSUME NEW n \in Nat, NEW a \in Nat, NEW b \in Nat, NEW d \in Nat, a < b, b < d
  PROVE  Reached(n, {a, b, d}) = IF n < a THEN 0 ELSE IF n < b THEN 1
                                      ELSE IF n < d THEN 2 ELSE 3
<1>. DEFINE R == {t \in {a, b, d} : n >= t}
<1>1. Reached(n, {a, b, d}) = Cardinality(R)
  BY Zenon DEF Reached
<1>2. n < a => R = {}
  OBVIOUS
<1>3. n >= a /\ n < b => R = {a}
  OBVIOUS
<1>4. n >= b /\ n < d => R = {a} \cup {b}
  OBVIOUS
<1>5. n >= d => R = ({a} \cup {b}) \cup {d}
  OBVIOUS
<1>. HIDE DEF R
<1>6. Cardinality({}) = 0 /\ Cardinality({a}) = 1 /\ IsFiniteSet({a})
  BY FS_EmptySet, FS_Singleton, Zenon
<1>7. b \notin {a} /\ d \notin {a} \cup {b}
  OBVIOUS
<1>8. Cardinality({a} \cup {b}) = 2 /\ IsFiniteSet({a} \cup {b})
  BY <1>6, <1>7, FS_AddElement
<1>9. Cardinality(({a} \cup {b}) \cup {d}) = 3
  BY <1>7, <1>8, FS_AddElement
<1>10. Cardinality(R) = IF n < a THEN 0 ELSE IF n < b THEN 1 ELSE IF n < d THEN 2 ELSE 3
  <2>1. CASE n < a
    BY <1>2, <1>6, <2>1
  <2>2. CASE n >= a /\ n < b
    BY <1>3, <1>6, <2>2
  <2>3. CASE n >= b /\ n < d
    BY <1>4, <1>8, <2>3
  <2>4. CASE n >= d
    BY <1>5, <1>9, <2>4
  <2>. QED BY <2>1, <2>2, <2>3, <2>4
<1>. QED BY <1>1, <1>10

LEMMA ReachedTwo ==
  ASSUME NEW n \in Nat, NEW a \in Nat, NEW b \in Nat, a < b
  PROVE  Reached(n, {a, b}) = IF n < a THEN 0 ELSE IF n < b THEN 1 ELSE 2
<1>. DEFINE R == {t \in {a, b} : n >= t}
<1>1. Reached(n, {a, b}) = Cardinality(R)
  BY Zenon DEF Reached
<1>2. n < a => R = {}
  OBVIOUS
<1>3. n >= a /\ n < b => R = {a}
  OBVIOUS
<1>4. n >= b => R = {a} \cup {b}
  OBVIOUS
<1>. HIDE DEF R
<1>6. Cardinality({}) = 0 /\ Cardinality({a}) = 1 /\ IsFiniteSet({a})
  BY FS_EmptySet, FS_Singleton, Zenon
<1>7. b \notin {a}
  OBVIOUS
<1>8. Cardinality({a} \cup {b}) = 2
  BY <1>6, <1>7, FS_AddElement
<1>10. Cardinality(R) = IF n < a THEN 0 ELSE IF n < b THEN 1 ELSE 2
  <2>1. CASE n < a
    BY <1>2, <1>6, <2>1
  <2>2. CASE n >= a /\ n < b
    BY <1>3, <1>6, <2>2
  <2>3. CASE n >= b
    BY <1>4, <1>8, <2>3
  <2>. QED BY <2>1, <2>2, <2>3
<1>. QED BY <1>1, <1>10

(* How many units UTF-8 has for a code point. *)
Size8(c) == IF c < 128 THEN 1 ELSE IF c < 2048 THEN 2 ELSE IF c < 65536 THEN 3 ELSE 4

LEMMA Reached8 == \A c \in Nat : 1 + Reached(c, {128, 2048, 65536}) = Size8(c)
<1>. SUFFICES ASSUME NEW c \in Nat PROVE 1 + Reached(c, {128, 2048, 65536}) = Size8(c)
  OBVIOUS
<1>1. Reached(c, {128, 2048, 65536}) = IF c < 128 THEN 0 ELSE IF c < 2048 THEN 1
                                      ELSE IF c < 65536 THEN 2 ELSE 3
  BY ReachedThree
<1>. QED BY SMT, <1>1 DEF Size8

LEMMA Encode8Length == \A c \in Nat : Encode8(c) \in Seq(Nat) /\ Len(Encode8(c)) = Size8(c)
  BY SMT DEF Encode8, Size8

LEMMA SeqLengthIs ==
  ASSUME NEW b \in Bytes
  PROVE  SeqLength(b) = IF b < 192 THEN 1 ELSE IF b < 224 THEN 2 ELSE IF b < 240 THEN 3 ELSE 4
<1>1. Reached(b, {192, 224, 240}) = IF b < 192 THEN 0 ELSE IF b < 224 THEN 1
                                      ELSE IF b < 240 THEN 2 ELSE 3
  BY ReachedThree DEF Bytes
<1>. QED BY <1>1 DEF SeqLength, Bytes

LEMMA MaxOfFour ==
  ASSUME NEW S, S \subseteq 1 .. 4, 1 \in S
  PROVE  Max(S) \in S /\ \A y \in S : Max(S) >= y
<1>1. \E x \in S : \A y \in S : x >= y
  <2>1. CASE 4 \in S
    BY <2>1
  <2>2. CASE 3 \in S /\ 4 \notin S
    BY <2>2
  <2>3. CASE 2 \in S /\ 3 \notin S /\ 4 \notin S
    BY <2>3
  <2>4. CASE 2 \notin S /\ 3 \notin S /\ 4 \notin S
    BY <2>4
  <2>. QED BY <2>1, <2>2, <2>3, <2>4
<1>. QED BY <1>1 DEF Max

(* What is taken for a piece. *)
LEMMA TakenFits ==
  ASSUME NEW s \in Seq(Bytes), s # <<>>, NEW lax \in BOOLEAN, NEW top \in Nat
  PROVE  LET n == Taken(s, lax, top)
         IN /\ n \in 1 .. 4 /\ n <= Len(s)
            /\ n > 1 => /\ n <= SeqLength(s[1]) /\ LeadOK(s[1], top)
                        /\ SecondOK(s[1], s[2], lax)
                        /\ \A i \in 3 .. n : Continuation(s[i])
<1>. DEFINE fits(k) == /\ k <= Len(s) /\ k <= SeqLength(s[1])
                       /\ LeadOK(s[1], top) /\ SecondOK(s[1], s[2], lax)
                       /\ \A i \in 3 .. k : Continuation(s[i])
            S == {1} \cup {k \in 2 .. Lesser(4, Len(s)) : fits(k)}
<1>1. Taken(s, lax, top) = Max(S)
  BY Zenon DEF Taken
<1>2. S \subseteq 1 .. 4 /\ 1 \in S
  BY DEF Lesser
<1>3. Max(S) \in S
  BY <1>2, MaxOfFour
<1>4. Len(s) >= 1
  OBVIOUS
<1>. QED BY <1>1, <1>2, <1>3, <1>4

LEMMA LeadCases ==
  ASSUME NEW b \in Bytes, NEW top \in Nat, top <= 255, LeadOK(b, top)
  PROVE  /\ SeqLength(b) \in 1 .. 4
         /\ SeqLength(b) = 1 => b < 128
         /\ SeqLength(b) = 2 => b >= 194 /\ b < 224
         /\ SeqLength(b) = 3 => b >= 224 /\ b < 240
         /\ SeqLength(b) = 4 => b >= 240
  BY SMT, SeqLengthIs DEF LeadOK, Bytes

LEMMA TwoUnits ==
  ASSUME NEW a \in Nat, a >= 194, a < 224, NEW b \in Nat
  PROVE  LET v == (a % 32) * 64 + (b % 64) IN v \in Nat /\ v >= 128 /\ v <= 2047
<1>1. a % 32 = a - 192 /\ b % 64 \in 0 .. 63
  BY SMT
<1>. DEFINE x == a % 32
            y == b % 64
<1>. HIDE DEF x, y
<1>. QED BY SMT, <1>1 DEF x, y

LEMMA ThreeParts ==
  ASSUME NEW p \in 0 .. 15, NEW q \in 0 .. 63, NEW r \in 0 .. 63, p = 0 => q >= 32
  PROVE  LET v == p * 4096 + q * 64 + r IN v \in Nat /\ v >= 2048 /\ v <= 65535
  BY SMT

LEMMA FourParts ==
  ASSUME NEW p \in 0 .. 7, NEW q \in 0 .. 63, NEW r \in 0 .. 63, NEW u \in 0 .. 63,
         p * 64 + q >= 16, p * 64 + q <= 271
  PROVE  LET v == p * 262144 + q * 4096 + r * 64 + u
         IN v \in Nat /\ v >= 65536 /\ v <= 1114111
  BY SMT

LEMMA ThreeUnits ==
  ASSUME NEW a \in Nat, a >= 224, a < 240, NEW b \in Nat, b >= 128, b < 192, NEW c \in Nat,
         a = 224 => b >= 160
  PROVE  LET v == (a % 16) * 4096 + (b % 64) * 64 + (c % 64)
         IN v \in Nat /\ v >= 2048 /\ v <= 65535
<1>1. /\ a % 16 \in 0 .. 15 /\ b % 64 \in 0 .. 63 /\ c % 64 \in 0 .. 63
      /\ a % 16 = 0 => b % 64 >= 32
  BY SMT
<1>. QED BY SMT, <1>1, ThreeParts

LEMMA FourUnits ==
  ASSUME NEW a \in Nat, NEW b \in Nat, NEW c \in Nat, NEW d \in Nat,
         (a % 8) * 64 + (b % 64) >= 16, (a % 8) * 64 + (b % 64) <= 271
  PROVE  LET v == (a % 8) * 262144 + (b % 64) * 4096 + (c % 64) * 64 + (d % 64)
         IN v \in Nat /\ v >= 65536 /\ v <= 1114111
<1>1. a % 8 \in 0 .. 7 /\ b % 64 \in 0 .. 63 /\ c % 64 \in 0 .. 63 /\ d % 64 \in 0 .. 63
  BY SMT
<1>. QED BY SMT, <1>1, FourParts

LEMMA Continues == ASSUME NEW b \in Bytes, Continuation(b) PROVE b >= 128 /\ b < 192
  BY SMT DEF Continuation, Bytes

(* The units of a whole sequence: the number they stand for is one that    *)
(* has as many units, so no character has two forms.                       *)
LEMMA OneUnitWhole ==
  ASSUME NEW t, Len(t) = 1, NEW b1 \in Bytes, t[1] = b1, NEW top \in Nat, top <= 255,
         SeqLength(b1) = 1, LeadOK(b1, top)
  PROVE  Value8(t) \in Points /\ Size8(Value8(t)) = 1
<1>1. Value8(t) = b1
  BY SMT DEF Value8, Bytes
<1>2. b1 < 128
  BY LeadCases, Zenon
<1>. QED BY SMT, <1>1, <1>2 DEF Size8, Points, Bytes

LEMMA TwoUnitsWhole ==
  ASSUME NEW t, Len(t) = 2, NEW b1 \in Bytes, NEW b2 \in Bytes, t[1] = b1, t[2] = b2,
         NEW top \in Nat, top <= 255,
         SeqLength(b1) = 2, LeadOK(b1, top)
  PROVE  Value8(t) \in Points /\ Size8(Value8(t)) = 2
<1>1. Value8(t) = (b1 % 32) * 64 + (b2 % 64)
  BY SMT DEF Value8, Bytes
<1>2. b1 >= 194 /\ b1 < 224
  BY LeadCases, Zenon
<1>3. Value8(t) \in Nat /\ Value8(t) >= 128 /\ Value8(t) <= 2047
  BY <1>1, <1>2, TwoUnits DEF Bytes
<1>. QED BY SMT, <1>3 DEF Size8, Points

LEMMA ThreeUnitsWhole ==
  ASSUME NEW t, Len(t) = 3, NEW b1 \in Bytes, NEW b2 \in Bytes, NEW b3 \in Bytes,
         t[1] = b1, t[2] = b2, t[3] = b3, NEW top \in Nat, top <= 255, NEW lax,
         SeqLength(b1) = 3, LeadOK(b1, top), SecondOK(b1, b2, lax)
  PROVE  Value8(t) \in Points /\ Size8(Value8(t)) = 3
<1>1. Value8(t) = (b1 % 16) * 4096 + (b2 % 64) * 64 + (b3 % 64)
  BY SMT DEF Value8, Bytes
<1>2. b1 >= 224 /\ b1 < 240
  BY LeadCases, Zenon
<1>3. b2 >= 128 /\ b2 < 192 /\ (b1 = 224 => b2 >= 160)
  BY Continues DEF SecondOK
<1>4. Value8(t) \in Nat /\ Value8(t) >= 2048 /\ Value8(t) <= 65535
  BY SMT, <1>1, <1>2, <1>3, ThreeUnits DEF Bytes
<1>. QED BY SMT, <1>4 DEF Size8, Points

LEMMA FourUnitsWhole ==
  ASSUME NEW t, Len(t) = 4, NEW b1 \in Bytes, NEW b2 \in Bytes, NEW b3 \in Bytes,
         NEW b4 \in Bytes, t[1] = b1, t[2] = b2, t[3] = b3, t[4] = b4,
         NEW top \in Nat, top <= 255, NEW lax,
         SeqLength(b1) = 4, LeadOK(b1, top), SecondOK(b1, b2, lax)
  PROVE  Value8(t) \in Points /\ Size8(Value8(t)) = 4
<1>1. Value8(t) = (b1 % 8) * 262144 + (b2 % 64) * 4096 + (b3 % 64) * 64 + (b4 % 64)
  BY SMT DEF Value8, Bytes
<1>2. b1 >= 240
  BY LeadCases, Zenon
<1>3. FirstTwoOf4(b1, b2) \in 16 .. 271
  BY <1>2 DEF SecondOK, Bytes
<1>4. (b1 % 8) * 64 + (b2 % 64) >= 16 /\ (b1 % 8) * 64 + (b2 % 64) <= 271
  BY SMT, <1>3 DEF FirstTwoOf4, Bytes
<1>5. Value8(t) \in Nat /\ Value8(t) >= 65536 /\ Value8(t) <= 1114111
  BY SMT, <1>1, <1>4, FourUnits DEF Bytes
<1>. QED BY SMT, <1>5 DEF Size8, Points

LEMMA WholeIsShortest ==
  ASSUME NEW s \in Seq(Bytes), s # <<>>, NEW lax \in BOOLEAN, NEW top \in Nat,
         top <= 255, IsWhole(s, lax, top)
  PROVE  LET n == Taken(s, lax, top)
             c == Value8(SubSeq(s, 1, n))
         IN c \in Points /\ Size8(c) = n
<1>. DEFINE n == Taken(s, lax, top)
            t == SubSeq(s, 1, n)
<1>1. n \in 1 .. 4 /\ n <= Len(s) /\ (n > 1 => SecondOK(s[1], s[2], lax))
  BY TakenFits, Zenon
<1>2. n = SeqLength(s[1]) /\ LeadOK(s[1], top)
  BY DEF IsWhole
<1>. HIDE DEF n
<1>3. \A i \in 1 .. Len(s) : s[i] \in Bytes
  BY ElementOfSeq
<1>4. Len(t) = n /\ \A i \in 1 .. n : t[i] = s[i] /\ s[i] \in Bytes
  BY <1>1, <1>3
<1>. HIDE DEF t
<1>. SUFFICES Value8(t) \in Points /\ Size8(Value8(t)) = n
  BY DEF n, t
<1>5. CASE n = 1
  <2>1. Len(t) = 1 /\ t[1] = s[1] /\ s[1] \in Bytes /\ SeqLength(s[1]) = 1
    BY <1>2, <1>4, <1>5
  <2>. QED BY <1>2, <1>5, <2>1, OneUnitWhole, Zenon
<1>6. CASE n = 2
  <2>1. /\ Len(t) = 2 /\ SeqLength(s[1]) = 2
        /\ t[1] = s[1] /\ t[2] = s[2] /\ s[1] \in Bytes /\ s[2] \in Bytes
    BY <1>2, <1>4, <1>6
  <2>. QED BY <1>2, <1>6, <2>1, TwoUnitsWhole, Zenon
<1>7. CASE n = 3
  <2>1. /\ Len(t) = 3 /\ SeqLength(s[1]) = 3 /\ SecondOK(s[1], s[2], lax)
        /\ t[1] = s[1] /\ t[2] = s[2] /\ t[3] = s[3]
        /\ s[1] \in Bytes /\ s[2] \in Bytes /\ s[3] \in Bytes
    BY <1>1, <1>2, <1>4, <1>7
  <2>. QED BY <1>2, <1>7, <2>1, ThreeUnitsWhole, Zenon
<1>8. CASE n = 4
  <2>1. /\ Len(t) = 4 /\ SeqLength(s[1]) = 4 /\ SecondOK(s[1], s[2], lax)
        /\ t[1] = s[1] /\ t[2] = s[2] /\ t[3] = s[3] /\ t[4] = s[4]
        /\ s[1] \in Bytes /\ s[2] \in Bytes /\ s[3] \in Bytes /\ s[4] \in Bytes
    BY <1>1, <1>2, <1>4, <1>8
  <2>. QED BY <1>2, <1>8, <2>1, FourUnitsWhole, Zenon
<1>. QED BY <1>1, <1>5, <1>6, <1>7, <1>8

-----------------------------------------------------------------------------
(* What is written for a code point, in each encoding.                     *)
LEMMA EncodedIs ==
  ASSUME NEW c
  PROVE  /\ Encoded("utf8", c) = Encode8(c) /\ Encoded("utf16", c) = Encode16(c)
         /\ Encoded("utf32", c) = <<c>>
         /\ \A to \in Charsets : Encoded(to, c) = EncodeByte(to, c)
<1>1. \A to \in Charsets : to # "utf8" /\ to # "utf16" /\ to # "utf32"
  BY DEF Charsets
<1>. QED BY <1>1, Zenon DEF Encoded

LEMMA ReplacedIs ==
  /\ Replaced("utf8") = Encode8(Replacement)
  /\ Replaced("utf16") = <<Replacement>> /\ Replaced("utf32") = <<Replacement>>
  /\ \A to \in Charsets : Replaced(to) = <<63>>
<1>1. \A to \in Charsets : to # "utf8" /\ to # "utf16" /\ to # "utf32"
  BY DEF Charsets
<1>2. \A to \in Charsets : to # "utf8" /\ to \notin {"utf16", "utf32"}
  BY <1>1
<1>3. "utf16" # "utf8" /\ "utf32" # "utf8"
  OBVIOUS
<1>. QED BY <1>2, <1>3, Zenon DEF Replaced

LEMMA PointsAreNat == \A c \in Points : c \in Nat /\ c # Invalid
  BY SMT DEF Points, Invalid

LEMMA ReplacementIs == Replacement \in Points /\ Size8(Replacement) = 3
  BY SMT DEF Replacement, Points, Size8

(* What is written in UTF-8, UTF-16, UTF-32 and in one byte. *)
LEMMA Written8 ==
  /\ \A c \in Nat : /\ Written("utf8", c) \in Seq(Nat)
                    /\ Len(Written("utf8", c)) = Size8(c)
  /\ Written("utf8", Invalid) \in Seq(Nat) /\ Len(Written("utf8", Invalid)) = 3
<1>1. ASSUME NEW c \in Nat
      PROVE  Written("utf8", c) \in Seq(Nat) /\ Len(Written("utf8", c)) = Size8(c)
  <2>1. Encoded("utf8", c) = Encode8(c)
    BY EncodedIs
  <2>2. Encode8(c) \in Seq(Nat) /\ Len(Encode8(c)) = Size8(c)
    BY Encode8Length, Zenon
  <2>3. Size8(c) >= 1
    BY SMT DEF Size8
  <2>4. Encode8(c) # <<>>
    BY <2>2, <2>3
  <2>5. c # Invalid
    BY SMT DEF Invalid
  <2>6. ~IsError("utf8", c)
    BY <2>1, <2>4, <2>5 DEF IsError
  <2>. QED BY <2>1, <2>2, <2>6, Zenon DEF Written
<1>2. Written("utf8", Invalid) = Encode8(Replacement)
  BY ReplacedIs, Zenon DEF Written, IsError
<1>3. Encode8(Replacement) \in Seq(Nat) /\ Len(Encode8(Replacement)) = 3
  <2>1. Replacement \in Nat
    BY PointsAreNat, ReplacementIs
  <2>. QED BY <2>1, ReplacementIs, Encode8Length, Zenon
<1>. QED BY <1>1, <1>2, <1>3

Size16(c) == IF c < 65536 THEN 1 ELSE 2

LEMMA Written16 ==
  /\ \A c \in Nat : /\ Written("utf16", c) \in Seq(Nat)
                    /\ Len(Written("utf16", c)) = Size16(c)
  /\ Written("utf16", Invalid) \in Seq(Nat) /\ Len(Written("utf16", Invalid)) = 1
<1>1. ASSUME NEW c \in Nat
      PROVE  Written("utf16", c) \in Seq(Nat) /\ Len(Written("utf16", c)) = Size16(c)
  <2>1. Encoded("utf16", c) = Encode16(c)
    BY EncodedIs
  <2>2. Encode16(c) \in Seq(Nat) /\ Len(Encode16(c)) = Size16(c) /\ Encode16(c) # <<>>
    <3>1. CASE c < 65536
      BY SMT, <3>1 DEF Encode16, Size16
    <3>2. CASE c >= 65536
      <4>1. 55296 + (c - 65536) \div 1024 \in Nat /\ 56320 + ((c - 65536) % 1024) \in Nat
        BY SMT, <3>2
      <4>2. Encode16(c) = <<55296 + (c - 65536) \div 1024, 56320 + ((c - 65536) % 1024)>>
        BY SMT, <3>2 DEF Encode16
      <4>. QED BY SMT, <3>2, <4>1, <4>2 DEF Size16
    <3>. QED BY SMT, <3>1, <3>2
  <2>5. c # Invalid
    BY SMT DEF Invalid
  <2>6. ~IsError("utf16", c)
    BY <2>1, <2>2, <2>5, Zenon DEF IsError
  <2>. QED BY <2>1, <2>2, <2>6, Zenon DEF Written
<1>2. Written("utf16", Invalid) = <<Replacement>>
  BY ReplacedIs, Zenon DEF Written, IsError
<1>3. Replacement \in Nat
  BY PointsAreNat, ReplacementIs
<1>4. <<Replacement>> \in Seq(Nat) /\ Len(<<Replacement>>) = 1
  BY <1>3
<1>. QED BY <1>1, <1>2, <1>4, Zenon

LEMMA Written32 ==
  /\ \A c \in Nat : Written("utf32", c) = <<c>>
  /\ Written("utf32", Invalid) = <<Replacement>> /\ Replacement \in Nat
<1>1. ASSUME NEW c \in Nat PROVE Written("utf32", c) = <<c>>
  <2>1. Encoded("utf32", c) = <<c>> /\ <<c>> # <<>>
    BY EncodedIs
  <2>2. c # Invalid
    BY SMT DEF Invalid
  <2>. QED BY <2>1, <2>2, Zenon DEF Written, IsError
<1>2. Written("utf32", Invalid) = <<Replacement>>
  BY ReplacedIs, Zenon DEF Written, IsError
<1>3. Replacement \in Nat
  BY PointsAreNat, ReplacementIs
<1>. QED BY <1>1, <1>2, <1>3

LEMMA FindIn ==
  ASSUME NEW S, NEW pairs, \A p \in pairs : p[2] \in S, NEW x, NEW else, else \in S
  PROVE  Find(pairs, x, else) \in S
  BY Zenon DEF Find

LEMMA TablesDecode ==
  /\ \A p \in Decode3 : p[2] \in Points
  /\ \A p \in Decode15 : p[2] \in Points
  /\ \A i \in 1 .. 32 : Decode1252[i] \in Points
<1>1. \A p \in Decode3 : p[2] \in Points
  BY SMT DEF Decode3, Points
<1>2. \A p \in Decode15 : p[2] \in Points
  BY SMT DEF Decode15, Points
<1>3. \A i \in 1 .. 32 : Decode1252[i] \in Points
  BY SMT DEF Decode1252, Points
<1>. QED BY <1>1, <1>2, <1>3

LEMMA TablesEncode ==
  /\ \A p \in Encode3 : p[2] \in Nat
  /\ \A p \in Encode15 : p[2] \in Nat
  /\ \A p \in Encode1252 : p[2] \in Nat
<1>1. \A p \in Encode3 : p[2] \in Nat
  BY SMT DEF Encode3
<1>2. \A p \in Encode15 : p[2] \in Nat
  BY SMT DEF Encode15
<1>3. \A p \in Encode1252 : p[2] \in Nat
  BY SMT DEF Encode1252
<1>. QED BY <1>1, <1>2, <1>3

LEMMA DecodeCharIs ==
  ASSUME NEW b
  PROVE  /\ DecodeChar("ascii", b) = IF b < 128 THEN b ELSE Invalid
         /\ DecodeChar("iso_8859_1", b) = b
         /\ DecodeChar("iso_8859_3", b) = IF b \in Holes3 THEN Invalid ELSE Find(Decode3, b, b)
         /\ DecodeChar("iso_8859_15", b) = Find(Decode15, b, b)
         /\ DecodeChar("windows_1252", b) =
              IF b \in 128 .. 159 THEN Decode1252[b - 127] ELSE b
<1>1. DecodeChar("ascii", b) = IF b < 128 THEN b ELSE Invalid
  BY Zenon DEF DecodeChar
<1>2. DecodeChar("iso_8859_1", b) = b
  BY Zenon DEF DecodeChar
<1>3. DecodeChar("iso_8859_3", b) = IF b \in Holes3 THEN Invalid ELSE Find(Decode3, b, b)
  BY Zenon DEF DecodeChar
<1>4. DecodeChar("iso_8859_15", b) = Find(Decode15, b, b)
  BY Zenon DEF DecodeChar
<1>5. DecodeChar("windows_1252", b) = IF b \in 128 .. 159 THEN Decode1252[b - 127] ELSE b
  BY Zenon DEF DecodeChar
<1>. QED BY <1>1, <1>2, <1>3, <1>4, <1>5

LEMMA DecodeCharRange ==
  ASSUME NEW enc \in Charsets, NEW b \in Bytes
  PROVE  DecodeChar(enc, b) \in Points \cup {Invalid}
<1>1. b \in Points
  BY SMT DEF Bytes, Points
<1>2. b \in 128 .. 159 => Decode1252[b - 127] \in Points
  <2>1. b \in 128 .. 159 => b - 127 \in 1 .. 32
    BY SMT DEF Bytes
  <2>. QED BY <2>1, TablesDecode, Zenon
<1>3. Find(Decode3, b, b) \in Points /\ Find(Decode15, b, b) \in Points
  BY <1>1, TablesDecode, FindIn, Zenon
<1>4. enc \in {"ascii", "iso_8859_1", "iso_8859_3", "iso_8859_15", "windows_1252"}
  BY DEF Charsets
<1>5. CASE enc = "ascii"
  BY <1>1, <1>2, <1>3, <1>5, DecodeCharIs, Zenon
<1>6. CASE enc = "iso_8859_1"
  BY <1>1, <1>2, <1>3, <1>6, DecodeCharIs, Zenon
<1>7. CASE enc = "iso_8859_3"
  BY <1>1, <1>2, <1>3, <1>7, DecodeCharIs, Zenon
<1>8. CASE enc = "iso_8859_15"
  BY <1>1, <1>2, <1>3, <1>8, DecodeCharIs, Zenon
<1>9. CASE enc = "windows_1252"
  BY <1>1, <1>2, <1>3, <1>9, DecodeCharIs, Zenon
<1>. QED BY <1>4, <1>5, <1>6, <1>7, <1>8, <1>9

LEMMA EncodeCharIs ==
  ASSUME NEW c
  PROVE  /\ EncodeChar("ascii", c) = IF c < 128 THEN c ELSE NoByte
         /\ EncodeChar("iso_8859_1", c) = IF c < 256 THEN c ELSE NoByte
         /\ EncodeChar("iso_8859_3", c) =
              Find(Encode3, c, IF c \in (0 .. 255) \ Missing3 THEN c ELSE NoByte)
         /\ EncodeChar("iso_8859_15", c) =
              Find(Encode15, c, IF c \in (0 .. 255) \ Missing15 THEN c ELSE NoByte)
         /\ EncodeChar("windows_1252", c) =
              Find(Encode1252, c, IF c \in 0 .. 127 \cup 160 .. 255 THEN c ELSE NoByte)
<1>1. EncodeChar("ascii", c) = IF c < 128 THEN c ELSE NoByte
  BY Zenon DEF EncodeChar
<1>2. EncodeChar("iso_8859_1", c) = IF c < 256 THEN c ELSE NoByte
  BY Zenon DEF EncodeChar
<1>3. EncodeChar("iso_8859_3", c) =
        Find(Encode3, c, IF c \in (0 .. 255) \ Missing3 THEN c ELSE NoByte)
  BY Zenon DEF EncodeChar
<1>4. EncodeChar("iso_8859_15", c) =
        Find(Encode15, c, IF c \in (0 .. 255) \ Missing15 THEN c ELSE NoByte)
  BY Zenon DEF EncodeChar
<1>5. EncodeChar("windows_1252", c) =
        Find(Encode1252, c, IF c \in 0 .. 127 \cup 160 .. 255 THEN c ELSE NoByte)
  BY Zenon DEF EncodeChar
<1>. QED BY <1>1, <1>2, <1>3, <1>4, <1>5, Zenon

LEMMA EncodeCharRange ==
  ASSUME NEW enc \in Charsets, NEW c \in Nat
  PROVE  EncodeChar(enc, c) \in Nat
<1>1. NoByte \in Nat
  BY DEF NoByte
<1>2. /\ Find(Encode3, c, IF c \in (0 .. 255) \ Missing3 THEN c ELSE NoByte) \in Nat
      /\ Find(Encode15, c, IF c \in (0 .. 255) \ Missing15 THEN c ELSE NoByte) \in Nat
      /\ Find(Encode1252, c, IF c \in 0 .. 127 \cup 160 .. 255 THEN c ELSE NoByte) \in Nat
  <2>. DEFINE e3 == IF c \in (0 .. 255) \ Missing3 THEN c ELSE NoByte
              e15 == IF c \in (0 .. 255) \ Missing15 THEN c ELSE NoByte
              e1252 == IF c \in 0 .. 127 \cup 160 .. 255 THEN c ELSE NoByte
  <2>1. e3 \in Nat /\ e15 \in Nat /\ e1252 \in Nat
    BY <1>1, Zenon
  <2>. HIDE DEF e3, e15, e1252
  <2>2. /\ Find(Encode3, c, e3) \in Nat /\ Find(Encode15, c, e15) \in Nat
        /\ Find(Encode1252, c, e1252) \in Nat
    BY <2>1, TablesEncode, FindIn, Zenon
  <2>. QED BY <2>2, Zenon DEF e3, e15, e1252
<1>4. enc \in {"ascii", "iso_8859_1", "iso_8859_3", "iso_8859_15", "windows_1252"}
  BY DEF Charsets
<1>5. CASE enc = "ascii"
  BY <1>1, <1>2, <1>5, EncodeCharIs, Zenon
<1>6. CASE enc = "iso_8859_1"
  BY <1>1, <1>2, <1>6, EncodeCharIs, Zenon
<1>7. CASE enc = "iso_8859_3"
  BY <1>1, <1>2, <1>7, EncodeCharIs, Zenon
<1>8. CASE enc = "iso_8859_15"
  BY <1>1, <1>2, <1>8, EncodeCharIs, Zenon
<1>9. CASE enc = "windows_1252"
  BY <1>1, <1>2, <1>9, EncodeCharIs, Zenon
<1>. QED BY <1>4, <1>5, <1>6, <1>7, <1>8, <1>9

(* A single byte is written for whatever there is to write.                *)
LEMMA WrittenOneByte ==
  ASSUME NEW to \in Charsets, NEW c \in Nat \cup {Invalid}
  PROVE  Written(to, c) \in Seq(Nat) /\ Len(Written(to, c)) = 1
<1>1. Encoded(to, c) = EncodeByte(to, c) /\ Replaced(to) = <<63>>
  BY EncodedIs, ReplacedIs
<1>2. CASE IsError(to, c)
  <2>1. Written(to, c) = <<63>>
    BY <1>1, <1>2, Zenon DEF Written
  <2>. QED BY <2>1
<1>3. CASE ~IsError(to, c)
  <2>1. c # Invalid
    BY <1>3, Zenon DEF IsError
  <2>2. EncodeChar(to, c) \in Nat
    BY <2>1, EncodeCharRange
  <2>3. Written(to, c) = <<EncodeChar(to, c)>>
    BY <1>1, <1>3, Zenon DEF Written, IsError, EncodeByte
  <2>. QED BY <2>2, <2>3
<1>. QED BY <1>2, <1>3

-----------------------------------------------------------------------------
(* One step of a transcoder, and one of the size function.                 *)
(* How many units are written for c, or for an invalid piece.              *)
SizeOf(to, c) ==
  IF to = "utf8" THEN IF c = Invalid THEN 3 ELSE Size8(c)
  ELSE IF to = "utf16" THEN IF c = Invalid THEN 1 ELSE Size16(c)
  ELSE 1

LEMMA WrittenLength ==
  ASSUME NEW to \in Encodings, NEW c \in Nat \cup {Invalid}
  PROVE  Written(to, c) \in Seq(Nat) /\ Len(Written(to, c)) = SizeOf(to, c)
<1>1. c # Invalid => c \in Nat
  OBVIOUS
<1>2. CASE to = "utf8"
  BY <1>1, <1>2, Written8, Zenon DEF SizeOf
<1>3. CASE to = "utf16"
  <2>1. to # "utf8"
    BY <1>3
  <2>. QED BY <1>1, <1>3, <2>1, Written16, Zenon DEF SizeOf
<1>4. CASE to = "utf32"
  <2>1. to # "utf8" /\ to # "utf16"
    BY <1>4
  <2>2. SizeOf(to, c) = 1
    BY <2>1, Zenon DEF SizeOf
  <2>3. \A x \in Nat : <<x>> \in Seq(Nat) /\ Len(<<x>>) = 1
    OBVIOUS
  <2>. QED BY <1>1, <1>4, <2>2, <2>3, Written32, Zenon
<1>5. CASE to \in Charsets
  <2>1. to # "utf8" /\ to # "utf16"
    BY <1>5 DEF Charsets
  <2>2. SizeOf(to, c) = 1
    BY <2>1, Zenon DEF SizeOf
  <2>. QED BY <1>5, <2>2, WrittenOneByte, Zenon
<1>. QED BY <1>2, <1>3, <1>4, <1>5 DEF Encodings

(* The last unit that begins four, for utf8_sanitize and for the others.   *)
Strict == 247
Lenient == 255

LEMMA ByTops ==
  ASSUME NEW s, NEW lax
  PROVE  /\ Sanitize8(s, lax) = Read8(s, lax, Strict) /\ Decode8(s, lax) = Read8(s, lax, Lenient)
         /\ Taken(s, lax, 255) = Taken(s, lax, Lenient)
         /\ IsWhole(s, lax, 255) = IsWhole(s, lax, Lenient)
         /\ Lenient \in Nat /\ Lenient <= 255
  BY SMT DEF Sanitize8, Decode8, Strict, Lenient

LEMMA Read8Parts ==
  ASSUME NEW s, NEW lax, NEW top
  PROVE  /\ Read8(s, lax, top).units = Taken(s, lax, top)
         /\ Read8(s, lax, top).point =
              IF IsWhole(s, lax, top) THEN Value8(SubSeq(s, 1, Taken(s, lax, top))) ELSE Invalid
  BY DEF Read8

(* Which size function is asked, and what it answers.                      *)
LEMMA Measure8Is ==
  ASSUME NEW s, NEW lax, NEW to \in {"utf8", "utf16", "utf32"}
  PROVE  LET q == Measure("utf8", to, s, lax)
             n == Taken(s, lax, Lenient)
         IN /\ q.units = n
            /\ q.size = IF to = "utf8" THEN IF IsWhole(s, lax, Lenient) THEN n ELSE 3
                        ELSE IF to = "utf16" THEN IF IsWhole(s, lax, Lenient) /\ n = 4 THEN 2 ELSE 1
                        ELSE 1
<1>1. HasTranscoder("utf8", to)
  BY DEF HasTranscoder
<1>2. Measure("utf8", to, s, lax) = Measure8(s, to, lax)
  BY <1>1, Zenon DEF Measure
<1>. DEFINE n == Taken(s, lax, Lenient)
            w == IsWhole(s, lax, Lenient)
            m == CASE to = "utf8"  -> Size8To8(w, n)
                   [] to = "utf16" -> Size8To16(w, n)
                   [] OTHER        -> Size8To32(w, n)
<1>3. Measure8(s, to, lax) = [units |-> n, size |-> m]
  BY ByTops, Zenon DEF Measure8
<1>4. /\ to = "utf8" => m = Size8To8(w, n)
      /\ to = "utf16" => m = Size8To16(w, n)
      /\ to = "utf32" => m = Size8To32(w, n)
  BY Zenon
<1>. HIDE DEF n, w, m
<1>5. m = IF to = "utf8" THEN IF w THEN n ELSE 3
          ELSE IF to = "utf16" THEN IF w /\ n = 4 THEN 2 ELSE 1 ELSE 1
  BY <1>4 DEF Size8To8, Size8To16, Size8To32
<1>6. [units |-> n, size |-> m].units = n /\ [units |-> n, size |-> m].size = m
  OBVIOUS
<1>. QED BY <1>2, <1>3, <1>5, <1>6, Zenon DEF n, w

LEMMA Read8Is ==
  ASSUME NEW s, NEW lax, NEW after, NEW to \in {"utf8", "utf16", "utf32"}
  PROVE  ReadFront("utf8", to, s, after, lax) =
           IF to = "utf8" THEN Read8(s, lax, Strict) ELSE Read8(s, lax, Lenient)
<1>1. ReadFront("utf8", to, s, after, lax)
        = IF to = "utf8" THEN Sanitize8(s, lax) ELSE Decode8(s, lax)
  BY Zenon DEF ReadFront
<1>. QED BY <1>1, ByTops, Zenon

(* Units below F8 are taken alike by all functions.                        *)
LEMMA TakenAlike ==
  ASSUME NEW s, s[1] \in Bytes, s[1] < 248, NEW lax
  PROVE  /\ Taken(s, lax, Strict) = Taken(s, lax, Lenient)
         /\ IsWhole(s, lax, Strict) <=> IsWhole(s, lax, Lenient)
<1>1. LeadOK(s[1], Strict) <=> LeadOK(s[1], Lenient)
  BY SMT DEF LeadOK, Bytes, Strict, Lenient
<1>. DEFINE S1 == {1} \cup {k \in 2 .. Lesser(4, Len(s)) :
                                 /\ k <= Len(s) /\ k <= SeqLength(s[1])
                                 /\ LeadOK(s[1], Strict) /\ SecondOK(s[1], s[2], lax)
                                 /\ \A i \in 3 .. k : Continuation(s[i])}
            S2 == {1} \cup {k \in 2 .. Lesser(4, Len(s)) :
                                 /\ k <= Len(s) /\ k <= SeqLength(s[1])
                                 /\ LeadOK(s[1], Lenient) /\ SecondOK(s[1], s[2], lax)
                                 /\ \A i \in 3 .. k : Continuation(s[i])}
<1>2. Taken(s, lax, Strict) = Max(S1) /\ Taken(s, lax, Lenient) = Max(S2)
  BY Zenon DEF Taken
<1>3. S1 = S2
  BY <1>1, Zenon
<1>4. Taken(s, lax, Strict) = Taken(s, lax, Lenient)
  <2>. HIDE DEF S1, S2
  <2>. QED BY <1>2, <1>3, Zenon
<1>. QED BY <1>1, <1>4, Zenon DEF IsWhole

LEMMA Step8 ==
  ASSUME NEW s \in Seq(Bytes), s # <<>>, NEW lax \in BOOLEAN, NEW after,
         NEW to \in {"utf8", "utf16", "utf32"}, to = "utf8" => s[1] < 248
  PROVE  LET r == ReadFront("utf8", to, s, after, lax)
             q == Measure("utf8", to, s, lax)
         IN /\ r.units = q.units /\ r.point \in Points \cup {Invalid}
            /\ q.size = SizeOf(to, r.point)
<1>. DEFINE n == Taken(s, lax, Lenient)
            w == IsWhole(s, lax, Lenient)
            v == Value8(SubSeq(s, 1, n))
            r == ReadFront("utf8", to, s, after, lax)
            q == Measure("utf8", to, s, lax)
<1>1. s[1] \in Bytes
  BY ElementOfSeq
<1>3. r.units = n /\ r.point = IF w THEN v ELSE Invalid
  <2>1. CASE to = "utf8"
    <3>1. Taken(s, lax, Strict) = n /\ (IsWhole(s, lax, Strict) <=> w)
      BY <1>1, <2>1, TakenAlike, Zenon
    <3>2. r = Read8(s, lax, Strict)
      BY <2>1, Read8Is, Zenon
    <3>. QED BY <3>1, <3>2, Read8Parts, Zenon
  <2>2. CASE to # "utf8"
    <3>1. r = Read8(s, lax, Lenient)
      BY <2>2, Read8Is, Zenon
    <3>. QED BY <3>1, Read8Parts, Zenon
  <2>. QED BY <2>1, <2>2
<1>4. w => v \in Points /\ Size8(v) = n
  BY ByTops, WholeIsShortest, Zenon
<1>5. q.units = n /\ q.size = IF to = "utf8" THEN IF w THEN n ELSE 3
                              ELSE IF to = "utf16" THEN IF w /\ n = 4 THEN 2 ELSE 1 ELSE 1
  BY Measure8Is, Zenon
<1>. HIDE DEF r, q, n, w, v
<1>6. r.units = q.units /\ r.point \in Points \cup {Invalid}
  BY <1>3, <1>4, <1>5, Zenon
<1>7. w => v \in Nat /\ v # Invalid
  BY <1>4, PointsAreNat
<1>8. w => (Size16(v) = IF n = 4 THEN 2 ELSE 1)
  BY SMT, <1>4, <1>7 DEF Size8, Size16
<1>9. q.size = SizeOf(to, r.point)
  <2>1. CASE to = "utf8"
    BY <1>3, <1>4, <1>5, <1>7, <2>1, Zenon DEF SizeOf
  <2>2. CASE to = "utf16"
    BY SMT, <1>3, <1>4, <1>5, <1>7, <1>8, <2>2 DEF SizeOf
  <2>3. CASE to = "utf32"
    BY SMT, <1>3, <1>4, <1>5, <1>7, <2>3 DEF SizeOf
  <2>. QED BY <2>1, <2>2, <2>3
<1>. QED BY <1>6, <1>9 DEF r, q

(* Which size function answers for a source of UTF-16, and what.           *)
LEMMA Measure16Is ==
  ASSUME NEW s, NEW lax, NEW to \in {"utf8", "utf16", "utf32"}
  PROVE  LET q == Measure("utf16", to, s, lax)
         IN /\ q.units = IF IsPair(s) THEN 2 ELSE 1
            /\ q.size = IF to = "utf8" THEN Size16To8(s)
                        ELSE IF to = "utf16" THEN Size16To16(s) ELSE 1
<1>1. HasTranscoder("utf16", to)
  BY DEF HasTranscoder
<1>2. Measure("utf16", to, s, lax) = Measure16(s, to)
  BY <1>1, Zenon DEF Measure
<1>. DEFINE m == CASE to = "utf8"  -> Size16To8(s)
                   [] to = "utf16" -> Size16To16(s)
                   [] OTHER        -> Size16To32(s)
            n == IF IsPair(s) THEN 2 ELSE 1
<1>3. Measure16(s, to) = [units |-> n, size |-> m]
  BY Zenon DEF Measure16
<1>4. m = IF to = "utf8" THEN Size16To8(s) ELSE IF to = "utf16" THEN Size16To16(s) ELSE 1
  BY Zenon DEF Size16To32
<1>. HIDE DEF m, n
<1>5. [units |-> n, size |-> m].units = n /\ [units |-> n, size |-> m].size = m
  OBVIOUS
<1>. QED BY <1>2, <1>3, <1>4, <1>5, Zenon DEF n

(* A pair stands for a code point that UTF-8 has four units for.           *)
LEMMA PairIs ==
  ASSUME NEW s, NEW a \in Words, NEW b \in Words, s[1] = a, s[2] = b, NEW lax
  PROVE  LET r == Decode16(s, lax)
         IN IsPair(s) => /\ r.units = 2 /\ r.point \in Points
                         /\ Size8(r.point) = 4 /\ Size16(r.point) = 2
<1>. SUFFICES ASSUME IsPair(s)
              PROVE  LET r == Decode16(s, lax)
                     IN /\ r.units = 2 /\ r.point \in Points
                        /\ Size8(r.point) = 4 /\ Size16(r.point) = 2
  OBVIOUS
<1>. DEFINE v == 65536 + (a % 1024) * 1024 + (b % 1024)
<1>1. Decode16(s, lax).units = 2 /\ Decode16(s, lax).point = v
  BY SMT DEF Decode16
<1>2. v \in Nat /\ v >= 65536 /\ v <= 1114111
  BY SMT DEF Words
<1>. HIDE DEF v
<1>3. v \in Points /\ Size8(v) = 4 /\ Size16(v) = 2
  BY SMT, <1>2 DEF Points, Size8, Size16
<1>. QED BY <1>1, <1>3, Zenon

LEMMA UnitIs ==
  ASSUME NEW s, NEW a \in Words, s[1] = a, NEW lax \in BOOLEAN, ~IsPair(s)
  PROVE  LET r == Decode16(s, lax)
         IN /\ r.units = 1 /\ r.point \in Points \cup {Invalid}
            /\ Size16To8(s) = SizeOf("utf8", r.point)
            /\ SizeOf("utf16", r.point) = 1
<1>. DEFINE r == Decode16(s, lax)
<1>1. r.units = 1 /\ r.point = IF IsSurrogate(a) /\ ~lax THEN Invalid ELSE a
  BY SMT DEF Decode16
<1>2. a \in Points /\ a \in Nat /\ a # Invalid /\ Size16(a) = 1
  BY SMT DEF Words, Points, Invalid, Size16
<1>3. Size16To8(s) = Size8(a)
  <2>1. Reached(a, {128, 2048}) = IF a < 128 THEN 0 ELSE IF a < 2048 THEN 1 ELSE 2
    BY <1>2, ReachedTwo
  <2>2. Size16To8(s) = 1 + Reached(a, {128, 2048})
    BY DEF Size16To8
  <2>. QED BY SMT, <2>1, <2>2 DEF Size8, Words
<1>4. IsSurrogate(a) => Size8(a) = 3
  BY SMT DEF IsSurrogate, Size8, Words
<1>. HIDE DEF r
<1>5. CASE IsSurrogate(a) /\ ~lax
  BY SMT, <1>1, <1>2, <1>3, <1>4, <1>5 DEF SizeOf, r
<1>6. CASE ~(IsSurrogate(a) /\ ~lax)
  BY SMT, <1>1, <1>2, <1>3, <1>6 DEF SizeOf, r
<1>. QED BY <1>5, <1>6

LEMMA Step16 ==
  ASSUME NEW s \in Seq(Words), s # <<>>, NEW lax \in BOOLEAN, NEW after \in Words,
         NEW to \in {"utf8", "utf16", "utf32"},
         to = "utf8" => ~(Len(s) = 1 /\ IsHigh(s[1]) /\ IsLow(after))
  PROVE  LET r == ReadFront("utf16", to, s, after, lax)
             q == Measure("utf16", to, s, lax)
         IN /\ r.units = q.units /\ r.point \in Points \cup {Invalid}
            /\ q.size = SizeOf(to, r.point)
<1>. DEFINE r == ReadFront("utf16", to, s, after, lax)
            q == Measure("utf16", to, s, lax)
            t == IF to = "utf8" THEN Append(s, after) ELSE s
<1>1. r = Decode16(t, lax)
  <2>1. r = IF to = "utf8" THEN Decode16To8(s, after, lax) ELSE Decode16(s, lax)
    BY Zenon DEF ReadFront
  <2>. QED BY <2>1, Zenon DEF Decode16To8
<1>2. /\ t[1] = s[1] /\ s[1] \in Words /\ (Len(s) > 1 => t[2] = s[2] /\ s[2] \in Words)
      /\ Len(s) = 1 /\ to = "utf8" => t[2] = after
      /\ Len(t) = IF to = "utf8" THEN Len(s) + 1 ELSE Len(s)
      /\ Len(s) >= 1 /\ Len(s) \in Nat
  <2>1. s[1] \in Words /\ (Len(s) > 1 => s[2] \in Words) /\ Len(s) >= 1 /\ Len(s) \in Nat
    BY ElementOfSeq
  <2>2. CASE to = "utf8"
    BY <2>1, <2>2
  <2>3. CASE to # "utf8"
    BY <2>1, <2>3
  <2>. QED BY <2>2, <2>3
<1>. HIDE DEF t
<1>3. IsPair(t) <=> IsPair(s)
  <2>1. CASE Len(s) > 1
    <3>1. Len(t) > 1 /\ t[1] = s[1] /\ t[2] = s[2]
      BY <1>2, <2>1
    <3>. QED BY <2>1, <3>1, Zenon DEF IsPair
  <2>2. CASE ~(Len(s) > 1)
    <3>0. Len(s) = 1
      <4>1. Len(s) \in Nat /\ Len(s) >= 1
        OBVIOUS
      <4>2. \A n \in Nat : n >= 1 /\ ~(n > 1) => n = 1
        OBVIOUS
      <4>. QED BY <2>2, <4>1, <4>2, Zenon
    <3>1. ~IsPair(s)
      BY <2>2, Zenon DEF IsPair
    <3>2. CASE to = "utf8"
      <4>1. t[1] = s[1] /\ t[2] = after
        BY <1>2, <3>0, <3>2
      <4>. QED BY <3>0, <3>1, <3>2, <4>1, Zenon DEF IsPair
    <3>3. CASE to # "utf8"
      <4>1. Len(t) = 1
        BY <1>2, <3>0, <3>3
      <4>2. ~(Len(t) > 1)
        BY <4>1
      <4>. QED BY <3>1, <4>2, Zenon DEF IsPair
    <3>. QED BY <3>2, <3>3
  <2>. QED BY <2>1, <2>2
<1>4. /\ q.units = IF IsPair(s) THEN 2 ELSE 1
      /\ q.size = IF to = "utf8" THEN Size16To8(s) ELSE IF to = "utf16" THEN Size16To16(s) ELSE 1
  BY Measure16Is, Zenon
<1>. HIDE DEF r, q
<1>5. CASE IsPair(s)
  <2>1. Len(s) > 1 /\ t[1] = s[1] /\ t[2] = s[2] /\ s[1] \in Words /\ s[2] \in Words
    BY <1>2, <1>5 DEF IsPair
  <2>2. r.units = 2 /\ r.point \in Points /\ Size8(r.point) = 4 /\ Size16(r.point) = 2
    BY <1>1, <1>3, <1>5, <2>1, PairIs, Zenon
  <2>3. r.point # Invalid
    BY <2>2, PointsAreNat
  <2>4. Size16To8(s) = 4 /\ Size16To16(s) = 2
    BY <1>5 DEF Size16To8, Size16To16
  <2>5. q.size = SizeOf(to, r.point)
    BY SMT, <1>4, <2>2, <2>3, <2>4 DEF SizeOf
  <2>. QED BY <1>4, <1>5, <2>2, <2>5, Zenon DEF r, q
<1>6. CASE ~IsPair(s)
  <2>1. /\ r.units = 1 /\ r.point \in Points \cup {Invalid}
        /\ Size16To8(t) = SizeOf("utf8", r.point)
        /\ SizeOf("utf16", r.point) = 1
    <3>1. t[1] = s[1] /\ s[1] \in Words /\ ~IsPair(t)
      BY <1>2, <1>3, <1>6
    <3>. QED BY <1>1, <3>1, UnitIs, Zenon
  <2>2. Size16To8(s) = Size16To8(t)
    <3>1. t[1] = s[1] /\ ~IsPair(t)
      BY <1>2, <1>3, <1>6
    <3>. QED BY <1>6, <3>1, SMT DEF Size16To8
  <2>3. Size16To16(s) = 1
    BY <1>6 DEF Size16To16
  <2>4. SizeOf("utf32", r.point) = 1
    BY DEF SizeOf
  <2>5. CASE to = "utf8"
    BY <1>4, <1>6, <2>1, <2>2, <2>5, Zenon DEF r, q
  <2>6. CASE to = "utf16"
    <3>1. q.size = 1 /\ q.units = 1
      BY <1>4, <1>6, <2>3, <2>6
    <3>. QED BY <2>1, <2>6, <3>1, Zenon DEF r, q
  <2>7. CASE to = "utf32"
    <3>1. q.size = 1 /\ q.units = 1
      BY <1>4, <1>6, <2>7
    <3>. QED BY <2>1, <2>4, <2>7, <3>1, Zenon DEF r, q
  <2>. QED BY <2>5, <2>6, <2>7
<1>. QED BY <1>5, <1>6

(* The size functions of UTF-32, which those of all others go through.     *)
LEMMA Measure32Is ==
  ASSUME NEW c, NEW to
  PROVE  LET q == Measure32(c, to)
         IN /\ q.units = 1
            /\ q.size = IF to = "utf8" THEN Size32To8(c)
                        ELSE IF to = "utf16" THEN Size32To16(c) ELSE 1
<1>. DEFINE m == CASE to = "utf8"  -> Size32To8(c)
                   [] to = "utf16" -> Size32To16(c)
                   [] OTHER        -> 1
<1>1. Measure32(c, to) = [units |-> 1, size |-> m]
  BY Zenon DEF Measure32
<1>2. m = IF to = "utf8" THEN Size32To8(c) ELSE IF to = "utf16" THEN Size32To16(c) ELSE 1
  BY Zenon
<1>. HIDE DEF m
<1>3. [units |-> 1, size |-> m].units = 1 /\ [units |-> 1, size |-> m].size = m
  OBVIOUS
<1>. QED BY <1>1, <1>2, <1>3, Zenon

LEMMA Size32To16Is ==
  ASSUME NEW c \in Nat
  PROVE  /\ c \in Points => Size32To16(c) = Size16(c)
         /\ c \notin Points => Size32To16(c) = 1
<1>1. c \in Points => Size32To16(c) = Size16(c)
  BY SMT DEF Points, Size16, Size32To16
<1>2. c \notin Points => Size32To16(c) = 1
  BY SMT DEF Points, Size16, Size32To16
<1>. QED BY <1>1, <1>2

LEMMA Measure32OfPoint ==
  ASSUME NEW c \in Points, NEW to
  PROVE  Measure32(c, to).size = SizeOf(to, c)
<1>0. c \in Nat /\ c < 1114112
  BY SMT DEF Points
<1>1. c # Invalid
  BY PointsAreNat
<1>2. Size32To8(c) = Size8(c)
  BY SMT, <1>0, Reached8 DEF Size32To8
<1>3. Size32To16(c) = Size16(c)
  <2>1. c \in Nat
    BY PointsAreNat
  <2>. QED BY <2>1, Size32To16Is, Zenon
<1>. QED BY <1>1, <1>2, <1>3, Measure32Is, Zenon DEF SizeOf

LEMMA Step32 ==
  ASSUME NEW s, NEW c \in Nat, s[1] = c, NEW lax \in BOOLEAN, NEW after, NEW to \in Encodings
  PROVE  LET r == ReadFront("utf32", to, s, after, lax)
             q == Measure("utf32", to, s, lax)
         IN /\ r.units = 1 /\ q.units = 1 /\ r.point \in Points \cup {Invalid}
            /\ q.size = SizeOf(to, r.point)
<1>. DEFINE r == ReadFront("utf32", to, s, after, lax)
            q == Measure("utf32", to, s, lax)
<1>1. r = Decode32(c, lax)
  BY Zenon DEF ReadFront
<1>2. /\ Decode32(c, lax).units = 1
      /\ Decode32(c, lax).point # Invalid => c \in Points /\ Decode32(c, lax).point = c
      /\ Decode32(c, lax).point = Invalid => c \notin Points \/ IsSurrogate(c)
  BY SMT DEF Decode32, Points, Invalid
<1>3. q = Measure32(c, to)
  <2>1. HasTranscoder("utf32", to)
    BY DEF HasTranscoder
  <2>. QED BY <2>1, Zenon DEF Measure
<1>. HIDE DEF r, q
<1>4. CASE r.point # Invalid
  <2>1. r.point = c /\ c \in Points
    BY <1>1, <1>2, <1>4, Zenon
  <2>2. q.units = 1
    BY <1>3, Measure32Is, Zenon
  <2>3. q.size = SizeOf(to, c)
    BY <1>3, <2>1, Measure32OfPoint, Zenon
  <2>. QED BY <1>1, <1>2, <2>1, <2>2, <2>3, Zenon DEF r, q
<1>5. CASE r.point = Invalid
  <2>1. c \notin Points \/ IsSurrogate(c)
    BY <1>1, <1>2, <1>5, Zenon
  <2>2. Size32To8(c) = 3
    <3>1. CASE c \notin Points
      BY SMT, <3>1 DEF Size32To8, Points
    <3>2. CASE IsSurrogate(c)
      <4>1. c >= 55296 /\ c <= 57343
        BY SMT, <3>2 DEF IsSurrogate
      <4>2. Size8(c) = 3
        BY SMT, <4>1 DEF Size8
      <4>. QED BY SMT, <4>1, <4>2, Reached8 DEF Size32To8
    <3>. QED BY <2>1, <3>1, <3>2
  <2>3. Size32To16(c) = 1
    <3>1. IsSurrogate(c) => Size16(c) = 1
      BY SMT DEF IsSurrogate, Size16
    <3>. QED BY <2>1, <3>1, Size32To16Is, Zenon
  <2>4. q.size = SizeOf(to, Invalid)
    <3>1. q.units = 1 /\ q.size = IF to = "utf8" THEN 3 ELSE 1
      BY <1>3, <2>2, <2>3, Measure32Is, Zenon
    <3>. QED BY <3>1, Zenon DEF SizeOf
  <2>5. q.units = 1
    BY <1>3, Measure32Is, Zenon
  <2>. QED BY <1>1, <1>2, <1>5, <2>4, <2>5, Zenon DEF r, q
<1>. QED BY <1>4, <1>5

LEMMA StepByte ==
  ASSUME NEW from \in Charsets, NEW s, s[1] \in Bytes, NEW lax \in BOOLEAN,
         NEW after \in Words, NEW to \in Encodings, HasTranscoder(from, to)
  PROVE  LET r == ReadFront(from, to, s, after, lax)
             q == Measure(from, to, s, lax)
         IN /\ r.units = 1 /\ q.units = 1 /\ r.point \in Points \cup {Invalid}
            /\ q.size = SizeOf(to, r.point)
<1>. DEFINE r == ReadFront(from, to, s, after, lax)
            q == Measure(from, to, s, lax)
<1>1. from # "utf8" /\ from # "utf16" /\ from # "utf32"
  BY DEF Charsets
<1>2. r = DecodeByte(from, s)
  BY <1>1, Zenon DEF ReadFront
<1>3. r.units = 1 /\ r.point = DecodeChar(from, s[1])
  BY <1>2 DEF DecodeByte
<1>4. q = [units |-> 1, size |-> 1]
  BY <1>1, Zenon DEF Measure
<1>5. SizeOf(to, r.point) = 1
  <2>1. to # "utf8" /\ to # "utf16"
    BY <1>1 DEF HasTranscoder
  <2>. QED BY <2>1, Zenon DEF SizeOf
<1>. HIDE DEF r, q
<1>6. q.units = 1 /\ q.size = 1
  BY <1>4
<1>. QED BY <1>3, <1>5, <1>6, DecodeCharRange, Zenon DEF r, q

(* A place in a source where the transcoders and the size functions do not *)
(* see the same (see Ambiguous).                                           *)
Unclear(from, to, s, after) ==
  /\ to = "utf8"
  /\ \/ from = "utf8" /\ ~(s[1] < 248)
     \/ from = "utf16" /\ Len(s) = 1 /\ IsHigh(s[1]) /\ IsLow(after)

LEMMA UnitsIs ==
  /\ Units("utf8") = Bytes /\ Units("utf16") = Words /\ Units("utf32") = Nat
  /\ \A enc \in Charsets : Units(enc) = Bytes
<1>1. \A enc \in Charsets : enc # "utf16" /\ enc # "utf32"
  BY DEF Charsets
<1>2. "utf8" # "utf16" /\ "utf8" # "utf32"
  OBVIOUS
<1>3. Units("utf16") = Words
  BY Zenon DEF Units
<1>4. Units("utf32") = Nat
  BY Zenon DEF Units
<1>5. Units("utf8") = Bytes
  BY <1>2, Zenon DEF Units
<1>6. \A enc \in Charsets : Units(enc) = Bytes
  BY <1>1, Zenon DEF Units
<1>. QED BY <1>3, <1>4, <1>5, <1>6

LEMMA FrontOf ==
  ASSUME NEW A, NEW s \in Seq(A), s # <<>>
  PROVE  s[1] \in A /\ Len(s) \in Nat /\ Len(s) >= 1
  BY ElementOfSeq

(* How many units the size functions go on.                                *)
LEMMA UnitsMeasured8 ==
  ASSUME NEW s \in Seq(Bytes), s # <<>>, NEW lax \in BOOLEAN
  PROVE  /\ Taken(s, lax, Lenient) \in Nat /\ Taken(s, lax, Lenient) >= 1
         /\ Taken(s, lax, Lenient) <= Len(s)
<1>1. Lenient \in Nat
  BY ByTops
<1>2. Taken(s, lax, Lenient) \in 1 .. 4 /\ Taken(s, lax, Lenient) <= Len(s)
  BY <1>1, TakenFits, Zenon
<1>. QED BY <1>2

LEMMA UnitsOfPair ==
  ASSUME NEW s, Len(s) \in Nat, Len(s) >= 1, NEW n, n = IF IsPair(s) THEN 2 ELSE 1
  PROVE  n \in Nat /\ n >= 1 /\ n <= Len(s)
<1>1. IsPair(s) => Len(s) > 1
  BY Zenon DEF IsPair
<1>2. CASE IsPair(s)
  BY <1>1, <1>2
<1>3. CASE ~IsPair(s)
  BY <1>3
<1>. QED BY <1>2, <1>3

(* Where there is a transcoder, its size function takes as many units for  *)
(* a character as it does, and counts as many as it writes.                *)
LEMMA StepRight ==
  ASSUME NEW from \in Encodings, NEW to \in Encodings, NEW s \in Seq(Units(from)), s # <<>>,
         NEW lax \in BOOLEAN, NEW after \in Words,
         HasTranscoder(from, to), ~Unclear(from, to, s, after)
  PROVE  LET r == ReadFront(from, to, s, after, lax)
             q == Measure(from, to, s, lax)
         IN /\ r.units = q.units /\ q.units \in Nat /\ q.units >= 1 /\ q.units <= Len(s)
            /\ r.point \in Points \cup {Invalid}
            /\ q.size = SizeOf(to, r.point)
<1>. DEFINE r == ReadFront(from, to, s, after, lax)
            q == Measure(from, to, s, lax)
<1>1. s[1] \in Units(from) /\ Len(s) \in Nat /\ Len(s) >= 1
  BY FrontOf
<1>2. to \in {"utf8", "utf16", "utf32"} \/ to \in Charsets
  BY DEF Encodings
<1>3. CASE from = "utf8"
  <2>1. to \in {"utf8", "utf16", "utf32"}
    BY <1>2, <1>3 DEF HasTranscoder, Charsets
  <2>2. s \in Seq(Bytes)
    BY <1>3, UnitsIs
  <2>3. to = "utf8" => s[1] < 248
    BY <1>3, Zenon DEF Unclear
  <2>4. /\ r.units = q.units /\ r.point \in Points \cup {Invalid}
        /\ q.size = SizeOf(to, r.point)
    BY <1>3, <2>1, <2>2, <2>3, Step8, Zenon
  <2>5. q.units = Taken(s, lax, Lenient)
    BY <1>3, <2>1, Measure8Is, Zenon
  <2>6. q.units \in Nat /\ q.units >= 1 /\ q.units <= Len(s)
    BY <2>2, <2>5, UnitsMeasured8, Zenon
  <2>. QED BY <2>4, <2>6, Zenon
<1>4. CASE from = "utf16"
  <2>1. to \in {"utf8", "utf16", "utf32"}
    BY <1>2, <1>4 DEF HasTranscoder, Charsets
  <2>2. s \in Seq(Words)
    BY <1>4, UnitsIs
  <2>3. to = "utf8" => ~(Len(s) = 1 /\ IsHigh(s[1]) /\ IsLow(after))
    BY <1>4, Zenon DEF Unclear
  <2>4. /\ r.units = q.units /\ r.point \in Points \cup {Invalid}
        /\ q.size = SizeOf(to, r.point)
    BY <1>4, <2>1, <2>2, <2>3, Step16, Zenon
  <2>5. q.units = IF IsPair(s) THEN 2 ELSE 1
    BY <1>4, <2>1, Measure16Is, Zenon
  <2>6. q.units \in Nat /\ q.units >= 1 /\ q.units <= Len(s)
    BY <1>1, <2>5, UnitsOfPair, Zenon
  <2>. QED BY <2>4, <2>6, Zenon
<1>5. CASE from = "utf32"
  <2>1. s[1] \in Nat
    BY <1>1, <1>5, UnitsIs
  <2>2. /\ r.units = 1 /\ q.units = 1 /\ r.point \in Points \cup {Invalid}
        /\ q.size = SizeOf(to, r.point)
    BY <1>5, <2>1, Step32, Zenon
  <2>3. \A n : n = 1 => n \in Nat /\ n >= 1 /\ n <= Len(s)
    BY <1>1
  <2>. QED BY <2>2, <2>3, Zenon
<1>6. CASE from \in Charsets
  <2>2. s[1] \in Bytes
    BY <1>1, <1>6, UnitsIs
  <2>3. /\ r.units = 1 /\ q.units = 1 /\ r.point \in Points \cup {Invalid}
        /\ q.size = SizeOf(to, r.point)
    BY <1>6, <2>2, StepByte, Zenon
  <2>4. \A n : n = 1 => n \in Nat /\ n >= 1 /\ n <= Len(s)
    BY <1>1
  <2>. QED BY <2>3, <2>4, Zenon
<1>. QED BY <1>3, <1>4, <1>5, <1>6 DEF Encodings

(* Where there is none, decode_encode reads like the one to UTF-32, and    *)
(* the size is that of the code point it puts into its buffer.             *)
LEMMA StepTwice ==
  ASSUME NEW from \in Encodings, NEW to \in Encodings, NEW s \in Seq(Units(from)), s # <<>>,
         NEW lax \in BOOLEAN, NEW after \in Words, ~HasTranscoder(from, to)
  PROVE  LET r == ReadFront(from, "utf32", s, after, lax)
             q == Measure(from, to, s, lax)
             c == Written("utf32", r.point)[1]
         IN /\ r.units = q.units /\ q.units \in Nat /\ q.units >= 1 /\ q.units <= Len(s)
            /\ c \in Points /\ q.size = SizeOf(to, c)
<1>. DEFINE r == ReadFront(from, "utf32", s, after, lax)
            r0 == ReadFront(from, "utf32", s, 0, lax)
            q == Measure(from, to, s, lax)
            c == Written("utf32", r.point)[1]
            c0 == IF r0.point = Invalid THEN Replacement ELSE r0.point
            m == Measure(from, "utf32", s, lax)
<1>1. from # "utf32" /\ HasTranscoder(from, "utf32") /\ ~Unclear(from, "utf32", s, after)
  BY DEF HasTranscoder, Unclear
<1>2. /\ r.units = m.units /\ m.units \in Nat /\ m.units >= 1 /\ m.units <= Len(s)
      /\ r.point \in Points \cup {Invalid}
  <2>1. "utf32" \in Encodings
    BY DEF Encodings
  <2>. QED BY <1>1, <2>1, StepRight, Zenon
<1>3. r0 = r
  <2>1. CASE from = "utf8"
    BY <2>1, Zenon DEF ReadFront
  <2>2. CASE from = "utf16"
    <3>1. "utf32" # "utf8"
      OBVIOUS
    <3>. QED BY <2>2, <3>1, Zenon DEF ReadFront
  <2>3. CASE from \in Charsets
    <3>1. from # "utf8" /\ from # "utf16" /\ from # "utf32"
      BY <2>3 DEF Charsets
    <3>. QED BY <3>1, Zenon DEF ReadFront
  <2>. QED BY <1>1, <2>1, <2>2, <2>3 DEF Encodings
<1>4. q = [units |-> r0.units, size |-> Measure32(c0, to).size]
  <2>1. Measure(from, to, s, lax) = MeasureTwice(from, to, s, lax)
    BY Zenon DEF Measure
  <2>. QED BY <2>1, Zenon DEF MeasureTwice
<1>5. c0 = c /\ c \in Points
  <2>1. CASE r.point = Invalid
    <3>1. Written("utf32", r.point) = <<Replacement>>
      BY <2>1, Written32
    <3>2. c = Replacement
      BY <3>1
    <3>. QED BY <1>3, <2>1, <3>2, ReplacementIs, Zenon
  <2>2. CASE r.point # Invalid
    <3>1. r.point \in Points /\ r.point \in Nat
      BY <1>2, <2>2, PointsAreNat
    <3>2. Written("utf32", r.point) = <<r.point>>
      BY <3>1, Written32
    <3>3. c = r.point
      BY <3>2
    <3>. QED BY <1>3, <2>2, <3>1, <3>3, Zenon
  <2>. QED BY <2>1, <2>2
<1>. HIDE DEF r, r0, q, c, c0, m
<1>6. q.units = r0.units /\ q.size = Measure32(c0, to).size
  BY <1>4
<1>7. q.size = SizeOf(to, c)
  BY <1>5, <1>6, Measure32OfPoint, Zenon
<1>. QED BY <1>2, <1>3, <1>5, <1>6, <1>7, Zenon DEF r, q, c

LEMMA SizeOfIsNat == \A to, c : SizeOf(to, c) \in Nat
<1>1. ASSUME NEW to, NEW c PROVE SizeOf(to, c) \in {1, 2, 3, 4}
  BY SMT DEF SizeOf, Size8, Size16
<1>. QED BY <1>1

(* In either case.                                                         *)
LEMMA UnitsMeasured ==
  ASSUME NEW from \in Encodings, NEW to \in Encodings, NEW s \in Seq(Units(from)), s # <<>>,
         NEW lax \in BOOLEAN, NEW after \in Words, ~Unclear(from, to, s, after)
  PROVE  LET q == Measure(from, to, s, lax)
         IN q.units \in Nat /\ q.units >= 1 /\ q.units <= Len(s) /\ q.size \in Nat
<1>1. \A c : SizeOf(to, c) \in Nat
  BY SizeOfIsNat
<1>. DEFINE q == Measure(from, to, s, lax)
<1>2. CASE HasTranscoder(from, to)
  <2>. DEFINE r == ReadFront(from, to, s, after, lax)
  <2>1. /\ q.units \in Nat /\ q.units >= 1 /\ q.units <= Len(s)
        /\ r.point \in Points \cup {Invalid} /\ q.size = SizeOf(to, r.point)
    BY <1>2, StepRight, Zenon
  <2>. HIDE DEF r, q
  <2>. QED BY <1>1, <2>1, Zenon DEF q
<1>3. CASE ~HasTranscoder(from, to)
  <2>. DEFINE c == Written("utf32", ReadFront(from, "utf32", s, after, lax).point)[1]
  <2>1. /\ q.units \in Nat /\ q.units >= 1 /\ q.units <= Len(s)
        /\ c \in Points /\ q.size = SizeOf(to, c)
    BY <1>3, StepTwice, Zenon
  <2>. HIDE DEF c, q
  <2>. QED BY <1>1, <2>1, Zenon DEF q
<1>. QED BY <1>2, <1>3

-----------------------------------------------------------------------------
(* The whole source.                                                       *)
From(src, i) == SubSeq(src, i, Len(src))

(* The source has no such place.                                           *)
LEMMA RestOf ==
  ASSUME NEW A, NEW src \in Seq(A), NEW i \in 1 .. Len(src)
  PROVE  /\ From(src, i) \in Seq(A) /\ From(src, i) # <<>>
         /\ Len(From(src, i)) = Len(src) + 1 - i
         /\ From(src, i)[1] = src[i] /\ i \in DOMAIN src
<1>1. Len(From(src, i)) = Len(src) + 1 - i /\ From(src, i) \in Seq(A)
  BY DEF From
<1>2. From(src, i)[1] = src[i]
  BY DEF From
<1>. QED BY <1>1, <1>2

(* f counts as necessary_size does, from every place of the source on.     *)
Counts(f, from, to, src, lax) ==
  /\ f \in [1 .. Len(src) + 1 -> Nat] /\ f[Len(src) + 1] = 0
  /\ \A i \in 1 .. Len(src) :
       LET q == Measure(from, to, From(src, i), lax) IN f[i] = q.size + f[i + q.units]
  /\ NecessarySize(from, to, src, lax) = f[1]

LEMMA SizeIsCounted ==
  ASSUME NEW from \in Encodings, NEW to \in Encodings, NEW src \in Seq(Units(from)),
         NEW lax \in BOOLEAN, NEW after \in Words,
         \A i \in 1 .. Len(src) : ~Unclear(from, to, From(src, i), after)
  PROVE  \E f : Counts(f, from, to, src, lax)
<1>. DEFINE n == Len(src)
            q(i) == Measure(from, to, From(src, i), lax)
            z == [i \in 1 .. n |-> q(i).size]
            u == [i \in 1 .. n |-> q(i).units]
            B(f) == [i \in 1 .. n + 1 |-> IF i > n THEN 0 ELSE z[i] + f[i + u[i]]]
            C(f) == [i \in 1 .. n + 1 |->
                       IF i > n THEN 0
                       ELSE LET p == Measure(from, to, SubSeq(src, i, n), lax)
                            IN p.size + f[i + p.units]]
<1>1. ASSUME NEW i \in 1 .. n
      PROVE  q(i).units \in Nat /\ q(i).units >= 1 /\ q(i).units <= n + 1 - i /\ q(i).size \in Nat
  <2>1. /\ From(src, i) \in Seq(Units(from)) /\ From(src, i) # <<>>
        /\ Len(From(src, i)) = n + 1 - i
    BY RestOf
  <2>2. ~Unclear(from, to, From(src, i), after)
    OBVIOUS
  <2>3. /\ q(i).units \in Nat /\ q(i).units >= 1 /\ q(i).units <= Len(From(src, i))
        /\ q(i).size \in Nat
    BY <2>1, <2>2, UnitsMeasured, Zenon
  <2>. QED BY <2>1, <2>3, Zenon
<1>2. n \in Nat
  OBVIOUS
<1>. HIDE DEF q
<1>3. z \in [1 .. n -> Nat] /\ u \in [1 .. n -> Nat]
  BY <1>1
<1>4. \A i \in 1 .. n : u[i] >= 1 /\ i + u[i] <= n + 1
  BY <1>1, <1>2
<1>5. ASSUME NEW f PROVE B(f) = C(f)
  <2>1. ASSUME NEW i \in 1 .. n + 1
        PROVE  (IF i > n THEN 0 ELSE z[i] + f[i + u[i]])
                 = IF i > n THEN 0 ELSE LET p == Measure(from, to, SubSeq(src, i, n), lax)
                                        IN p.size + f[i + p.units]
    <3>1. CASE i > n
      BY <3>1, Zenon
    <3>2. CASE ~(i > n)
      <4>1. i \in 1 .. n
        BY <1>2, <3>2
      <4>2. z[i] = q(i).size /\ u[i] = q(i).units
        BY <4>1, Zenon
      <4>3. q(i) = Measure(from, to, SubSeq(src, i, n), lax)
        BY Zenon DEF q, From
      <4>. HIDE DEF z, u, n
      <4>. QED BY <3>2, <4>2, <4>3, Zenon
    <3>. QED BY <3>1, <3>2
  <2>. QED BY <2>1, Zenon
<1>. DEFINE f == CHOOSE f : f = C(f)
<1>6. NecessarySize(from, to, src, lax) = f[1]
  BY Zenon DEF NecessarySize
<1>7. f = C(f)
  <2>. HIDE DEF z, u, n
  <2>1. \E g : g = B(g)
    BY <1>2, <1>3, <1>4, CountExists, Zenon
  <2>2. \E g : g = C(g)
    <3>1. PICK g : g = B(g)
      BY <2>1
    <3>2. B(g) = C(g)
      BY <1>5
    <3>. HIDE DEF B, C
    <3>. QED BY <3>1, <3>2, Zenon
  <2>. HIDE DEF C
  <2>. QED BY <2>2, Zenon
<1>. HIDE DEF f
<1>8. f = B(f)
  <2>1. B(f) = C(f)
    BY <1>5
  <2>. HIDE DEF B, C
  <2>. QED BY <1>7, <2>1, Zenon
<1>9. /\ f \in [1 .. n + 1 -> Nat] /\ f[n + 1] = 0
      /\ \A i \in 1 .. n : f[i] = z[i] + f[i + u[i]]
  <2>1. f = [i \in 1 .. n + 1 |-> IF i > n THEN 0 ELSE z[i] + f[i + u[i]]]
    BY <1>8, Zenon
  <2>. HIDE DEF z, u, n
  <2>2. \A g : g = [i \in 1 .. n + 1 |-> IF i > n THEN 0 ELSE z[i] + g[i + u[i]]]
               => /\ g \in [1 .. n + 1 -> Nat] /\ g[n + 1] = 0
                  /\ \A i \in 1 .. n : g[i] = z[i] + g[i + u[i]]
    BY <1>2, <1>3, <1>4, CountDown, Zenon
  <2>. QED BY <2>1, <2>2, Zenon
<1>10. \A i \in 1 .. n : f[i] = q(i).size + f[i + q(i).units]
  BY <1>9
<1>11. Counts(f, from, to, src, lax)
  BY <1>6, <1>9, <1>10, Zenon DEF Counts, q
<1>. QED BY <1>11

Clear == ~(Ambiguous /\ job.to = "utf8")

Job == [from : Encodings, to : Encodings, src : UNION {Seq(Units(e)) : e \in Encodings},
        after : Words, lax : BOOLEAN, stop : BOOLEAN]

JobOK == job \in Job /\ job.src \in Seq(Units(job.from))

(* S[n] is how much the first n of the code points that are pending will   *)
(* take.                                                                   *)
PendingSizes(S) ==
  /\ S \in [0 .. Len(pending) -> Nat] /\ S[0] = 0
  /\ \A i \in 1 .. Len(pending) : S[i] = S[i - 1] + SizeOf(job.to, pending[i])

CountsOfJob(f) == Counts(f, job.from, job.to, job.src, job.lax)

(* What has been written, what will be for the code points that are        *)
(* pending, and what is counted from the first unit not yet read, is all   *)
(* that is counted.                                                        *)
Balanced ==
  /\ text \in Seq(Nat)
  /\ \E f, S : /\ CountsOfJob(f) /\ PendingSizes(S)
               /\ Len(text) + S[Len(pending)] + f[at] = f[1]

SizeInv ==
  /\ JobOK
  /\ Clear => /\ at \in Nat /\ at >= 1 /\ at <= Len(job.src) + 1
              /\ pending \in Seq(Points)
              /\ status \in {"going", "done"} => Balanced
              /\ status = "done" => at = Len(job.src) + 1 /\ pending = <<>>

LEMMA JobParts ==
  ASSUME JobOK
  PROVE  /\ job.from \in Encodings /\ job.to \in Encodings /\ job.src \in Seq(Units(job.from))
         /\ job.lax \in BOOLEAN /\ job.after \in Words
         /\ Len(job.src) \in Nat
  BY DEF JobOK, Job

(* No place of an unambiguous source is one that not all functions take    *)
(* for the same.                                                           *)
LEMMA UnambiguousPlaces ==
  ASSUME JobOK, ~Ambiguous
  PROVE  \A i \in 1 .. Len(job.src) :
           ~Unclear(job.from, "utf8", From(job.src, i), job.after)
<1>. SUFFICES ASSUME NEW i \in 1 .. Len(job.src),
                     Unclear(job.from, "utf8", From(job.src, i), job.after)
              PROVE  FALSE
  OBVIOUS
<1>. DEFINE s == job.src
<1>0. s \in Seq(Units(job.from)) /\ Len(s) \in Nat /\ i \in 1 .. Len(s)
  BY JobParts
<1>. HIDE DEF s
<1>1. /\ From(s, i)[1] = s[i] /\ i \in DOMAIN s
      /\ Len(From(s, i)) = Len(s) + 1 - i /\ s # <<>>
  <2>1. From(s, i)[1] = s[i] /\ i \in DOMAIN s /\ Len(From(s, i)) = Len(s) + 1 - i
    BY <1>0, RestOf, Zenon
  <2>. QED BY <1>0, <2>1
<1>3. CASE job.from = "utf8" /\ ~(s[i] < 248)
  <2>1. s[i] \in Nat
    <3>1. s \in Seq(Bytes)
      BY <1>0, <1>3, UnitsIs
    <3>2. s[i] \in Bytes
      BY <1>0, <3>1, ElementOfSeq
    <3>3. Bytes \subseteq Nat
      BY DEF Bytes
    <3>. QED BY <3>2, <3>3, Zenon
  <2>2. s[i] > 247
    BY <1>3, <2>1
  <2>3. Ambiguous
    BY <1>1, <1>3, <2>2 DEF Ambiguous, s
  <2>. QED BY <2>3
<1>4. CASE /\ job.from = "utf16" /\ Len(From(s, i)) = 1
           /\ IsHigh(s[i]) /\ IsLow(job.after)
  <2>1. i = Len(s)
    <3>1. Len(s) + 1 - i = 1
      BY <1>1, <1>4, Zenon
    <3>. QED BY <1>0, <3>1
  <2>2. Last(s) = s[i]
    BY <2>1 DEF Last
  <2>3. Ambiguous
    BY <1>1, <1>4, <2>2, Zenon DEF Ambiguous, s
  <2>. QED BY <2>3
<1>. QED BY <1>1, <1>3, <1>4, Zenon DEF Unclear, s

LEMMA ClearPlaces ==
  ASSUME JobOK, Clear
  PROVE  \A i \in 1 .. Len(job.src) :
           ~Unclear(job.from, job.to, From(job.src, i), job.after)
<1>1. CASE job.to = "utf8"
  BY <1>1, UnambiguousPlaces, Zenon DEF Clear
<1>2. CASE job.to # "utf8"
  BY <1>2, Zenon DEF Unclear
<1>. QED BY <1>1, <1>2

LEMMA SizeBegins ==
  ASSUME JobOK, TextBegins
  PROVE  SizeInv
<1>1. at = 1 /\ pending = <<>> /\ text = <<>> /\ status = "going"
  BY Zenon DEF TextBegins
<1>2. ASSUME Clear PROVE Balanced
  <2>1. PICK f : CountsOfJob(f)
    BY <1>2, ClearPlaces, JobParts, SizeIsCounted, Zenon DEF CountsOfJob
  <2>. DEFINE S == [i \in 0 .. 0 |-> 0]
  <2>2. PendingSizes(S)
    BY <1>1 DEF PendingSizes
  <2>3. f[1] \in Nat
    BY <2>1, JobParts DEF CountsOfJob, Counts
  <2>4. Len(text) + S[Len(pending)] + f[at] = f[1] /\ text \in Seq(Nat)
    BY <1>1, <2>3
  <2>. HIDE DEF S
  <2>. QED BY <2>1, <2>2, <2>4, Zenon DEF Balanced
<1>3. at \in Nat /\ at >= 1 /\ at <= Len(job.src) + 1 /\ pending \in Seq(Points)
  BY <1>1, JobParts
<1>4. status # "done"
  BY <1>1
<1>. QED BY <1>2, <1>3, <1>4, Zenon DEF SizeInv

LEMMA SizeInit ==
  ASSUME TextInit
  PROVE  SizeInv
<1>1. PICK from \in Encodings, to \in Targets, lax \in BOOLEAN, stop \in BOOLEAN :
        \E src \in Sources(from), after \in IF from = "utf16" THEN After ELSE {0} :
          job = [from |-> from, to |-> to, src |-> src, after |-> after,
                 lax |-> lax, stop |-> stop]
  BY Zenon DEF TextInit, TextBegins
<1>2. PICK src \in Sources(from), after \in IF from = "utf16" THEN After ELSE {0} :
        job = [from |-> from, to |-> to, src |-> src, after |-> after,
               lax |-> lax, stop |-> stop]
  BY <1>1
<1>3. to \in Encodings /\ src \in Seq(Units(from)) /\ after \in Words
  <2>1. 0 \in Words
    BY SMT DEF Words
  <2>2. CASE from = "utf16"
    BY <2>1, <2>2, TranscodingAssumption, Zenon
  <2>3. CASE from # "utf16"
    BY <2>1, <2>3, TranscodingAssumption, Zenon
  <2>. QED BY <2>2, <2>3
<1>4. JobOK
  <2>1. src \in UNION {Seq(Units(e)) : e \in Encodings}
    BY <1>3, Zenon
  <2>2. job.src = src /\ job.from = from
    BY <1>2
  <2>. QED BY <1>2, <1>3, <2>1, <2>2 DEF JobOK, Job
<1>. QED BY <1>4, SizeBegins DEF TextInit

-----------------------------------------------------------------------------
LEMMA MoreIs ==
  ASSUME SizeInv, Clear, More
  PROVE  /\ at \in 1 .. Len(job.src) /\ Rest = From(job.src, at)
         /\ Rest \in Seq(Units(job.from)) /\ Rest # <<>> /\ Len(Rest) = Len(job.src) + 1 - at
         /\ ~Unclear(job.from, job.to, Rest, job.after)
<1>1. at \in 1 .. Len(job.src)
  BY JobParts DEF SizeInv, More
<1>2. Rest = From(job.src, at)
  BY DEF Rest, From
<1>3. JobOK
  BY DEF SizeInv
<1>. QED BY <1>1, <1>2, <1>3, JobParts, RestOf, ClearPlaces, Zenon

LEMMA SizeConvert == SizeInv /\ Convert => SizeInv'
<1>. SUFFICES ASSUME SizeInv, Convert PROVE SizeInv'
  OBVIOUS
<1>. USE DEF Convert
<1>1. job' = job /\ pending' = pending /\ More /\ HasTranscoder(job.from, job.to)
  BY Zenon
<1>2. JobOK' /\ JobOK
  BY <1>1 DEF SizeInv, JobOK
<1>3. Clear' <=> Clear
  BY <1>1, Zenon DEF Clear, Ambiguous
<1>. SUFFICES ASSUME Clear
              PROVE  /\ at' \in Nat /\ at' >= 1 /\ at' <= Len(job.src) + 1
                     /\ status' \in {"going", "done"} => Balanced'
                     /\ status' # "done"
  BY <1>1, <1>2, <1>3 DEF SizeInv
<1>. DEFINE r == ReadFront(job.from, job.to, Rest, job.after, job.lax)
            q == Measure(job.from, job.to, Rest, job.lax)
<1>4. /\ at \in 1 .. Len(job.src) /\ Rest = From(job.src, at)
      /\ Rest \in Seq(Units(job.from)) /\ Rest # <<>> /\ Len(Rest) = Len(job.src) + 1 - at
      /\ ~Unclear(job.from, job.to, Rest, job.after)
  BY <1>1, MoreIs
<1>5. /\ r.units = q.units /\ q.units \in Nat /\ q.units >= 1 /\ q.units <= Len(Rest)
      /\ r.point \in Points \cup {Invalid}
      /\ q.size = SizeOf(job.to, r.point)
  <2>. HIDE DEF Convert
  <2>1. job.from \in Encodings /\ job.to \in Encodings /\ job.lax \in BOOLEAN /\ job.after \in Words
    BY <1>2, JobParts
  <2>2. job.from \in Encodings /\ Rest \in Seq(Units(job.from)) /\ Rest # <<>>
    BY <1>4, <2>1
  <2>3. HasTranscoder(job.from, job.to) /\ ~Unclear(job.from, job.to, Rest, job.after)
    BY <1>1, <1>4, Zenon
  <2>. DEFINE from == job.from
              to == job.to
              lax == job.lax
              after == job.after
              s == Rest
  <2>. HIDE DEF from, to, lax, after, s
  <2>4. /\ from \in Encodings /\ to \in Encodings /\ lax \in BOOLEAN /\ after \in Words
        /\ s \in Seq(Units(from)) /\ s # <<>> /\ HasTranscoder(from, to)
        /\ ~Unclear(from, to, s, after)
    BY <2>1, <2>2, <2>3, Zenon DEF from, to, lax, after, s
  <2>5. LET rr == ReadFront(from, to, s, after, lax)
            qq == Measure(from, to, s, lax)
        IN /\ rr.units = qq.units /\ qq.units \in Nat /\ qq.units >= 1 /\ qq.units <= Len(s)
           /\ rr.point \in Points \cup {Invalid} /\ qq.size = SizeOf(to, rr.point)
    BY <2>4, StepRight, Zenon
  <2>. QED BY <2>5, Zenon DEF from, to, lax, after, s
<1>6. status = "going" /\ Balanced
  <2>1. status = "going"
    BY <1>1, Zenon DEF More
  <2>. QED BY <2>1 DEF SizeInv
<1>7. CASE job.stop /\ IsError(job.to, r.point)
  <2>1. status' = "threw" /\ at' = at
    BY <1>7, Zenon
  <2>. QED BY <1>4, <2>1
<1>8. CASE ~(job.stop /\ IsError(job.to, r.point))
  <2>1. at' = at + r.units /\ text' = text \o Written(job.to, r.point) /\ status' = status
    BY <1>8, Zenon
  <2>. HIDE DEF r, q, Convert
  <2>2. at' \in Nat /\ at' >= 1 /\ at' <= Len(job.src) + 1
    BY <1>2, <1>4, <1>5, <2>1, JobParts
  <2>3. PICK f, S : /\ CountsOfJob(f) /\ PendingSizes(S)
                    /\ Len(text) + S[Len(pending)] + f[at] = f[1]
    BY <1>6, Zenon DEF Balanced
  <2>4. Written(job.to, r.point) \in Seq(Nat) /\ Len(Written(job.to, r.point)) = q.size
    <3>1. r.point \in Nat \cup {Invalid}
      BY <1>5, PointsAreNat
    <3>. QED BY <1>2, <1>5, <3>1, JobParts, WrittenLength, Zenon
  <2>5. text \in Seq(Nat)
    BY <1>6 DEF Balanced
  <2>6. text' \in Seq(Nat) /\ Len(text') = Len(text) + q.size
    <3>1. \A a, b \in Seq(Nat) : a \o b \in Seq(Nat) /\ Len(a \o b) = Len(a) + Len(b)
      BY ConcatProperties
    <3>. QED BY <2>1, <2>4, <2>5, <3>1, Zenon
  <2>7. /\ f[at] = q.size + f[at'] /\ f[at'] \in Nat /\ f[at] \in Nat /\ f[1] \in Nat
        /\ q.size \in Nat
    <3>1. f[at] = q.size + f[at + q.units]
      BY <1>4, <2>3, Zenon DEF CountsOfJob, Counts, q
    <3>2. at + q.units = at'
      BY <1>5, <2>1
    <3>3. f \in [1 .. Len(job.src) + 1 -> Nat]
      BY <2>3 DEF CountsOfJob, Counts
    <3>4. /\ at' \in 1 .. Len(job.src) + 1 /\ at \in 1 .. Len(job.src) + 1
          /\ 1 \in 1 .. Len(job.src) + 1
      BY <1>2, <1>4, <2>2, JobParts
    <3>5. q.size \in Nat
      BY <2>4
    <3>. QED BY <3>1, <3>2, <3>3, <3>4, <3>5
  <2>8. S[Len(pending)] \in Nat /\ Len(text) \in Nat
    <3>1. pending \in Seq(Points)
      BY DEF SizeInv
    <3>. QED BY <2>3, <2>5, <3>1 DEF PendingSizes
  <2>9. Len(text') + S[Len(pending)] + f[at'] = f[1]
    BY <2>3, <2>6, <2>7, <2>8
  <2>10. CountsOfJob(f)' /\ PendingSizes(S)'
    BY <1>1, <2>3, Zenon DEF CountsOfJob, PendingSizes
  <2>11. Balanced'
    BY <1>1, <2>6, <2>9, <2>10, Zenon DEF Balanced
  <2>. QED BY <1>6, <2>1, <2>2, <2>11
<1>. QED BY <1>7, <1>8

LEMMA SizeFinish == SizeInv /\ Finish => SizeInv'
<1>. SUFFICES ASSUME SizeInv, Finish PROVE SizeInv'
  OBVIOUS
<1>1. /\ job' = job /\ at' = at /\ pending' = pending /\ text' = text
      /\ status = "going" /\ at > Len(job.src) /\ pending = <<>>
  BY Zenon DEF Finish
<1>2. JobOK' /\ Len(job.src) \in Nat
  BY <1>1, JobParts DEF SizeInv, JobOK
<1>3. Clear' <=> Clear
  BY <1>1, Zenon DEF Clear, Ambiguous
<1>4. Balanced' <=> Balanced
  BY <1>1, Zenon DEF Balanced, CountsOfJob, PendingSizes
<1>5. Clear => at = Len(job.src) + 1
  BY <1>1, <1>2 DEF SizeInv
<1>. QED BY <1>1, <1>2, <1>3, <1>4, <1>5 DEF SizeInv

LEMMA SizeExactFromInv == SizeInv => SizeExact
<1>. SUFFICES ASSUME SizeInv, status = "done", Clear
              PROVE  Len(text) = NecessarySize(job.from, job.to, job.src, job.lax)
  BY DEF SizeExact, Clear
<1>1. at = Len(job.src) + 1 /\ pending = <<>> /\ Balanced
  BY DEF SizeInv
<1>2. PICK f, S : /\ CountsOfJob(f) /\ PendingSizes(S) /\ Len(text) + S[Len(pending)] + f[at] = f[1]
  BY <1>1, Zenon DEF Balanced
<1>3. S[Len(pending)] = 0 /\ f[at] = 0 /\ f[1] = NecessarySize(job.from, job.to, job.src, job.lax)
  BY <1>1, <1>2 DEF PendingSizes, CountsOfJob, Counts
<1>4. Len(text) \in Nat
  BY <1>1 DEF Balanced
<1>. QED BY <1>2, <1>3, <1>4

LEMMA SizeBuffer == SizeInv /\ Buffer => SizeInv'
<1>. SUFFICES ASSUME SizeInv, Buffer PROVE SizeInv'
  OBVIOUS
<1>. DEFINE r == ReadFront(job.from, "utf32", Rest, job.after, job.lax)
            q == Measure(job.from, job.to, Rest, job.lax)
            c == Written("utf32", r.point)[1]
            n == Len(pending)
<1>1. /\ job' = job /\ text' = text /\ More /\ ~HasTranscoder(job.from, job.to)
      /\ \/ status' = "threw" /\ at' = at /\ pending' = pending
         \/ at' = at + r.units /\ pending' = Append(pending, c) /\ status' = status
  BY Zenon DEF Buffer
<1>2. JobOK' /\ JobOK
  BY <1>1 DEF SizeInv, JobOK
<1>3. Clear' <=> Clear
  BY <1>1, Zenon DEF Clear, Ambiguous
<1>. SUFFICES ASSUME Clear
              PROVE  /\ at' \in Nat /\ at' >= 1 /\ at' <= Len(job.src) + 1
                     /\ pending' \in Seq(Points)
                     /\ status' \in {"going", "done"} => Balanced'
                     /\ status' # "done"
  BY <1>1, <1>2, <1>3 DEF SizeInv
<1>4. /\ at \in 1 .. Len(job.src) /\ Rest = From(job.src, at)
      /\ Rest \in Seq(Units(job.from)) /\ Rest # <<>> /\ Len(Rest) = Len(job.src) + 1 - at
  BY <1>1, MoreIs
<1>5. /\ r.units = q.units /\ q.units \in Nat /\ q.units >= 1 /\ q.units <= Len(Rest)
      /\ c \in Points /\ q.size = SizeOf(job.to, c)
  <2>1. /\ job.from \in Encodings /\ job.to \in Encodings /\ job.lax \in BOOLEAN
        /\ job.after \in Words
    BY <1>2, JobParts
  <2>. DEFINE from == job.from
              to == job.to
              lax == job.lax
              after == job.after
              s == Rest
  <2>. HIDE DEF from, to, lax, after, s
  <2>2. /\ from \in Encodings /\ to \in Encodings /\ lax \in BOOLEAN /\ after \in Words
        /\ s \in Seq(Units(from)) /\ s # <<>> /\ ~HasTranscoder(from, to)
    BY <1>1, <1>4, <2>1, Zenon DEF from, to, lax, after, s
  <2>3. LET rr == ReadFront(from, "utf32", s, after, lax)
            qq == Measure(from, to, s, lax)
            cc == Written("utf32", rr.point)[1]
        IN /\ rr.units = qq.units /\ qq.units \in Nat /\ qq.units >= 1 /\ qq.units <= Len(s)
           /\ cc \in Points /\ qq.size = SizeOf(to, cc)
    BY <2>2, StepTwice, Zenon
  <2>. QED BY <2>3, Zenon DEF from, to, lax, after, s
<1>6. status = "going" /\ Balanced /\ pending \in Seq(Points) /\ n \in Nat
  <2>1. status = "going"
    BY <1>1, Zenon DEF More
  <2>. QED BY <2>1 DEF SizeInv
<1>. HIDE DEF r, q, c
<1>7. CASE status' = "threw" /\ at' = at /\ pending' = pending
  BY <1>2, <1>4, <1>6, <1>7, JobParts
<1>8. CASE at' = at + r.units /\ pending' = Append(pending, c) /\ status' = status
  <2>1. at' \in Nat /\ at' >= 1 /\ at' <= Len(job.src) + 1
    BY <1>2, <1>4, <1>5, <1>8, JobParts
  <2>2. /\ pending' \in Seq(Points) /\ Len(pending') = n + 1 /\ pending'[n + 1] = c
        /\ \A i \in 1 .. n : pending'[i] = pending[i]
    BY <1>5, <1>6, <1>8
  <2>3. PICK f, S : CountsOfJob(f) /\ PendingSizes(S) /\ Len(text) + S[n] + f[at] = f[1]
    BY <1>6, Zenon DEF Balanced
  <2>. HIDE DEF n
  <2>4. f[at] = q.size + f[at'] /\ f[at'] \in Nat /\ q.size \in Nat
    <3>1. f[at] = q.size + f[at + q.units]
      BY <1>4, <2>3, Zenon DEF CountsOfJob, Counts, q
    <3>2. at + q.units = at'
      BY <1>5, <1>8
    <3>3. f \in [1 .. Len(job.src) + 1 -> Nat]
      BY <2>3 DEF CountsOfJob, Counts
    <3>4. at' \in 1 .. Len(job.src) + 1
      BY <1>2, <2>1, JobParts
    <3>5. q.size \in Nat
      BY <1>5, SizeOfIsNat
    <3>. QED BY <3>1, <3>2, <3>3, <3>4, <3>5
  <2>5. S \in [0 .. n -> Nat] /\ S[0] = 0
        /\ \A i \in 1 .. n : S[i] = S[i - 1] + SizeOf(job.to, pending[i])
    BY <2>3, Zenon DEF PendingSizes, n
  <2>6. PICK T : /\ T \in [0 .. n + 1 -> Nat] /\ T[0] = 0 /\ T[n + 1] = S[n] + q.size
                 /\ \A i \in 0 .. n : T[i] = S[i]
    <3>. DEFINE U == [i \in 0 .. n + 1 |-> IF i <= n THEN S[i] ELSE S[n] + q.size]
    <3>1. \A i \in 0 .. n : S[i] \in Nat
      BY <2>5
    <3>2. S[n] + q.size \in Nat
      BY <1>6, <2>4, <3>1 DEF n
    <3>3. /\ U \in [0 .. n + 1 -> Nat] /\ U[0] = 0 /\ U[n + 1] = S[n] + q.size
          /\ \A i \in 0 .. n : U[i] = S[i]
      BY <1>6, <2>5, <3>1, <3>2 DEF n
    <3>. HIDE DEF U
    <3>. QED BY <3>3, Zenon
  <2>7. \A i \in 1 .. n + 1 : T[i] = T[i - 1] + SizeOf(job.to, pending'[i])
    <3>. SUFFICES ASSUME NEW i \in 1 .. n + 1
                  PROVE  T[i] = T[i - 1] + SizeOf(job.to, pending'[i])
      OBVIOUS
    <3>0. n \in Nat
      BY <1>6
    <3>1. CASE i = n + 1
      <4>1. T[i - 1] = S[n]
        BY <2>6, <3>0, <3>1
      <4>. QED BY <1>5, <2>2, <2>6, <3>1, <4>1, Zenon
    <3>2. CASE i \in 1 .. n
      <4>1. i - 1 \in 0 .. n /\ i \in 0 .. n
        BY <3>0, <3>2
      <4>. QED BY <2>2, <2>5, <2>6, <3>2, <4>1, Zenon
    <3>. QED BY <3>0, <3>1, <3>2
  <2>8. PendingSizes(T)'
    <3>1. /\ T \in [0 .. Len(pending') -> Nat] /\ T[0] = 0
          /\ \A i \in 1 .. Len(pending') : T[i] = T[i - 1] + SizeOf(job'.to, pending'[i])
      BY <1>1, <2>2, <2>6, <2>7, Zenon
    <3>. QED BY <3>1, Zenon DEF PendingSizes
  <2>9. Len(text') + T[Len(pending')] + f[at'] = f[1]
    <3>1. S[n] \in Nat /\ Len(text) \in Nat
      BY <1>6, <2>5 DEF Balanced, n
    <3>2. T[Len(pending')] = S[n] + q.size /\ Len(text') = Len(text)
      BY <1>1, <2>2, <2>6, Zenon
    <3>. QED BY <2>3, <2>4, <3>1, <3>2
  <2>10. CountsOfJob(f)' /\ text' \in Seq(Nat)
    BY <1>1, <1>6, <2>3, Zenon DEF CountsOfJob, Balanced
  <2>11. Balanced'
    BY <2>8, <2>9, <2>10, Zenon DEF Balanced
  <2>. QED BY <1>6, <1>8, <2>1, <2>2, <2>11
<1>. QED BY <1>1, <1>7, <1>8

LEMMA SizeFlush == SizeInv /\ Flush => SizeInv'
<1>. SUFFICES ASSUME SizeInv, Flush PROVE SizeInv'
  OBVIOUS
<1>. DEFINE bad == {i \in DOMAIN pending : job.stop /\ IsError(job.to, pending[i])}
            n   == Min({Len(pending) + 1} \cup bad) - 1
            out == [i \in 1 .. n |-> Written(job.to, pending[i])]
<1>1. /\ job' = job /\ at' = at /\ status = "going" /\ pending' = <<>>
      /\ text' = text \o FlattenSeq(out)
      /\ status' = IF bad = {} THEN "going" ELSE "threw"
  BY Zenon DEF Flush
<1>2. JobOK' /\ JobOK
  BY <1>1 DEF SizeInv, JobOK
<1>3. Clear' <=> Clear
  BY <1>1, Zenon DEF Clear, Ambiguous
<1>4. status' # "done" /\ pending' \in Seq(Points)
  BY <1>1
<1>. SUFFICES ASSUME Clear, bad = {} PROVE Balanced'
  BY <1>1, <1>2, <1>3, <1>4 DEF SizeInv
<1>5. Balanced /\ pending \in Seq(Points) /\ Len(pending) \in Nat
  BY <1>1 DEF SizeInv
<1>6. n = Len(pending)
  <2>1. n = Min({Len(pending) + 1}) - 1
    <3>1. {Len(pending) + 1} \cup bad = {Len(pending) + 1}
      OBVIOUS
    <3>. HIDE DEF bad
    <3>. QED BY <3>1, Zenon
  <2>2. Min({Len(pending) + 1}) = Len(pending) + 1
    <3>1. \A x \in Nat : Min({x}) = x
      BY DEF Min
    <3>. QED BY <1>5, <3>1
  <2>. HIDE DEF n
  <2>. QED BY <1>5, <2>1, <2>2
<1>. HIDE DEF n, bad
<1>7. PICK f, S : CountsOfJob(f) /\ PendingSizes(S) /\ Len(text) + S[Len(pending)] + f[at] = f[1]
  BY <1>5, Zenon DEF Balanced
<1>8. \A i \in 1 .. n : /\ out[i] \in Seq(Nat)
                        /\ Len(out[i]) = SizeOf(job.to, pending[i])
  <2>. SUFFICES ASSUME NEW i \in 1 .. n
                PROVE  /\ Written(job.to, pending[i]) \in Seq(Nat)
                       /\ Len(Written(job.to, pending[i])) = SizeOf(job.to, pending[i])
    BY Zenon
  <2>1. pending[i] \in Nat \cup {Invalid}
    <3>1. pending[i] \in Points
      BY <1>5, <1>6, ElementOfSeq
    <3>. QED BY <3>1, PointsAreNat
  <2>. QED BY <1>2, <2>1, JobParts, WrittenLength, Zenon
<1>9. out \in Seq(Seq(Nat)) /\ Len(out) = n
  <2>1. n \in Nat
    BY <1>5, <1>6
  <2>2. \A i \in 1 .. n : Written(job.to, pending[i]) \in Seq(Nat)
    BY <1>8, Zenon
  <2>. QED BY <2>1, <2>2, IsASeq
<1>. HIDE DEF out
<1>10. /\ S \in [0 .. Len(out) -> Nat] /\ S[0] = 0
       /\ \A i \in 1 .. Len(out) : S[i] = S[i - 1] + Len(out[i])
  BY <1>6, <1>7, <1>8, <1>9, Zenon DEF PendingSizes
<1>11. FlattenSeq(out) \in Seq(Nat) /\ Len(FlattenSeq(out)) = S[Len(pending)]
  <2>1. FlattenSeq(out) \in Seq(Nat) /\ Len(FlattenSeq(out)) = S[Len(out)]
    BY <1>9, <1>10, JoinedLength, Zenon
  <2>. QED BY <1>6, <1>9, <2>1, Zenon
<1>12. text' \in Seq(Nat) /\ Len(text') = Len(text) + S[Len(pending)] /\ Len(text) \in Nat
  <2>1. \A a, b \in Seq(Nat) : a \o b \in Seq(Nat) /\ Len(a \o b) = Len(a) + Len(b)
    BY ConcatProperties
  <2>2. text \in Seq(Nat)
    BY <1>5 DEF Balanced
  <2>3. Len(text) \in Nat
    BY <2>2
  <2>. QED BY <1>1, <1>11, <2>1, <2>2, <2>3, Zenon
<1>. DEFINE T == [i \in 0 .. 0 |-> 0]
<1>13. PendingSizes(T)' /\ T[Len(pending')] = 0
  BY <1>1 DEF PendingSizes
<1>14. S[Len(pending)] \in Nat
  BY <1>5, <1>7 DEF PendingSizes
<1>15. Len(text') + T[Len(pending')] + f[at'] = f[1]
  <2>1. f[at'] = f[at]
    BY <1>1
  <2>2. Len(text') + T[Len(pending')] = Len(text) + S[Len(pending)]
    BY <1>12, <1>13, <1>14
  <2>. QED BY <1>7, <2>1, <2>2, Zenon
<1>16. CountsOfJob(f)'
  BY <1>1, <1>7, Zenon DEF CountsOfJob
<1>. HIDE DEF T
<1>. QED BY <1>12, <1>13, <1>15, <1>16, Zenon DEF Balanced

LEMMA SizeNext == SizeInv /\ [TextNext]_textVars => SizeInv'
<1>. SUFFICES ASSUME SizeInv, [TextNext]_textVars PROVE SizeInv'
  OBVIOUS
<1>1. CASE TextNext
  BY <1>1, SizeConvert, SizeBuffer, SizeFlush, SizeFinish, Zenon DEF TextNext
<1>2. CASE UNCHANGED textVars
  <2>1. /\ job' = job /\ at' = at /\ pending' = pending /\ text' = text /\ status' = status
    BY <1>2 DEF textVars
  <2>. QED BY <2>1, Zenon DEF SizeInv, JobOK, Clear, Ambiguous, Balanced, CountsOfJob, PendingSizes
<1>. QED BY <1>1, <1>2

-----------------------------------------------------------------------------
(* No single-byte encoding has a byte for a surrogate, or beyond Unicode.  *)
LEMMA NotFound ==
  ASSUME NEW pairs, NEW x, NEW else, \A p \in pairs : p[1] # x
  PROVE  Find(pairs, x, else) = else
  BY Zenon DEF Find

LowestSurrogate == 55296

LEMMA KeysEncode ==
  /\ \A p \in Encode3 : p[1] < LowestSurrogate
  /\ \A p \in Encode15 : p[1] < LowestSurrogate
  /\ \A p \in Encode1252 : p[1] < LowestSurrogate
<1>1. \A p \in Encode3 : p[1] < LowestSurrogate
  BY SMT DEF Encode3, LowestSurrogate
<1>2. \A p \in Encode15 : p[1] < LowestSurrogate
  BY SMT DEF Encode15, LowestSurrogate
<1>3. \A p \in Encode1252 : p[1] < LowestSurrogate
  BY SMT DEF Encode1252, LowestSurrogate
<1>. QED BY <1>1, <1>2, <1>3

LEMMA NoByteForBad ==
  ASSUME NEW enc \in Charsets, NEW c \in Nat, c >= LowestSurrogate
  PROVE  EncodeChar(enc, c) >= 256
<1>1. /\ \A p \in Encode3 : p[1] # c
      /\ \A p \in Encode15 : p[1] # c
      /\ \A p \in Encode1252 : p[1] # c
  BY SMT, KeysEncode DEF LowestSurrogate
<1>2. /\ ~(c < 128) /\ ~(c < 256)
      /\ c \notin (0 .. 255) \ Missing3 /\ c \notin (0 .. 255) \ Missing15
      /\ c \notin 0 .. 127 \cup 160 .. 255
  BY SMT DEF LowestSurrogate
<1>3. enc \in {"ascii", "iso_8859_1", "iso_8859_3", "iso_8859_15", "windows_1252"}
  BY DEF Charsets
<1>4. /\ Find(Encode3, c, IF c \in (0 .. 255) \ Missing3 THEN c ELSE NoByte) = NoByte
      /\ Find(Encode15, c, IF c \in (0 .. 255) \ Missing15 THEN c ELSE NoByte) = NoByte
      /\ Find(Encode1252, c, IF c \in 0 .. 127 \cup 160 .. 255 THEN c ELSE NoByte) = NoByte
  <2>. DEFINE e3 == IF c \in (0 .. 255) \ Missing3 THEN c ELSE NoByte
              e15 == IF c \in (0 .. 255) \ Missing15 THEN c ELSE NoByte
              e1252 == IF c \in 0 .. 127 \cup 160 .. 255 THEN c ELSE NoByte
  <2>1. e3 = NoByte /\ e15 = NoByte /\ e1252 = NoByte
    BY <1>2, Zenon
  <2>. HIDE DEF e3, e15, e1252
  <2>2. /\ Find(Encode3, c, e3) = e3 /\ Find(Encode15, c, e15) = e15
        /\ Find(Encode1252, c, e1252) = e1252
    BY <1>1, NotFound, Zenon
  <2>3. /\ Find(Encode3, c, e3) = NoByte /\ Find(Encode15, c, e15) = NoByte
        /\ Find(Encode1252, c, e1252) = NoByte
    BY <2>1, <2>2, Zenon
  <2>. QED BY <2>3, Zenon DEF e3, e15, e1252
<1>5. EncodeChar(enc, c) = NoByte
  <2>1. CASE enc = "ascii"
    BY <1>2, <2>1, EncodeCharIs, Zenon
  <2>2. CASE enc = "iso_8859_1"
    BY <1>2, <2>2, EncodeCharIs, Zenon
  <2>3. CASE enc = "iso_8859_3"
    BY <1>4, <2>3, EncodeCharIs, Zenon
  <2>4. CASE enc = "iso_8859_15"
    BY <1>4, <2>4, EncodeCharIs, Zenon
  <2>5. CASE enc = "windows_1252"
    BY <1>4, <2>5, EncodeCharIs, Zenon
  <2>. QED BY <1>3, <2>1, <2>2, <2>3, <2>4, <2>5
<1>. QED BY <1>5 DEF NoByte

(* A code point that UTF-32 may not hold, with the policy lax.             *)
Refused(c, lax) == c \notin Points \/ (IsSurrogate(c) /\ ~lax)

LEMMA RefusedIs ==
  ASSUME NEW c \in Nat, NEW lax \in BOOLEAN
  PROVE  /\ Decode32(c, lax).point = IF Refused(c, lax) THEN Invalid ELSE c
         /\ Fill8(c, lax) = IF Refused(c, lax) THEN Replaced("utf8") ELSE Encode8(c)
         /\ Fill16(c, lax) = IF Refused(c, lax) THEN <<Replacement>> ELSE Encode16(c)
         /\ Fill32(c, lax) = IF Refused(c, lax) THEN <<Replacement>> ELSE <<c>>
         /\ Refused(c, lax) => c >= LowestSurrogate
<1>1. Decode32(c, lax).point = IF Refused(c, lax) THEN Invalid ELSE c
  BY SMT DEF Decode32, Refused, Points
<1>2. Fill8(c, lax) = IF Refused(c, lax) THEN Replaced("utf8") ELSE Encode8(c)
  BY SMT DEF Fill8, Refused, Points
<1>3. Fill16(c, lax) = IF Refused(c, lax) THEN <<Replacement>> ELSE Encode16(c)
  BY SMT DEF Fill16, Refused, Points
<1>4. Fill32(c, lax) = IF Refused(c, lax) THEN <<Replacement>> ELSE <<c>>
  BY SMT DEF Fill32, Refused, Points
<1>5. Refused(c, lax) => c >= LowestSurrogate
  BY SMT DEF Refused, Points, IsSurrogate, LowestSurrogate
<1>. QED BY <1>1, <1>2, <1>3, <1>4, <1>5

(* What is written for a code point that there is a code for.              *)
LEMMA WrittenFits ==
  ASSUME NEW c \in Nat
  PROVE  /\ Written("utf8", c) = Encode8(c) /\ Written("utf16", c) = Encode16(c)
         /\ \A to \in Charsets : Written(to, c) = FillByte(to, c)
<1>1. Written("utf8", c) = Encode8(c)
  <2>1. Encode8(c) # <<>>
    <3>1. Len(Encode8(c)) = Size8(c)
      BY Encode8Length
    <3>2. Size8(c) >= 1
      BY SMT DEF Size8
    <3>. QED BY <3>1, <3>2
  <2>2. c # Invalid
    BY SMT DEF Invalid
  <2>. QED BY <2>1, <2>2, EncodedIs, Zenon DEF Written, IsError
<1>2. Written("utf16", c) = Encode16(c)
  <2>1. Encode16(c) # <<>>
    BY SMT DEF Encode16
  <2>2. c # Invalid
    BY SMT DEF Invalid
  <2>. QED BY <2>1, <2>2, EncodedIs, Zenon DEF Written, IsError
<1>3. ASSUME NEW to \in Charsets PROVE Written(to, c) = FillByte(to, c)
  <2>1. Encoded(to, c) = EncodeByte(to, c) /\ Replaced(to) = <<63>> /\ c # Invalid
    BY EncodedIs, ReplacedIs, SMT DEF Invalid
  <2>2. EncodeChar(to, c) \in Nat
    BY EncodeCharRange
  <2>. DEFINE e == EncodeChar(to, c)
  <2>3. CASE e < 256
    <3>1. ~(e >= 256) /\ <<e>> # <<>>
      BY <2>2, <2>3
    <3>. QED BY <2>1, <2>3, <3>1, Zenon DEF Written, IsError, EncodeByte, FillByte
  <2>4. CASE ~(e < 256)
    <3>1. e >= 256
      BY <2>2, <2>4
    <3>. QED BY <2>1, <2>4, <3>1, Zenon DEF Written, IsError, EncodeByte, FillByte
  <2>. QED BY <2>3, <2>4
<1>. QED BY <1>1, <1>2, <1>3

(* encode_fill repeats what the transcoder writes for a code point.        *)
LEMMA FillIsWritten ==
  ASSUME NEW to \in Encodings, NEW c \in Nat, NEW lax \in BOOLEAN, NEW n
  PROVE  EncodeFill(to, n, c, lax)
           = FlattenSeq([i \in 1 .. n |-> Written(to, Decode32(c, lax).point)])
<1>. DEFINE p == Decode32(c, lax).point
            F == CASE to = "utf8"  -> Fill8(c, lax)
                   [] to = "utf16" -> Fill16(c, lax)
                   [] to = "utf32" -> Fill32(c, lax)
                   [] OTHER        -> FillByte(to, c)
<1>1. EncodeFill(to, n, c, lax) = FlattenSeq([i \in 1 .. n |-> F])
  BY Zenon DEF EncodeFill
<1>2. p = IF Refused(c, lax) THEN Invalid ELSE c
  BY RefusedIs
<1>. HIDE DEF p
<1>3. F = Written(to, p)
  <2>1. CASE to = "utf8"
    <3>1. F = Fill8(c, lax)
      BY <2>1, Zenon
    <3>2. Written("utf8", Invalid) = Replaced("utf8")
      BY Zenon DEF Written, IsError
    <3>. HIDE DEF F
    <3>. QED BY <1>2, <2>1, <3>1, <3>2, RefusedIs, WrittenFits, Zenon
  <2>2. CASE to = "utf16"
    <3>1. F = Fill16(c, lax)
      <4>1. to # "utf8"
        BY <2>2
      <4>. QED BY <2>2, <4>1, Zenon
    <3>2. Written("utf16", Invalid) = <<Replacement>>
      BY ReplacedIs, Zenon DEF Written, IsError
    <3>. HIDE DEF F
    <3>. QED BY <1>2, <2>2, <3>1, <3>2, RefusedIs, WrittenFits, Zenon
  <2>3. CASE to = "utf32"
    <3>1. F = Fill32(c, lax)
      <4>1. to # "utf8" /\ to # "utf16"
        BY <2>3
      <4>. QED BY <2>3, <4>1, Zenon
    <3>. HIDE DEF F
    <3>. QED BY <1>2, <2>3, <3>1, RefusedIs, Written32, Zenon
  <2>4. CASE to \in Charsets
    <3>1. F = FillByte(to, c)
      <4>1. to # "utf8" /\ to # "utf16" /\ to # "utf32"
        BY <2>4 DEF Charsets
      <4>. QED BY <4>1, Zenon
    <3>. HIDE DEF F
    <3>2. CASE Refused(c, lax)
      <4>1. EncodeChar(to, c) >= 256
        BY <2>4, <3>2, RefusedIs, NoByteForBad
      <4>2. FillByte(to, c) = <<63>>
        BY <4>1, Zenon DEF FillByte
      <4>3. Written(to, Invalid) = <<63>>
        BY <2>4, ReplacedIs, Zenon DEF Written, IsError
      <4>. QED BY <1>2, <3>1, <3>2, <4>2, <4>3, Zenon
    <3>3. CASE ~Refused(c, lax)
      BY <1>2, <2>4, <3>1, <3>3, WrittenFits, Zenon
    <3>. QED BY <3>2, <3>3
  <2>. QED BY <2>1, <2>2, <2>3, <2>4 DEF Encodings
<1>. HIDE DEF F
<1>. QED BY <1>1, <1>3, Zenon DEF p

LEMMA ReachedOne ==
  ASSUME NEW n \in Nat, NEW a \in Nat
  PROVE  Reached(n, {a}) = IF n < a THEN 0 ELSE 1
<1>. DEFINE R == {t \in {a} : n >= t}
<1>1. Reached(n, {a}) = Cardinality(R)
  BY Zenon DEF Reached
<1>2. n < a => R = {}
  OBVIOUS
<1>3. n >= a => R = {a}
  OBVIOUS
<1>. HIDE DEF R
<1>4. Cardinality({}) = 0 /\ Cardinality({a}) = 1
  BY FS_EmptySet, FS_Singleton, Zenon
<1>5. CASE n < a
  BY <1>1, <1>2, <1>4, <1>5
<1>6. CASE n >= a
  BY <1>1, <1>3, <1>4, <1>6
<1>. QED BY <1>5, <1>6

(* char_size says how long that is.                                        *)
LEMMA CharSizeIs ==
  ASSUME NEW to \in Encodings, NEW c \in Nat, NEW lax \in BOOLEAN
  PROVE  CharSize(to, c) = SizeOf(to, Decode32(c, lax).point)
<1>. DEFINE p == Decode32(c, lax).point
<1>1. p = IF Refused(c, lax) THEN Invalid ELSE c
  BY RefusedIs
<1>. HIDE DEF p
<1>2. c # Invalid /\ c \in Nat
  BY SMT DEF Invalid
<1>3. \A n \in Nat : n # Invalid
  BY DEF Invalid
<1>4. CASE to = "utf8"
  <2>1. Len(Replaced(to)) = 3
    <3>1. Replaced(to) = Written("utf8", Invalid)
      BY <1>4, Zenon DEF Written, IsError
    <3>. QED BY <3>1, Written8
  <2>2. Validate(to, c) = IF c \in Points THEN Size8(c) ELSE Invalid
    <3>1. Validate(to, c) = IF c < 1114112 THEN 1 + Reached(c, {128, 2048, 65536}) ELSE Invalid
      BY <1>4, SMT DEF Validate
    <3>. QED BY <3>1, Reached8, SMT DEF Points
  <2>3. IsSurrogate(c) => Size8(c) = 3
    BY SMT DEF IsSurrogate, Size8
  <2>4. Size8(c) \in Nat
    BY SMT DEF Size8
  <2>5. CharSize(to, c) = IF c \in Points THEN Size8(c) ELSE 3
    BY <1>3, <2>1, <2>2, <2>4, Zenon DEF CharSize
  <2>6. SizeOf(to, Invalid) = 3 /\ SizeOf(to, c) = Size8(c)
    BY <1>2, <1>4, Zenon DEF SizeOf
  <2>. QED BY <1>1, <2>3, <2>5, <2>6, Zenon DEF Refused, p
<1>5. CASE to = "utf16"
  <2>1. Len(Replaced(to)) = 1
    BY <1>5, ReplacedIs
  <2>2. Validate(to, c) = IF c \in Points THEN Size16(c) ELSE Invalid
    <3>1. to # "utf8"
      BY <1>5
    <3>2. Validate(to, c) = IF c < 1114112 THEN 1 + Reached(c, {65536}) ELSE Invalid
      BY <1>5, <3>1, SMT DEF Validate
    <3>3. 1 + Reached(c, {65536}) = Size16(c)
      BY ReachedOne, SMT DEF Size16
    <3>. QED BY <3>2, <3>3, SMT DEF Points
  <2>3. IsSurrogate(c) => Size16(c) = 1
    BY SMT DEF IsSurrogate, Size16
  <2>4. Size16(c) \in Nat
    BY SMT DEF Size16
  <2>5. CharSize(to, c) = IF c \in Points THEN Size16(c) ELSE 1
    BY <1>3, <2>1, <2>2, <2>4, Zenon DEF CharSize
  <2>6. SizeOf(to, Invalid) = 1 /\ SizeOf(to, c) = Size16(c)
    <3>1. to # "utf8"
      BY <1>5
    <3>. QED BY <1>2, <1>5, <3>1, Zenon DEF SizeOf
  <2>. QED BY <1>1, <2>3, <2>5, <2>6, Zenon DEF Refused, p
<1>6. CASE to = "utf32" \/ to \in Charsets
  <2>1. to # "utf8" /\ to # "utf16" /\ (to = "utf32" \/ to # "utf32")
    BY <1>6 DEF Charsets
  <2>2. SizeOf(to, p) = 1
    BY <2>1, Zenon DEF SizeOf
  <2>3. Validate(to, c) = 1 \/ Validate(to, c) = Invalid
    BY <2>1, SMT DEF Validate
  <2>4. Len(Replaced(to)) = 1
    BY <1>6, ReplacedIs
  <2>5. CharSize(to, c) = 1
    BY <2>3, <2>4, Zenon DEF CharSize
  <2>. QED BY <2>2, <2>5 DEF p
<1>. QED BY <1>4, <1>5, <1>6 DEF Encodings

LEMMA RepeatedLength ==
  ASSUME NEW A, NEW w \in Seq(A), NEW n \in Nat
  PROVE  Len(FlattenSeq([i \in 1 .. n |-> w])) = n * Len(w)
<1>. DEFINE s == [i \in 1 .. n |-> w]
            L == Len(w)
            S == [i \in 0 .. n |-> i * L]
<1>1. s \in Seq(Seq(A)) /\ Len(s) = n /\ \A i \in 1 .. n : s[i] = w
  BY IsASeq
<1>2. L \in Nat
  OBVIOUS
<1>. HIDE DEF L
<1>3. \A i \in 0 .. n : i * L \in Nat
  BY <1>2
<1>4. S \in [0 .. n -> Nat] /\ S[0] = 0 /\ S[n] = n * L
  <2>1. 0 * L = 0
    BY <1>2
  <2>. QED BY <1>3, <2>1
<1>5. \A i \in 1 .. n : S[i] = S[i - 1] + L
  <2>. SUFFICES ASSUME NEW i \in 1 .. n PROVE i * L = (i - 1) * L + L
    OBVIOUS
  <2>. QED BY <1>2
<1>. HIDE DEF s, S
<1>6. /\ S \in [0 .. Len(s) -> Nat] /\ S[0] = 0
      /\ \A i \in 1 .. Len(s) : S[i] = S[i - 1] + Len(s[i])
  BY <1>1, <1>4, <1>5, Zenon DEF L
<1>7. Len(FlattenSeq(s)) = S[Len(s)]
  BY <1>1, <1>6, JoinedLength, Zenon
<1>. QED BY <1>1, <1>4, <1>7, Zenon DEF s, L

-----------------------------------------------------------------------------
(* A source of one unit of UTF-32 is either not yet read, or all of it is  *)
(* written: it never waits in the mini buffer.                             *)
OneCodePoint == job.from = "utf32" /\ Len(job.src) = 1

FillInv ==
  /\ JobOK
  /\ OneCodePoint =>
       /\ pending = <<>>
       /\ \/ at = 1 /\ text = <<>> /\ status # "done"
          \/ at = 2 /\ text = Written(job.to, Decode32(job.src[1], job.lax).point)

LEMMA OneCodePointIs ==
  ASSUME JobOK, OneCodePoint
  PROVE  /\ job.src[1] \in Nat /\ Len(job.src) = 1 /\ HasTranscoder(job.from, job.to)
         /\ Decode32(job.src[1], job.lax).point \in Nat \cup {Invalid}
<1>1. Units("utf32") = Nat
  BY Zenon DEF Units
<1>2. job.src \in Seq(Nat) /\ Len(job.src) = 1
  BY <1>1, JobParts, Zenon DEF OneCodePoint
<1>3. job.src[1] \in Nat
  BY <1>2, ElementOfSeq
<1>4. HasTranscoder(job.from, job.to)
  BY DEF OneCodePoint, HasTranscoder
<1>5. Decode32(job.src[1], job.lax).point \in {job.src[1], Invalid}
  BY SMT DEF Decode32
<1>. QED BY <1>2, <1>3, <1>4, <1>5

LEMMA FillBegins ==
  ASSUME JobOK, TextBegins
  PROVE  FillInv
  BY DEF FillInv, TextBegins

LEMMA FillNext == FillInv /\ [TextNext]_textVars => FillInv'
<1>. SUFFICES ASSUME FillInv, [TextNext]_textVars PROVE FillInv'
  OBVIOUS
<1>1. job' = job
  BY DEF TextNext, Convert, Buffer, Flush, Finish, textVars
<1>2. JobOK' /\ JobOK
  BY <1>1 DEF FillInv, JobOK
<1>3. OneCodePoint' <=> OneCodePoint
  BY <1>1, Zenon DEF OneCodePoint
<1>. DEFINE w == Written(job.to, Decode32(job.src[1], job.lax).point)
<1>4. w' = w
  BY <1>1
<1>. SUFFICES ASSUME OneCodePoint
              PROVE  /\ pending' = <<>>
                     /\ \/ at' = 1 /\ text' = <<>> /\ status' # "done"
                        \/ at' = 2 /\ text' = w
  BY <1>1, <1>2, <1>3, Zenon DEF FillInv
<1>5. /\ pending = <<>>
      /\ \/ at = 1 /\ text = <<>> /\ status # "done"
         \/ at = 2 /\ text = w
  BY Zenon DEF FillInv
<1>6. /\ Len(job.src) = 1 /\ HasTranscoder(job.from, job.to) /\ job.from = "utf32"
      /\ w \in Seq(Nat)
  BY <1>2, OneCodePointIs, JobParts, WrittenLength, Zenon DEF OneCodePoint
<1>. HIDE DEF w
<1>7. CASE Convert
  <2>1. /\ at <= Len(job.src) /\ status = "going" /\ pending' = pending
        /\ LET r == ReadFront(job.from, job.to, Rest, job.after, job.lax)
           IN \/ status' = "threw" /\ at' = at /\ text' = text
              \/ /\ at' = at + r.units
                 /\ text' = text \o Written(job.to, r.point)
                 /\ status' = status
    BY <1>7, Zenon DEF Convert, More
  <2>2. at = 1 /\ text = <<>>
    BY <1>5, <1>6, <2>1
  <2>3. Rest[1] = job.src[1]
    <3>1. job.src \in Seq(Units(job.from))
      BY <1>2, JobParts
    <3>. QED BY <1>6, <2>2, <3>1 DEF Rest
  <2>4. ReadFront(job.from, job.to, Rest, job.after, job.lax) = Decode32(job.src[1], job.lax)
    <3>1. job.from = "utf32" /\ job.from # "utf8" /\ job.from # "utf16"
      BY <1>6
    <3>. QED BY <2>3, <3>1, Zenon DEF ReadFront
  <2>5. Decode32(job.src[1], job.lax).units = 1
    BY SMT DEF Decode32
  <2>6. \/ status' = "threw" /\ at' = at /\ text' = text
        \/ at' = at + 1 /\ text' = text \o w
    BY <2>1, <2>4, <2>5, Zenon DEF w
  <2>7. text \o w = w
    BY <1>6, <2>2
  <2>. QED BY <1>5, <2>1, <2>2, <2>6, <2>7
<1>8. CASE Buffer
  BY <1>6, <1>8, Zenon DEF Buffer
<1>9. CASE Flush
  BY <1>5, <1>9, Zenon DEF Flush
<1>10. CASE Finish
  <2>1. at > Len(job.src) /\ at' = at /\ pending' = pending /\ text' = text
    BY <1>10, Zenon DEF Finish
  <2>2. at = 2 /\ text = w
    BY <1>5, <1>6, <2>1
  <2>. QED BY <1>5, <2>1, <2>2
<1>11. CASE UNCHANGED textVars
  <2>1. at' = at /\ pending' = pending /\ text' = text /\ status' = status
    BY <1>11 DEF textVars
  <2>. QED BY <1>5, <2>1
<1>. QED BY <1>7, <1>8, <1>9, <1>10, <1>11, Zenon DEF TextNext

LEMMA FillRightFromInv == FillInv => FillRight
<1>. SUFFICES ASSUME FillInv, status = "done", OneCodePoint, NEW n \in 0 .. 2
              PROVE  LET fill == EncodeFill(job.to, n, job.src[1], job.lax)
                     IN /\ fill = FlattenSeq([i \in 1 .. n |-> text])
                        /\ Len(fill) = n * CharSize(job.to, job.src[1])
  BY Zenon DEF FillRight, OneCodePoint
<1>1. JobOK /\ text = Written(job.to, Decode32(job.src[1], job.lax).point)
  BY Zenon DEF FillInv
<1>2. /\ job.to \in Encodings /\ job.lax \in BOOLEAN /\ job.src[1] \in Nat /\ n \in Nat
      /\ Decode32(job.src[1], job.lax).point \in Nat \cup {Invalid}
  BY <1>1, JobParts, OneCodePointIs
<1>. DEFINE to == job.to
            lax == job.lax
            c == job.src[1]
            w == text
<1>. HIDE DEF to, lax, c, w
<1>3. /\ to \in Encodings /\ lax \in BOOLEAN /\ c \in Nat
      /\ Decode32(c, lax).point \in Nat \cup {Invalid}
      /\ w = Written(to, Decode32(c, lax).point)
  BY <1>1, <1>2, Zenon DEF to, lax, c, w
<1>4. EncodeFill(to, n, c, lax) = FlattenSeq([i \in 1 .. n |-> w])
  BY <1>3, FillIsWritten, Zenon
<1>5. w \in Seq(Nat) /\ Len(w) = CharSize(to, c)
  <2>1. w \in Seq(Nat) /\ Len(w) = SizeOf(to, Decode32(c, lax).point)
    BY <1>3, WrittenLength, Zenon
  <2>. QED BY <1>3, <2>1, CharSizeIs, Zenon
<1>6. Len(FlattenSeq([i \in 1 .. n |-> w])) = n * Len(w)
  BY <1>2, <1>5, RepeatedLength, Zenon
<1>. QED BY <1>4, <1>5, <1>6, Zenon DEF to, lax, c, w

-----------------------------------------------------------------------------
(* How FlattenSeq goes on, from its definition as a recursive function.    *)
LEMMA JoinIs ==
  ASSUME NEW seqs, NEW n \in Nat, n # 0, Len(seqs) = n
  PROVE  \E g : /\ FlattenSeq(seqs) = g[n] /\ g[1] = seqs[1]
                /\ \A i \in 1 .. n : i # 1 => g[i] = g[i - 1] \o seqs[i]
<1>. DEFINE g == CHOOSE g : g = [i \in 1 .. n |-> IF i = 1 THEN seqs[i] ELSE g[i - 1] \o seqs[i]]
<1>1. FlattenSeq(seqs) = g[n]
  BY Zenon DEF FlattenSeq
<1>2. g = [i \in 1 .. n |-> IF i = 1 THEN seqs[i] ELSE g[i - 1] \o seqs[i]]
  <2>1. \E f : f = [i \in 1 .. n |-> IF i = 1 THEN seqs[i] ELSE f[i - 1] \o seqs[i]]
    BY JoinExists, Zenon
  <2>. QED BY <2>1, Zenon
<1>. HIDE DEF g
<1>3. 1 \in 1 .. n
  OBVIOUS
<1>4. /\ g[1] = seqs[1]
      /\ \A i \in 1 .. n : i # 1 => g[i] = g[i - 1] \o seqs[i]
  BY <1>2, <1>3, Zenon
<1>. QED BY <1>1, <1>4, Zenon

(* A sequence more is joined at the end.                                   *)
LEMMA FlattenAppend ==
  ASSUME NEW A, NEW seqs \in Seq(Seq(A)), NEW x \in Seq(A)
  PROVE  FlattenSeq(Append(seqs, x)) = FlattenSeq(seqs) \o x
<1>. DEFINE n == Len(seqs)
            t == Append(seqs, x)
<1>1. n \in Nat /\ Len(t) = n + 1 /\ t[n + 1] = x /\ \A i \in 1 .. n : t[i] = seqs[i]
  OBVIOUS
<1>. HIDE DEF n, t
<1>2. PICK h : /\ FlattenSeq(t) = h[n + 1] /\ h[1] = t[1]
               /\ \A i \in 1 .. n + 1 : i # 1 => h[i] = h[i - 1] \o t[i]
  <2>1. n + 1 \in Nat /\ n + 1 # 0
    BY <1>1
  <2>. QED BY <1>1, <2>1, JoinIs, Zenon
<1>3. CASE n = 0
  <2>1. FlattenSeq(seqs) = <<>>
    BY <1>3 DEF FlattenSeq, n
  <2>2. FlattenSeq(t) = x
    BY <1>1, <1>2, <1>3
  <2>. QED BY <2>1, <2>2 DEF t
<1>4. CASE n # 0
  <2>1. PICK g : /\ FlattenSeq(seqs) = g[n] /\ g[1] = seqs[1]
                 /\ \A i \in 1 .. n : i # 1 => g[i] = g[i - 1] \o seqs[i]
    BY <1>1, <1>4, JoinIs, Zenon DEF n
  <2>. DEFINE S == {k \in Nat : k + 1 \in 1 .. n => g[k + 1] = h[k + 1]}
  <2>2. 0 \in S
    BY <1>1, <1>2, <1>4, <2>1
  <2>3. ASSUME NEW k \in Nat, k \in S PROVE k + 1 \in S
    <3>1. ASSUME k + 2 \in 1 .. n PROVE g[k + 2] = h[k + 2]
      <4>1. k + 1 \in 1 .. n /\ (k + 2) - 1 = k + 1 /\ k + 2 # 1 /\ k + 2 \in 1 .. n + 1
        BY <1>1, <3>1
      <4>2. g[k + 1] = h[k + 1] /\ t[k + 2] = seqs[k + 2]
        BY <1>1, <2>3, <3>1, <4>1
      <4>3. g[k + 2] = g[(k + 2) - 1] \o seqs[k + 2] /\ h[k + 2] = h[(k + 2) - 1] \o t[k + 2]
        BY <1>2, <2>1, <3>1, <4>1, Zenon
      <4>. QED BY <4>1, <4>2, <4>3
    <3>2. (k + 1) + 1 = k + 2
      OBVIOUS
    <3>. QED BY <3>1, <3>2
  <2>. HIDE DEF S
  <2>4. n - 1 \in S
    <3>1. n - 1 \in Nat
      BY <1>1, <1>4
    <3>2. \A k \in Nat : k \in S
      BY <2>2, <2>3, Induct
    <3>. QED BY <3>1, <3>2
  <2>5. g[n] = h[n]
    <3>1. (n - 1) + 1 = n /\ n \in 1 .. n
      BY <1>1, <1>4
    <3>. QED BY <2>4, <3>1 DEF S
  <2>6. h[n + 1] = h[n] \o x
    <3>1. n + 1 \in 1 .. n + 1 /\ n + 1 # 1 /\ (n + 1) - 1 = n
      BY <1>1, <1>4
    <3>2. h[n + 1] = h[(n + 1) - 1] \o t[n + 1]
      BY <1>2, <3>1, Zenon
    <3>. QED BY <1>1, <3>1, <3>2
  <2>. QED BY <1>2, <2>1, <2>5, <2>6 DEF t
<1>. QED BY <1>3, <1>4

-----------------------------------------------------------------------------
(* z[i] is at i, and u[i] is how far it is to the next.                    *)
Strides(n, V, z, u) ==
  /\ z \in [1 .. n -> V] /\ u \in [1 .. n -> Nat]
  /\ \A i \in 1 .. n : u[i] >= 1 /\ i + u[i] <= n + 1

(* f[i] is what is strung from i on.                                       *)
Strung(f, n, z, u) ==
  f = [i \in 1 .. n + 1 |-> IF i > n THEN <<>> ELSE <<z[i]>> \o f[i + u[i]]]

(* A function with these values, each before those it leads to, exists ... *)
LEMMA CharsExist ==
  ASSUME NEW n \in Nat, NEW V, NEW z, NEW u, Strides(n, V, z, u)
  PROVE  \E f : Strung(f, n, z, u)
<1>. USE DEF Strides
<1>. DEFINE Good(k, f) == /\ f \in [1 .. n + 1 -> Seq(V)] /\ f[n + 1] = <<>>
                          /\ \A i \in 1 .. n : i > n - k => f[i] = <<z[i]>> \o f[i + u[i]]
            S == {k \in Nat : \E f : Good(k, f)}
<1>1. 0 \in S
  <2>1. Good(0, [i \in 1 .. n + 1 |-> <<>>])
    OBVIOUS
  <2>. QED BY <2>1
<1>2. ASSUME NEW k \in Nat, k \in S PROVE k + 1 \in S
  <2>1. PICK f : Good(k, f)
    BY <1>2
  <2>2. CASE n - k \notin 1 .. n
    <3>0. \A i \in 1 .. n : i > n - (k + 1) => i > n - k
      BY <2>2
    <3>1. Good(k + 1, f) /\ k + 1 \in Nat
      <4>1. k + 1 \in Nat
        OBVIOUS
      <4>. QED BY <2>1, <3>0, <4>1, Zenon
    <3>. HIDE DEF Good
    <3>. QED BY <3>1, Zenon
  <2>3. CASE n - k \in 1 .. n
    <3>. DEFINE j == n - k
                g == [f EXCEPT ![j] = <<z[j]>> \o f[j + u[j]]]
    <3>1. j \in 1 .. n /\ z[j] \in V /\ u[j] \in Nat /\ j + u[j] \in 1 .. n + 1
      BY <2>3
    <3>2. f \in [1 .. n + 1 -> Seq(V)] /\ f[j + u[j]] \in Seq(V)
      BY <2>1, <3>1
    <3>3. g \in [1 .. n + 1 -> Seq(V)]
      <4>. DEFINE v == <<z[j]>> \o f[j + u[j]]
      <4>1. v \in Seq(V)
        <5>1. \A a \in V, b \in Seq(V) : <<a>> \o b \in Seq(V)
          OBVIOUS
        <5>. QED BY <3>1, <3>2, <5>1, Zenon
      <4>. HIDE DEF v
      <4>2. [f EXCEPT ![j] = v] \in [1 .. n + 1 -> Seq(V)]
        BY <3>2, <4>1
      <4>. QED BY <4>2, Zenon DEF v
    <3>4. g[n + 1] = <<>>
      BY <2>1, <3>1
    <3>5. ASSUME NEW i \in 1 .. n, i > n - (k + 1) PROVE g[i] = <<z[i]>> \o g[i + u[i]]
      <4>1. i = j \/ i > n - k
        BY <3>1, <3>5
      <4>2. u[i] \in Nat /\ u[i] >= 1 /\ i + u[i] \in 1 .. n + 1 /\ i + u[i] # j
        <5>1. u[i] \in Nat /\ u[i] >= 1 /\ i + u[i] <= n + 1
          OBVIOUS
        <5>2. i \in Nat /\ i >= 1 /\ j \in Nat /\ i >= j
          BY <3>1, <4>1
        <5>. QED BY <5>1, <5>2
      <4>3. g[i + u[i]] = f[i + u[i]]
        BY <3>2, <4>2
      <4>4. CASE i = j
        <5>1. g[j] = <<z[j]>> \o f[j + u[j]]
          <6>1. \A v : [f EXCEPT ![j] = v][j] = v
            BY <3>1, <3>2
          <6>. QED BY <6>1, Zenon
        <5>. QED BY <4>3, <4>4, <5>1, Zenon
      <4>5. CASE i > n - k
        <5>1. g[i] = f[i]
          BY <3>1, <3>2, <4>5
        <5>2. f[i] = <<z[i]>> \o f[i + u[i]]
          BY <2>1, <4>5
        <5>. QED BY <4>3, <5>1, <5>2, Zenon
      <4>. QED BY <4>1, <4>4, <4>5
    <3>. HIDE DEF g
    <3>6. Good(k + 1, g) /\ k + 1 \in Nat
      <4>1. k + 1 \in Nat
        OBVIOUS
      <4>. QED BY <3>3, <3>4, <3>5, <4>1, Zenon
    <3>. HIDE DEF Good
    <3>. QED BY <3>6, Zenon
  <2>. QED BY <2>2, <2>3
<1>. HIDE DEF S
<1>3. \A k \in Nat : k \in S
  BY <1>1, <1>2, Induct
<1>4. PICK f : Good(n, f)
  BY <1>3 DEF S
<1>5. f = [i \in 1 .. n + 1 |-> IF i > n THEN <<>> ELSE <<z[i]>> \o f[i + u[i]]]
  <2>. DEFINE g == [i \in 1 .. n + 1 |-> IF i > n THEN <<>> ELSE <<z[i]>> \o f[i + u[i]]]
  <2>1. ASSUME NEW i \in 1 .. n + 1 PROVE f[i] = g[i]
    <3>1. CASE i = n + 1
      BY <1>4, <3>1
    <3>2. CASE i \in 1 .. n
      <4>1. f[i] = <<z[i]>> \o f[i + u[i]]
        <5>1. i > n - n
          BY <3>2
        <5>. QED BY <1>4, <3>2, <5>1, Zenon
      <4>2. g[i] = <<z[i]>> \o f[i + u[i]]
        BY <3>2
      <4>. QED BY <4>1, <4>2
    <3>. QED BY <3>1, <3>2
  <2>2. f \in [1 .. n + 1 -> Seq(V)] /\ DOMAIN g = 1 .. n + 1 /\ g = [i \in 1 .. n + 1 |-> g[i]]
    BY <1>4
  <2>. HIDE DEF g
  <2>3. f = g
    BY <2>1, <2>2
  <2>. QED BY <2>3 DEF g
<1>. QED BY <1>5 DEF Strung

(* The same, place by place.                                               *)
Unrolled(f, n, V, z, u) ==
  /\ f \in [1 .. n + 1 -> Seq(V)] /\ f[n + 1] = <<>>
  /\ \A i \in 1 .. n : f[i] = <<z[i]>> \o f[i + u[i]]

(* ... and its values are sequences of what is strung.                     *)
LEMMA CharsDown ==
  ASSUME NEW n \in Nat, NEW V, NEW z, NEW u, Strides(n, V, z, u),
         NEW f, Strung(f, n, z, u)
  PROVE  Unrolled(f, n, V, z, u)
<1>. USE DEF Strides
<1>1. f = [i \in 1 .. n + 1 |-> IF i > n THEN <<>> ELSE <<z[i]>> \o f[i + u[i]]]
  BY DEF Strung
<1>2. DOMAIN f = 1 .. n + 1
  BY <1>1, Zenon
<1>3. f[n + 1] = <<>>
  <2>1. n + 1 \in 1 .. n + 1 /\ n + 1 > n
    OBVIOUS
  <2>. QED BY <1>1, <2>1, Zenon
<1>4. \A i \in 1 .. n : f[i] = <<z[i]>> \o f[i + u[i]]
  <2>1. \A i \in 1 .. n : i \in 1 .. n + 1 /\ ~(i > n)
    OBVIOUS
  <2>. QED BY <1>1, <2>1, Zenon
<1>. DEFINE S == {k \in Nat : \A i \in 1 .. n + 1 : i >= n + 1 - k => f[i] \in Seq(V)}
<1>5. 0 \in S
  <2>1. \A i \in 1 .. n + 1 : i >= n + 1 - 0 => i = n + 1
    BY ONLY n \in Nat, SMT
  <2>2. <<>> \in Seq(V)
    OBVIOUS
  <2>. QED BY <1>3, <2>1, <2>2
<1>6. ASSUME NEW k \in Nat, k \in S PROVE k + 1 \in S
  <2>1. ASSUME NEW i \in 1 .. n + 1, i >= n + 1 - (k + 1) PROVE f[i] \in Seq(V)
    <3>1. CASE i >= n + 1 - k
      BY <1>6, <3>1
    <3>2. CASE i < n + 1 - k
      <4>1. i \in 1 .. n /\ i + 1 >= n + 1 - k
        BY <2>1, <3>2
      <4>2. z[i] \in V /\ u[i] \in Nat /\ u[i] >= 1 /\ i + u[i] \in 1 .. n + 1
        BY <4>1
      <4>3. f[i + u[i]] \in Seq(V)
        <5>1. i + u[i] >= n + 1 - k
          BY <4>1, <4>2
        <5>. QED BY <1>6, <4>2, <5>1, Zenon
      <4>4. f[i] = <<z[i]>> \o f[i + u[i]]
        BY <1>4, <4>1
      <4>5. \A a \in V, b \in Seq(V) : <<a>> \o b \in Seq(V)
        OBVIOUS
      <4>. QED BY <4>2, <4>3, <4>4, <4>5, Zenon
    <3>. QED BY <3>1, <3>2
  <2>. QED BY <2>1
<1>. HIDE DEF S
<1>7. \A k \in Nat : k \in S
  BY <1>5, <1>6, Induct
<1>8. \A i \in 1 .. n + 1 : f[i] \in Seq(V)
  <2>1. n \in S
    BY <1>7
  <2>2. \A i \in 1 .. n + 1 : i >= n + 1 - n
    OBVIOUS
  <2>. QED BY <2>1, <2>2, Zenon DEF S
<1>9. f = [i \in 1 .. n + 1 |-> f[i]]
  BY <1>1, Zenon
<1>10. f \in [1 .. n + 1 -> Seq(V)]
  BY <1>8, <1>9
<1>. QED BY <1>3, <1>4, <1>10, Zenon DEF Unrolled

-----------------------------------------------------------------------------
(* The table of well-formed sequences, and the tests of the transcoders.   *)
LEMMA AgreeTwo ==
  ASSUME NEW A, NEW B, NEW s
  PROVE  /\ Agree(<<A, B>>, s, 2) <=> 2 <= Len(s) /\ s[1] \in A /\ s[2] \in B
         /\ ~Agree(<<A, B>>, s, 3) /\ ~Agree(<<A, B>>, s, 4) /\ Len(<<A, B>>) = 2
  BY DEF Agree

LEMMA AgreeOne ==
  ASSUME NEW A, NEW s
  PROVE  /\ Agree(<<A>>, s, 1) <=> 1 <= Len(s) /\ s[1] \in A
         /\ ~Agree(<<A>>, s, 2) /\ ~Agree(<<A>>, s, 3) /\ ~Agree(<<A>>, s, 4) /\ Len(<<A>>) = 1
  BY DEF Agree

LEMMA AgreeThree ==
  ASSUME NEW A, NEW B, NEW C, NEW s
  PROVE  /\ Agree(<<A, B, C>>, s, 2) <=> 2 <= Len(s) /\ s[1] \in A /\ s[2] \in B
         /\ Agree(<<A, B, C>>, s, 3) <=> 3 <= Len(s) /\ s[1] \in A /\ s[2] \in B /\ s[3] \in C
         /\ ~Agree(<<A, B, C>>, s, 4) /\ Len(<<A, B, C>>) = 3
  BY DEF Agree

LEMMA AgreeFour ==
  ASSUME NEW A, NEW B, NEW C, NEW D, NEW s
  PROVE  /\ Agree(<<A, B, C, D>>, s, 2) <=> 2 <= Len(s) /\ s[1] \in A /\ s[2] \in B
         /\ Agree(<<A, B, C, D>>, s, 3) <=> 3 <= Len(s) /\ s[1] \in A /\ s[2] \in B /\ s[3] \in C
         /\ Agree(<<A, B, C, D>>, s, 4) <=>
              4 <= Len(s) /\ s[1] \in A /\ s[2] \in B /\ s[3] \in C /\ s[4] \in D
         /\ Len(<<A, B, C, D>>) = 4
  BY DEF Agree

(* The rows with a second unit, and what they say of it.                   *)
Second(b, c, lax) ==
  /\ 194 <= b /\ b <= 244 /\ 128 <= c /\ c <= 191
  /\ b = 224 => 160 <= c
  /\ b = 237 => lax \/ c <= 159
  /\ b = 240 => 144 <= c
  /\ b = 244 => c <= 143

Trailing(c) == 128 <= c /\ c <= 191

(* SecondOK, which computes with the bits, in terms of the units.          *)
LEMMA SecondIs ==
  ASSUME NEW b \in Bytes, NEW c \in Bytes, NEW lax \in BOOLEAN
  PROVE  Second(b, c, lax) <=> LeadOK(b, Strict) /\ ~(b < 128) /\ SecondOK(b, c, lax)
<1>1. b \in Nat /\ c \in Nat /\ b <= 255 /\ c <= 255
  BY SMT DEF Bytes
<1>2. Continuation(c) <=> Trailing(c)
  BY SMT, <1>1 DEF Continuation, Trailing
<1>3. ASSUME Trailing(c), b >= 225, b <= 239
      PROVE  FirstTwoOf3(b, c) \div 32 # 27 <=> ~(b = 237 /\ 160 <= c)
  <2>1. b % 16 = b - 224 /\ c % 64 = c - 128
    BY SMT, <1>1, <1>3 DEF Trailing
  <2>2. FirstTwoOf3(b, c) = (b - 224) * 64 + (c - 128)
    BY SMT, <2>1 DEF FirstTwoOf3
  <2>. QED BY SMT, <1>1, <1>3, <2>2 DEF Trailing
<1>4. ASSUME Trailing(c), b >= 240, b <= 247
      PROVE  FirstTwoOf4(b, c) \in 16 .. 271 <=>
               b <= 244 /\ (b = 240 => 144 <= c) /\ (b = 244 => c <= 143)
  <2>1. b % 8 = b - 240 /\ c % 64 = c - 128
    BY SMT, <1>1, <1>4 DEF Trailing
  <2>2. FirstTwoOf4(b, c) = (b - 240) * 64 + (c - 128)
    BY SMT, <2>1 DEF FirstTwoOf4
  <2>. QED BY SMT, <1>1, <1>4, <2>2 DEF Trailing
<1>5. LeadOK(b, Strict) <=> b < 128 \/ (b >= 194 /\ b <= 247)
  BY SMT, <1>1 DEF LeadOK, Strict
<1>6. SecondOK(b, c, lax) <=>
        /\ Continuation(c) /\ (b = 224 => c >= 160)
        /\ (b >= 225 /\ b <= 239 => lax \/ FirstTwoOf3(b, c) \div 32 # 27)
        /\ (b >= 240 => FirstTwoOf4(b, c) \in 16 .. 271)
  BY SMT, <1>1 DEF SecondOK
<1>. QED BY SMT, <1>1, <1>2, <1>3, <1>4, <1>5, <1>6 DEF Second, Trailing

(* The table, its rows cut after each unit.                                *)
LEMMA RowsAre ==
  ASSUME NEW s \in Seq(Bytes), s # <<>>, NEW lax \in BOOLEAN
  PROVE  /\ Agreed(s, 2, lax) <=> 2 <= Len(s) /\ Second(s[1], s[2], lax)
         /\ Agreed(s, 3, lax) <=>
              3 <= Len(s) /\ Second(s[1], s[2], lax) /\ 224 <= s[1] /\ Trailing(s[3])
         /\ Agreed(s, 4, lax) <=>
              /\ 4 <= Len(s) /\ Second(s[1], s[2], lax) /\ 240 <= s[1]
              /\ Trailing(s[3]) /\ Trailing(s[4])
         /\ AgreedWhole(s, 1, lax) <=> s[1] < 128
         /\ AgreedWhole(s, 2, lax) <=> Agreed(s, 2, lax) /\ s[1] < 224
         /\ AgreedWhole(s, 3, lax) <=> Agreed(s, 3, lax) /\ s[1] < 240
         /\ AgreedWhole(s, 4, lax) <=> Agreed(s, 4, lax)
<1>. DEFINE A1 == 0 .. 127
            A2 == 194 .. 223
            A3 == {224}
            A4 == 225 .. 236 \cup {238, 239}
            A5 == {237}
            A6 == {240}
            A7 == 241 .. 243
            A8 == {244}
            B3 == 160 .. 191
            B5 == IF lax THEN Trail ELSE 128 .. 159
            B6 == 144 .. 191
            B8 == 128 .. 143
            r1 == <<A1>>
            r2 == <<A2, Trail>>
            r3 == <<A3, B3, Trail>>
            r4 == <<A4, Trail, Trail>>
            r5 == <<A5, B5, Trail>>
            r6 == <<A6, B6, Trail, Trail>>
            r7 == <<A7, Trail, Trail, Trail>>
            r8 == <<A8, B8, Trail, Trail>>
            a == s[1]
            b == s[2]
            c == s[3]
            d == s[4]
            len == Len(s)
<1>1. Rows(lax) = {r1, r2, r3, r4, r5, r6, r7, r8}
  BY DEF Rows
<1>2. /\ a \in Nat /\ (2 <= len => b \in Nat) /\ (3 <= len => b \in Nat /\ c \in Nat)
      /\ (4 <= len => b \in Nat /\ c \in Nat /\ d \in Nat) /\ len \in Nat
  <2>1. /\ a \in Bytes /\ (2 <= len => b \in Bytes) /\ (3 <= len => b \in Bytes /\ c \in Bytes)
        /\ (4 <= len => b \in Bytes /\ c \in Bytes /\ d \in Bytes) /\ len \in Nat
    OBVIOUS
  <2>2. Bytes \subseteq Nat
    BY SMT DEF Bytes
  <2>. HIDE DEF a, b, c, d, len
  <2>. QED BY <2>1, <2>2, Zenon
<1>3. /\ a \in A1 <=> a < 128
      /\ a \in A2 <=> 194 <= a /\ a <= 223
      /\ a \in A3 <=> a = 224
      /\ a \in A4 <=> 225 <= a /\ a <= 239 /\ a # 237
      /\ a \in A5 <=> a = 237
      /\ a \in A6 <=> a = 240
      /\ a \in A7 <=> 241 <= a /\ a <= 243
      /\ a \in A8 <=> a = 244
  <2>. HIDE DEF a
  <2>. QED BY SMT, <1>2
<1>4. ASSUME NEW x \in Nat
      PROVE  /\ x \in Trail <=> 128 <= x /\ x <= 191
             /\ x \in B3 <=> 160 <= x /\ x <= 191
             /\ x \in B5 <=> 128 <= x /\ (x <= 159 \/ (lax /\ x <= 191))
             /\ x \in B6 <=> 144 <= x /\ x <= 191
             /\ x \in B8 <=> 128 <= x /\ x <= 143
  BY SMT DEF Trail
<1>. HIDE DEF A1, A2, A3, A4, A5, A6, A7, A8, B3, B5, B6, B8
<1>5. /\ ~Agree(r1, s, 2) /\ ~Agree(r1, s, 3) /\ ~Agree(r1, s, 4)
      /\ ~Agree(r2, s, 3) /\ ~Agree(r2, s, 4)
      /\ ~Agree(r3, s, 4) /\ ~Agree(r4, s, 4) /\ ~Agree(r5, s, 4)
  BY AgreeOne, AgreeTwo, AgreeThree, Zenon
<1>6. /\ Agree(r2, s, 2) <=> 2 <= len /\ a \in A2 /\ b \in Trail
      /\ Agree(r3, s, 2) <=> 2 <= len /\ a \in A3 /\ b \in B3
      /\ Agree(r4, s, 2) <=> 2 <= len /\ a \in A4 /\ b \in Trail
      /\ Agree(r5, s, 2) <=> 2 <= len /\ a \in A5 /\ b \in B5
      /\ Agree(r6, s, 2) <=> 2 <= len /\ a \in A6 /\ b \in B6
      /\ Agree(r7, s, 2) <=> 2 <= len /\ a \in A7 /\ b \in Trail
      /\ Agree(r8, s, 2) <=> 2 <= len /\ a \in A8 /\ b \in B8
  BY AgreeTwo, AgreeThree, AgreeFour, Zenon
<1>7. /\ Agree(r3, s, 3) <=> 3 <= len /\ a \in A3 /\ b \in B3 /\ c \in Trail
      /\ Agree(r4, s, 3) <=> 3 <= len /\ a \in A4 /\ b \in Trail /\ c \in Trail
      /\ Agree(r5, s, 3) <=> 3 <= len /\ a \in A5 /\ b \in B5 /\ c \in Trail
      /\ Agree(r6, s, 3) <=> 3 <= len /\ a \in A6 /\ b \in B6 /\ c \in Trail
      /\ Agree(r7, s, 3) <=> 3 <= len /\ a \in A7 /\ b \in Trail /\ c \in Trail
      /\ Agree(r8, s, 3) <=> 3 <= len /\ a \in A8 /\ b \in B8 /\ c \in Trail
  BY AgreeThree, AgreeFour, Zenon
<1>8. /\ Agree(r6, s, 4) <=> 4 <= len /\ a \in A6 /\ b \in B6 /\ c \in Trail /\ d \in Trail
      /\ Agree(r7, s, 4) <=> 4 <= len /\ a \in A7 /\ b \in Trail /\ c \in Trail /\ d \in Trail
      /\ Agree(r8, s, 4) <=> 4 <= len /\ a \in A8 /\ b \in B8 /\ c \in Trail /\ d \in Trail
  BY AgreeFour, Zenon
<1>. DEFINE Lengths ==
              /\ Len(r1) = 1 /\ Len(r2) = 2 /\ Len(r3) = 3 /\ Len(r4) = 3 /\ Len(r5) = 3
              /\ Len(r6) = 4 /\ Len(r7) = 4 /\ Len(r8) = 4
<1>13. Lengths /\ (Agree(r1, s, 1) <=> a < 128)
  <2>1. Agree(r1, s, 1) <=> 1 <= len /\ a \in A1
    BY AgreeOne, Zenon
  <2>2. 1 <= len
    OBVIOUS
  <2>3. Lengths
    BY AgreeOne, AgreeTwo, AgreeThree, AgreeFour, Zenon
  <2>. QED BY <1>3, <2>1, <2>2, <2>3, Zenon
<1>. HIDE DEF r1, r2, r3, r4, r5, r6, r7, r8
<1>9. ASSUME NEW n
      PROVE  Agreed(s, n, lax) <=>
               \/ Agree(r1, s, n) \/ Agree(r2, s, n) \/ Agree(r3, s, n) \/ Agree(r4, s, n)
               \/ Agree(r5, s, n) \/ Agree(r6, s, n) \/ Agree(r7, s, n) \/ Agree(r8, s, n)
  BY <1>1, Zenon DEF Agreed
<1>. HIDE DEF a, b, c, d, len
<1>10. Agreed(s, 2, lax) <=> 2 <= len /\ Second(a, b, lax)
  <2>1. Agreed(s, 2, lax) <=>
          /\ 2 <= len
          /\ \/ (a \in A2 /\ b \in Trail) \/ (a \in A3 /\ b \in B3) \/ (a \in A4 /\ b \in Trail)
             \/ (a \in A5 /\ b \in B5) \/ (a \in A6 /\ b \in B6) \/ (a \in A7 /\ b \in Trail)
             \/ (a \in A8 /\ b \in B8)
    BY <1>5, <1>6, <1>9, Zenon
  <2>. QED BY SMT, <1>2, <1>3, <1>4, <2>1 DEF Second
<1>11. Agreed(s, 3, lax) <=> 3 <= len /\ Second(a, b, lax) /\ 224 <= a /\ Trailing(c)
  <2>1. Agreed(s, 3, lax) <=>
          /\ 3 <= len /\ c \in Trail
          /\ \/ (a \in A3 /\ b \in B3) \/ (a \in A4 /\ b \in Trail)
             \/ (a \in A5 /\ b \in B5) \/ (a \in A6 /\ b \in B6) \/ (a \in A7 /\ b \in Trail)
             \/ (a \in A8 /\ b \in B8)
    BY <1>5, <1>7, <1>9, Zenon
  <2>. QED BY SMT, <1>2, <1>3, <1>4, <2>1 DEF Second, Trailing
<1>12. Agreed(s, 4, lax) <=>
         4 <= len /\ Second(a, b, lax) /\ 240 <= a /\ Trailing(c) /\ Trailing(d)
  <2>1. Agreed(s, 4, lax) <=>
          /\ 4 <= len /\ c \in Trail /\ d \in Trail
          /\ \/ (a \in A6 /\ b \in B6) \/ (a \in A7 /\ b \in Trail) \/ (a \in A8 /\ b \in B8)
    BY <1>5, <1>8, <1>9, Zenon
  <2>. QED BY SMT, <1>2, <1>3, <1>4, <2>1 DEF Second, Trailing
<1>14. ASSUME NEW n
       PROVE  AgreedWhole(s, n, lax) <=>
                \/ n = 1 /\ Agree(r1, s, n)
                \/ n = 2 /\ Agree(r2, s, n)
                \/ n = 3 /\ (Agree(r3, s, n) \/ Agree(r4, s, n) \/ Agree(r5, s, n))
                \/ n = 4 /\ (Agree(r6, s, n) \/ Agree(r7, s, n) \/ Agree(r8, s, n))
  BY <1>1, <1>13, Zenon DEF AgreedWhole
<1>15. AgreedWhole(s, 1, lax) <=> a < 128
  BY <1>13, <1>14
<1>16. AgreedWhole(s, 2, lax) <=> Agreed(s, 2, lax) /\ a < 224
  <2>1. AgreedWhole(s, 2, lax) <=> 2 <= len /\ a \in A2 /\ b \in Trail
    BY <1>6, <1>14
  <2>. QED BY SMT, <1>2, <1>3, <1>4, <1>10, <2>1 DEF Second
<1>17. AgreedWhole(s, 3, lax) <=> Agreed(s, 3, lax) /\ a < 240
  <2>1. AgreedWhole(s, 3, lax) <=>
          /\ 3 <= len /\ c \in Trail
          /\ \/ (a \in A3 /\ b \in B3) \/ (a \in A4 /\ b \in Trail) \/ (a \in A5 /\ b \in B5)
    BY <1>7, <1>14
  <2>. QED BY SMT, <1>2, <1>3, <1>4, <1>11, <2>1 DEF Second, Trailing
<1>18. AgreedWhole(s, 4, lax) <=> Agreed(s, 4, lax)
  BY <1>5, <1>9, <1>14
<1>. QED BY <1>10, <1>11, <1>12, <1>15, <1>16, <1>17, <1>18, Zenon DEF a, b, c, d, len

(* A transcoder takes as many units as the table has of them ...           *)
LEMMA TakenIs ==
  ASSUME NEW s \in Seq(Bytes), s # <<>>, NEW lax \in BOOLEAN
  PROVE  Taken(s, lax, Strict) = Max({1} \cup {k \in 1 .. 4 : Agreed(s, k, lax)})
<1>. DEFINE fits(k) == /\ k <= Len(s) /\ k <= SeqLength(s[1])
                       /\ LeadOK(s[1], Strict) /\ SecondOK(s[1], s[2], lax)
                       /\ \A i \in 3 .. k : Continuation(s[i])
            S == {1} \cup {k \in 2 .. Lesser(4, Len(s)) : fits(k)}
            T == {1} \cup {k \in 1 .. 4 : Agreed(s, k, lax)}
<1>1. Taken(s, lax, Strict) = Max(S)
  BY Zenon DEF Taken
<1>2. Len(s) \in Nat /\ s[1] \in Bytes /\ \A i \in 1 .. Len(s) : s[i] \in Bytes
  OBVIOUS
<1>3. SeqLength(s[1]) = IF s[1] < 192 THEN 1 ELSE IF s[1] < 224 THEN 2
                        ELSE IF s[1] < 240 THEN 3 ELSE 4
  BY <1>2, SeqLengthIs, Zenon
<1>4. \A x \in Bytes : Continuation(x) <=> Trailing(x)
  BY SMT DEF Continuation, Trailing, Bytes
<1>5. s[1] \in Nat
  <2>1. Bytes \subseteq Nat
    BY SMT DEF Bytes
  <2>. QED BY <1>2, <2>1, Zenon
<1>6. 2 <= Len(s) => (Second(s[1], s[2], lax) <=>
                        LeadOK(s[1], Strict) /\ ~(s[1] < 128) /\ SecondOK(s[1], s[2], lax))
  <2>1. 2 <= Len(s) => s[2] \in Bytes
    BY <1>2
  <2>. QED BY <1>2, <2>1, SecondIs, Zenon
<1>7. LeadOK(s[1], Strict) <=> s[1] < 128 \/ (194 <= s[1] /\ s[1] <= Strict)
  <2>1. \A x \in Nat : LeadOK(x, Strict) <=> x < 128 \/ (194 <= x /\ x <= Strict)
    BY SMT DEF LeadOK, Strict
  <2>. QED BY <1>5, <2>1, Zenon
<1>8. fits(2) <=> Agreed(s, 2, lax)
  <2>1. fits(2) <=> 2 <= Len(s) /\ 2 <= SeqLength(s[1]) /\ LeadOK(s[1], Strict)
                    /\ SecondOK(s[1], s[2], lax)
    OBVIOUS
  <2>2. 2 <= SeqLength(s[1]) <=> 192 <= s[1]
    BY SMT, <1>3, <1>5
  <2>3. LeadOK(s[1], Strict) => (~(s[1] < 128) <=> 192 <= s[1])
    BY SMT, <1>5, <1>7
  <2>4. Agreed(s, 2, lax) <=> 2 <= Len(s) /\ Second(s[1], s[2], lax)
    BY RowsAre
  <2>. HIDE DEF fits
  <2>. QED BY <1>6, <2>1, <2>2, <2>3, <2>4
<1>9. fits(3) <=> Agreed(s, 3, lax)
  <2>1. fits(3) <=> 3 <= Len(s) /\ 3 <= SeqLength(s[1]) /\ LeadOK(s[1], Strict)
                    /\ SecondOK(s[1], s[2], lax) /\ Continuation(s[3])
    OBVIOUS
  <2>2. 3 <= SeqLength(s[1]) <=> 224 <= s[1]
    BY SMT, <1>3, <1>5
  <2>3. 224 <= s[1] => ~(s[1] < 128)
    BY SMT, <1>5
  <2>4. Agreed(s, 3, lax) <=>
          3 <= Len(s) /\ Second(s[1], s[2], lax) /\ 224 <= s[1] /\ Trailing(s[3])
    BY RowsAre
  <2>5. 3 <= Len(s) => 2 <= Len(s) /\ (Continuation(s[3]) <=> Trailing(s[3]))
    BY <1>2, <1>4
  <2>. HIDE DEF fits
  <2>. QED BY <1>6, <2>1, <2>2, <2>3, <2>4, <2>5
<1>10. fits(4) <=> Agreed(s, 4, lax)
  <2>1. fits(4) <=> 4 <= Len(s) /\ 4 <= SeqLength(s[1]) /\ LeadOK(s[1], Strict)
                    /\ SecondOK(s[1], s[2], lax) /\ Continuation(s[3]) /\ Continuation(s[4])
    OBVIOUS
  <2>2. 4 <= SeqLength(s[1]) <=> 240 <= s[1]
    BY SMT, <1>3, <1>5
  <2>3. 240 <= s[1] => ~(s[1] < 128)
    BY SMT, <1>5
  <2>4. Agreed(s, 4, lax) <=>
          /\ 4 <= Len(s) /\ Second(s[1], s[2], lax) /\ 240 <= s[1]
          /\ Trailing(s[3]) /\ Trailing(s[4])
    BY RowsAre
  <2>5. 4 <= Len(s) => /\ 2 <= Len(s) /\ (Continuation(s[3]) <=> Trailing(s[3]))
                       /\ Continuation(s[4]) <=> Trailing(s[4])
    BY <1>2, <1>4
  <2>. HIDE DEF fits
  <2>. QED BY <1>6, <2>1, <2>2, <2>3, <2>4, <2>5
<1>11. S = T
  <2>1. \A k : k \in 2 .. Lesser(4, Len(s)) /\ fits(k) <=> k \in {2, 3, 4} /\ fits(k)
    BY <1>2 DEF Lesser
  <2>2. \A k : k \in 1 .. 4 <=> k \in {1, 2, 3, 4}
    OBVIOUS
  <2>. HIDE DEF fits
  <2>. QED BY <1>8, <1>9, <1>10, <2>1, <2>2
<1>. HIDE DEF S, T
<1>12. Max(S) = Max(T)
  BY <1>11, Zenon
<1>. QED BY <1>1, <1>12, Zenon DEF T

(* The modulo of the transcoders takes off the bits that a unit of a whole *)
(* sequence begins with.                                                   *)
LEMMA ValueIsSum ==
  ASSUME NEW s, NEW n \in 1 .. 4, NEW t, Len(t) = n, \A i \in 1 .. n : t[i] = s[i] /\ s[i] \in Nat,
         n = 2 => 192 <= s[1] /\ s[1] < 224,
         n = 3 => 224 <= s[1] /\ s[1] < 240,
         n = 4 => 240 <= s[1] /\ s[1] < 248,
         \A i \in 2 .. n : Trailing(s[i])
  PROVE  Value8(t) = Number8(s, n)
<1>1. \A x \in Nat : Trailing(x) => x % 64 = x - 128
  BY SMT DEF Trailing
<1>2. CASE n = 1
  BY SMT, <1>2 DEF Value8, Number8
<1>3. CASE n = 2
  <2>1. t[1] = s[1] /\ t[2] = s[2] /\ s[1] \in Nat /\ s[2] \in Nat /\ Trailing(s[2])
    BY <1>3
  <2>2. s[1] % 32 = s[1] - 192 /\ s[2] % 64 = s[2] - 128
    BY SMT, <1>1, <1>3, <2>1
  <2>. QED BY SMT, <1>3, <2>1, <2>2 DEF Value8, Number8
<1>4. CASE n = 3
  <2>1. /\ t[1] = s[1] /\ t[2] = s[2] /\ t[3] = s[3] /\ Trailing(s[2]) /\ Trailing(s[3])
        /\ s[1] \in Nat /\ s[2] \in Nat /\ s[3] \in Nat
    BY <1>4
  <2>2. s[1] % 16 = s[1] - 224 /\ s[2] % 64 = s[2] - 128 /\ s[3] % 64 = s[3] - 128
    BY SMT, <1>1, <1>4, <2>1
  <2>. QED BY SMT, <1>4, <2>1, <2>2 DEF Value8, Number8
<1>5. CASE n = 4
  <2>1. /\ t[1] = s[1] /\ t[2] = s[2] /\ t[3] = s[3] /\ t[4] = s[4]
        /\ Trailing(s[2]) /\ Trailing(s[3]) /\ Trailing(s[4])
        /\ s[1] \in Nat /\ s[2] \in Nat /\ s[3] \in Nat /\ s[4] \in Nat
    BY <1>5
  <2>2. /\ s[1] % 8 = s[1] - 240 /\ s[2] % 64 = s[2] - 128 /\ s[3] % 64 = s[3] - 128
        /\ s[4] % 64 = s[4] - 128
    BY SMT, <1>1, <1>5, <2>1
  <2>. QED BY SMT, <1>5, <2>1, <2>2 DEF Value8, Number8
<1>. QED BY <1>2, <1>3, <1>4, <1>5

(* ... and reads the number the table gives them.                          *)
LEMMA Character8Right ==
  ASSUME NEW s \in Seq(Bytes), s # <<>>, NEW lax \in BOOLEAN
  PROVE  LET r == Read8(s, lax, Strict)
         IN Character8(s, lax) = <<r.units, r.point>>
<1>. DEFINE n == Taken(s, lax, Strict)
            S == {1} \cup {k \in 1 .. 4 : Agreed(s, k, lax)}
            t == SubSeq(s, 1, n)
<1>1. Character8(s, lax) = <<n, IF AgreedWhole(s, n, lax) THEN Number8(s, n) ELSE Invalid>>
  <2>1. n = Max(S)
    BY TakenIs
  <2>2. Character8(s, lax)
          = <<Max(S), IF AgreedWhole(s, Max(S), lax) THEN Number8(s, Max(S)) ELSE Invalid>>
    BY Zenon DEF Character8
  <2>. HIDE DEF n, S
  <2>. QED BY <2>1, <2>2, Zenon
<1>2. /\ Read8(s, lax, Strict).units = n
      /\ Read8(s, lax, Strict).point = IF IsWhole(s, lax, Strict) THEN Value8(t) ELSE Invalid
  BY Read8Parts, Zenon
<1>3. n \in 1 .. 4 /\ (n > 1 => Agreed(s, n, lax))
  <2>1. n = Max(S)
    BY TakenIs
  <2>2. Max(S) \in S
    <3>1. S \subseteq 1 .. 4 /\ 1 \in S
      OBVIOUS
    <3>. HIDE DEF S
    <3>. QED BY <3>1, MaxOfFour
  <2>. HIDE DEF n
  <2>. QED BY <2>1, <2>2
<1>4. n <= Len(s) /\ (n > 1 => LeadOK(s[1], Strict) /\ n <= SeqLength(s[1]))
  <2>1. Strict \in Nat
    BY SMT DEF Strict
  <2>. QED BY <2>1, TakenFits
<1>5. s[1] \in Bytes /\ s[1] \in Nat /\ Len(s) \in Nat /\ \A i \in 1 .. Len(s) : s[i] \in Nat
  <2>1. s[1] \in Bytes /\ Len(s) \in Nat /\ \A i \in 1 .. Len(s) : s[i] \in Bytes
    OBVIOUS
  <2>2. Bytes \subseteq Nat
    BY SMT DEF Bytes
  <2>. QED BY <2>1, <2>2, Zenon
<1>6. SeqLength(s[1]) = IF s[1] < 192 THEN 1 ELSE IF s[1] < 224 THEN 2
                        ELSE IF s[1] < 240 THEN 3 ELSE 4
  BY <1>5, SeqLengthIs, Zenon
<1>7. LeadOK(s[1], Strict) <=> s[1] < 128 \/ (194 <= s[1] /\ s[1] <= Strict)
  <2>1. \A x \in Nat : LeadOK(x, Strict) <=> x < 128 \/ (194 <= x /\ x <= Strict)
    BY SMT DEF LeadOK, Strict
  <2>. QED BY <1>5, <2>1, Zenon
<1>8. IsWhole(s, lax, Strict) <=> LeadOK(s[1], Strict) /\ n = SeqLength(s[1])
  BY Zenon DEF IsWhole
<1>9. /\ n > 1 => 2 <= Len(s) /\ Second(s[1], s[2], lax)
      /\ n > 2 => 224 <= s[1] /\ Trailing(s[3])
      /\ n > 3 => 240 <= s[1] /\ Trailing(s[4])
      /\ n = 1 => (AgreedWhole(s, n, lax) <=> s[1] < 128)
      /\ n = 2 => (AgreedWhole(s, n, lax) <=> s[1] < 224)
      /\ n = 3 => (AgreedWhole(s, n, lax) <=> s[1] < 240)
      /\ n = 4 => AgreedWhole(s, n, lax)
  <2>. HIDE DEF n
  <2>1. CASE n = 1
    BY <2>1, RowsAre
  <2>2. CASE n = 2
    BY <1>3, <2>2, RowsAre
  <2>3. CASE n = 3
    BY <1>3, <2>3, RowsAre
  <2>4. CASE n = 4
    BY <1>3, <1>5, <2>4, RowsAre
  <2>5. n = 1 \/ n = 2 \/ n = 3 \/ n = 4
    BY <1>3
  <2>. QED BY <2>1, <2>2, <2>3, <2>4, <2>5, Zenon
<1>10. \A b \in Nat : \A c : Second(b, c, lax) => 194 <= b /\ b <= 244 /\ Trailing(c)
  BY SMT DEF Second, Trailing
<1>11. t = SubSeq(s, 1, n) /\ (n \in Nat /\ n <= Len(s) =>
         Len(t) = n /\ \A i \in 1 .. n : t[i] = s[i])
  OBVIOUS
<1>. HIDE DEF n, t
<1>12. AgreedWhole(s, n, lax) <=> IsWhole(s, lax, Strict)
  BY SMT, <1>3, <1>4, <1>5, <1>6, <1>7, <1>8, <1>9, <1>10
<1>13. ASSUME IsWhole(s, lax, Strict) PROVE Value8(t) = Number8(s, n)
  <2>1. /\ n = 2 => 192 <= s[1] /\ s[1] < 224
        /\ n = 3 => 224 <= s[1] /\ s[1] < 240
        /\ n = 4 => 240 <= s[1] /\ s[1] < 248
    BY SMT, <1>3, <1>5, <1>9, <1>10, <1>12, <1>13
  <2>2. \A i \in 2 .. n : Trailing(s[i])
    <3>1. /\ n > 1 => Trailing(s[2])
          /\ n > 2 => Trailing(s[3])
          /\ n > 3 => Trailing(s[4])
      BY <1>3, <1>5, <1>9, <1>10
    <3>. QED BY <1>3, <3>1
  <2>3. Len(t) = n /\ \A i \in 1 .. n : t[i] = s[i] /\ s[i] \in Nat
    BY <1>3, <1>4, <1>5, <1>11
  <2>. QED BY <1>3, <2>1, <2>2, <2>3, ValueIsSum, Zenon
<1>. QED BY <1>1, <1>2, <1>12, <1>13, Zenon

-----------------------------------------------------------------------------
(* What a character may be: no surrogate where they are not let through.   *)
Clean(c, lax) == c \in Points /\ (IsSurrogate(c) => lax)

Legal(c, lax) == c = Invalid \/ Clean(c, lax)

(* Character, for each encoding.                                           *)
LEMMA CharacterIs ==
  ASSUME NEW s, NEW lax
  PROVE  /\ Character("utf8", s, lax) = Character8(s, lax)
         /\ Character("utf16", s, lax) = Character16(s, lax)
         /\ Character("utf32", s, lax) = Character32(s[1], lax)
         /\ \A enc \in Charsets : Character(enc, s, lax) = <<1, DecodeChar(enc, s[1])>>
<1>1. \A enc \in Charsets : enc # "utf8" /\ enc # "utf16" /\ enc # "utf32"
  BY DEF Charsets
<1>2. Character("utf8", s, lax) = Character8(s, lax)
  BY Zenon DEF Character
<1>3. Character("utf16", s, lax) = Character16(s, lax)
  BY Zenon DEF Character
<1>4. Character("utf32", s, lax) = Character32(s[1], lax)
  BY Zenon DEF Character
<1>5. \A enc \in Charsets : Character(enc, s, lax) = <<1, DecodeChar(enc, s[1])>>
  BY <1>1, Zenon DEF Character
<1>. QED BY <1>2, <1>3, <1>4, <1>5

(* The tests of surrogates, and what is a surrogate.                       *)
LEMMA SurrogateIs ==
  /\ \A c \in Nat : IsSurrogate(c) <=> c >= 55296 /\ c <= 57343
  /\ \A c \in Nat : IsSurrogate(c) <=> c \in Surrogates
<1>1. \A c \in Nat : IsSurrogate(c) <=> c >= 55296 /\ c <= 57343
  BY SMT DEF IsSurrogate
<1>2. \A c \in Nat : IsSurrogate(c) <=> c \in Surrogates
  BY SMT, <1>1 DEF Surrogates, HighSurrogates, LowSurrogates
<1>. QED BY <1>1, <1>2, SMT

LEMMA HighLowIs ==
  \A c \in Nat : /\ IsHigh(c) <=> c \in HighSurrogates
                 /\ IsLow(c) <=> c \in LowSurrogates
  BY SMT DEF IsHigh, IsLow, HighSurrogates, LowSurrogates

(* The number of a pair.                                                   *)
LEMMA NumberOfPair ==
  ASSUME NEW h \in HighSurrogates, NEW l \in LowSurrogates
  PROVE  /\ Number16(h, l) \in Nat /\ 65536 <= Number16(h, l) /\ Number16(h, l) <= 1114111
         /\ Number16(h, l) = 65536 + (h % 1024) * 1024 + (l % 1024)
<1>1. h \in Nat /\ l \in Nat /\ h % 1024 = h - 55296 /\ l % 1024 = l - 56320
  BY SMT DEF HighSurrogates, LowSurrogates
<1>2. h <= 56319 /\ h >= 55296 /\ l >= 56320 /\ l <= 57343
  BY SMT DEF HighSurrogates, LowSurrogates
<1>. QED BY SMT, <1>1, <1>2 DEF Number16

(* No single byte stands for a surrogate, nor for the replacement.          *)
Low9000 == {c \in Nat : c < 9000}

LEMMA TablesLow ==
  /\ \A p \in Decode3 : p[2] \in Low9000
  /\ \A p \in Decode15 : p[2] \in Low9000
  /\ \A i \in 1 .. 32 : Decode1252[i] \in Low9000
<1>1. \A p \in Decode3 : p[2] \in Low9000
  BY SMT DEF Decode3, Low9000
<1>2. \A p \in Decode15 : p[2] \in Low9000
  BY SMT DEF Decode15, Low9000
<1>3. \A i \in 1 .. 32 : Decode1252[i] \in Low9000
  BY SMT DEF Decode1252, Low9000
<1>. QED BY <1>1, <1>2, <1>3

(* What a byte stands for is low, or it stands for nothing.                *)
LEMMA DecodedLow ==
  ASSUME NEW enc \in Charsets, NEW b \in Bytes
  PROVE  DecodeChar(enc, b) \in Low9000 \cup {Invalid}
<1>1. b \in Low9000
  BY SMT DEF Bytes, Low9000
<1>2. b \in 128 .. 159 => Decode1252[b - 127] \in Low9000
  <2>1. b \in 128 .. 159 => b - 127 \in 1 .. 32
    BY SMT DEF Bytes
  <2>. QED BY <2>1, TablesLow, Zenon
<1>3. Find(Decode3, b, b) \in Low9000 /\ Find(Decode15, b, b) \in Low9000
  BY <1>1, TablesLow, FindIn, Zenon
<1>4. enc \in {"ascii", "iso_8859_1", "iso_8859_3", "iso_8859_15", "windows_1252"}
  BY DEF Charsets
<1>5. CASE enc = "ascii"
  BY <1>1, <1>2, <1>3, <1>5, DecodeCharIs, Zenon
<1>6. CASE enc = "iso_8859_1"
  BY <1>1, <1>2, <1>3, <1>6, DecodeCharIs, Zenon
<1>7. CASE enc = "iso_8859_3"
  BY <1>1, <1>2, <1>3, <1>7, DecodeCharIs, Zenon
<1>8. CASE enc = "iso_8859_15"
  BY <1>1, <1>2, <1>3, <1>8, DecodeCharIs, Zenon
<1>9. CASE enc = "windows_1252"
  BY <1>1, <1>2, <1>3, <1>9, DecodeCharIs, Zenon
<1>. QED BY <1>4, <1>5, <1>6, <1>7, <1>8, <1>9

LEMMA LowLegal ==
  ASSUME NEW lax
  PROVE  \A c \in Low9000 : Clean(c, lax) /\ c # Replacement /\ c # Invalid
<1>1. \A c \in Low9000 : c \in Points /\ ~IsSurrogate(c) /\ c # Replacement /\ c # Invalid
  BY SMT DEF Low9000, Points, IsSurrogate, Replacement, Invalid
<1>. QED BY <1>1, Zenon DEF Clean

(* The number of a whole character of UTF-8.                               *)
LEMMA CleanRanges ==
  ASSUME NEW lax, NEW x \in Nat, x <= 1114111,
         x < 55296 \/ 57344 <= x \/ lax
  PROVE  Clean(x, lax)
<1>1. x \in Points
  BY SMT DEF Points
<1>2. x < 55296 \/ 57344 <= x => ~IsSurrogate(x)
  BY SMT, SurrogateIs
<1>. QED BY <1>1, <1>2 DEF Clean

LEMMA NumberTwo ==
  ASSUME NEW a \in Nat, NEW b \in Nat, NEW lax, Second(a, b, lax), a < 224
  PROVE  Clean((a - 192) * 64 + b - 128, lax)
<1>. DEFINE x == (a - 192) * 64 + b - 128
<1>1. x \in Nat /\ x < 55296 /\ x <= 1114111
  BY SMT DEF Second
<1>. HIDE DEF x
<1>2. Clean(x, lax)
  BY SMT, <1>1, CleanRanges
<1>. QED BY <1>2 DEF x

LEMMA NumberThree ==
  ASSUME NEW a \in Nat, NEW b \in Nat, NEW c \in Nat, NEW lax \in BOOLEAN,
         Second(a, b, lax), 224 <= a, a < 240, Trailing(c)
  PROVE  Clean((a - 224) * 4096 + (b - 128) * 64 + c - 128, lax)
<1>. DEFINE x == (a - 224) * 4096 + (b - 128) * 64 + c - 128
<1>1. x \in Nat /\ x <= 1114111
  BY SMT DEF Second, Trailing
<1>2. a < 237 \/ (a = 237 /\ b <= 159) => x < 55296
  BY SMT DEF Second, Trailing
<1>3. a > 237 => 57344 <= x
  BY SMT DEF Second, Trailing
<1>4. a < 237 \/ (a = 237 /\ b <= 159) \/ a > 237 \/ lax
  BY SMT DEF Second
<1>. HIDE DEF x
<1>5. Clean(x, lax)
  BY SMT, <1>1, <1>2, <1>3, <1>4, CleanRanges
<1>. QED BY SMT, <1>5 DEF x

LEMMA NumberFour ==
  ASSUME NEW a \in Nat, NEW b \in Nat, NEW c \in Nat, NEW d \in Nat, NEW lax,
         Second(a, b, lax), 240 <= a, Trailing(c), Trailing(d)
  PROVE  Clean((a - 240) * 262144 + (b - 128) * 4096 + (c - 128) * 64 + d - 128, lax)
<1>. DEFINE x == (a - 240) * 262144 + (b - 128) * 4096 + (c - 128) * 64 + d - 128
<1>1. x \in Nat /\ 57344 <= x /\ x <= 1114111
  BY SMT DEF Second, Trailing
<1>. HIDE DEF x
<1>2. Clean(x, lax)
  BY SMT, <1>1, CleanRanges
<1>. QED BY SMT, <1>2 DEF x

(* A whole sequence has the number of a character.                         *)
LEMMA NumberLegal ==
  ASSUME NEW s \in Seq(Bytes), s # <<>>, NEW lax \in BOOLEAN, NEW n \in 1 .. 4,
         AgreedWhole(s, n, lax)
  PROVE  Clean(Number8(s, n), lax)
<1>1. s[1] \in Nat /\ Len(s) \in Nat /\ \A i \in 1 .. Len(s) : s[i] \in Nat
  <2>1. s[1] \in Bytes /\ Len(s) \in Nat /\ \A i \in 1 .. Len(s) : s[i] \in Bytes
    OBVIOUS
  <2>2. Bytes \subseteq Nat
    BY SMT DEF Bytes
  <2>. QED BY <2>1, <2>2, Zenon
<1>. DEFINE a == s[1]
            b == s[2]
            c == s[3]
            d == s[4]
<1>2. /\ n = 1 => Number8(s, n) = a
      /\ n = 2 => Number8(s, n) = (a - 192) * 64 + b - 128
      /\ n = 3 => Number8(s, n) = (a - 224) * 4096 + (b - 128) * 64 + c - 128
      /\ n = 4 => Number8(s, n)
                    = (a - 240) * 262144 + (b - 128) * 4096 + (c - 128) * 64 + d - 128
  BY SMT DEF Number8
<1>3. CASE n = 1
  <2>1. a < 128 /\ a \in Nat
    BY <1>1, <1>3, RowsAre
  <2>. HIDE DEF a
  <2>. QED BY SMT, <1>2, <1>3, <2>1, CleanRanges
<1>4. CASE n = 2
  <2>1. Agreed(s, 2, lax) /\ a < 224
    BY <1>4, RowsAre
  <2>2. 2 <= Len(s) /\ Second(a, b, lax)
    BY <2>1, RowsAre
  <2>3. a \in Nat /\ b \in Nat
    BY <1>1, <2>2
  <2>. HIDE DEF a, b, c, d
  <2>4. Clean((a - 192) * 64 + b - 128, lax)
    BY SMT, <2>1, <2>2, <2>3, NumberTwo
  <2>. QED BY SMT, <1>2, <1>4, <2>4
<1>5. CASE n = 3
  <2>1. Agreed(s, 3, lax) /\ a < 240
    BY <1>5, RowsAre
  <2>2. 3 <= Len(s) /\ Second(a, b, lax) /\ 224 <= a /\ Trailing(c)
    BY <2>1, RowsAre
  <2>3. a \in Nat /\ b \in Nat /\ c \in Nat
    BY <1>1, <2>2
  <2>. HIDE DEF a, b, c, d
  <2>4. Clean((a - 224) * 4096 + (b - 128) * 64 + c - 128, lax)
    BY SMT, <2>1, <2>2, <2>3, NumberThree
  <2>. QED BY SMT, <1>2, <1>5, <2>4
<1>6. CASE n = 4
  <2>1. Agreed(s, 4, lax)
    BY <1>6, RowsAre
  <2>2. 4 <= Len(s) /\ Second(a, b, lax) /\ 240 <= a /\ Trailing(c) /\ Trailing(d)
    BY <2>1, RowsAre
  <2>3. a \in Nat /\ b \in Nat /\ c \in Nat /\ d \in Nat
    BY <1>1, <2>2
  <2>. HIDE DEF a, b, c, d
  <2>4. Clean((a - 240) * 262144 + (b - 128) * 4096 + (c - 128) * 64 + d - 128, lax)
    BY SMT, <2>1, <2>2, <2>3, NumberFour
  <2>. QED BY SMT, <1>2, <1>6, <2>4
<1>7. n = 1 \/ n = 2 \/ n = 3 \/ n = 4
  BY SMT
<1>. QED BY <1>3, <1>4, <1>5, <1>6, <1>7

(* ch[1] units make the character or piece ch[2].                          *)
Fits(ch, s, lax) ==
  /\ ch = <<ch[1], ch[2]>> /\ ch[1] \in Nat /\ ch[1] >= 1 /\ ch[1] <= Len(s)
  /\ Legal(ch[2], lax)

LEMMA FitsIs ==
  ASSUME NEW n \in Nat, NEW c, NEW s, NEW lax, n >= 1, n <= Len(s), Legal(c, lax)
  PROVE  Fits(<<n, c>>, s, lax)
  BY DEF Fits

(* What is at the front of a text is there, and is a character or a piece  *)
(* that is none.                                                           *)
LEMMA CharacterFits ==
  ASSUME NEW enc \in Encodings, NEW s \in Seq(Units(enc)), s # <<>>, NEW lax \in BOOLEAN
  PROVE  Fits(Character(enc, s, lax), s, lax)
<1>1. s[1] \in Units(enc) /\ Len(s) \in Nat /\ Len(s) >= 1
  BY FrontOf
<1>2. CASE enc = "utf8"
  <2>. DEFINE n == Taken(s, lax, Strict)
              S == {1} \cup {k \in 1 .. 4 : Agreed(s, k, lax)}
  <2>1. s \in Seq(Bytes)
    BY <1>2, UnitsIs
  <2>2. Character(enc, s, lax)
          = <<Max(S), IF AgreedWhole(s, Max(S), lax) THEN Number8(s, Max(S)) ELSE Invalid>>
    BY <1>2, CharacterIs, Zenon DEF Character8
  <2>3. n = Max(S)
    BY <2>1, TakenIs
  <2>4. n \in 1 .. 4 /\ n <= Len(s)
    <3>1. Strict \in Nat
      BY SMT DEF Strict
    <3>. QED BY <2>1, <3>1, TakenFits
  <2>. HIDE DEF n, S
  <2>. DEFINE x == IF AgreedWhole(s, n, lax) THEN Number8(s, n) ELSE Invalid
  <2>5. Legal(x, lax)
    BY <2>1, <2>4, NumberLegal, Zenon DEF Legal
  <2>6. Character(enc, s, lax) = <<n, x>>
    BY <2>2, <2>3, Zenon
  <2>. HIDE DEF x
  <2>7. n \in Nat /\ n >= 1
    BY <2>4
  <2>. QED BY <2>4, <2>5, <2>6, <2>7, FitsIs, Zenon
<1>3. CASE enc = "utf16"
  <2>. DEFINE a == s[1]
              b == s[2]
              pair == Len(s) > 1 /\ a \in HighSurrogates /\ b \in LowSurrogates
              v == Number16(a, b)
              x == IF a \in Surrogates /\ ~lax THEN Invalid ELSE a
  <2>1. a \in Words
    BY <1>1, <1>3, UnitsIs
  <2>2. Character(enc, s, lax) = IF pair THEN <<2, v>> ELSE <<1, x>>
    BY <1>3, CharacterIs, Zenon DEF Character16
  <2>3. pair => Legal(v, lax)
    <3>1. ASSUME pair PROVE v \in Nat /\ 57344 <= v /\ v <= 1114111
      BY SMT, <3>1, NumberOfPair
    <3>2. \A z \in Nat : 57344 <= z /\ z <= 1114111 => Clean(z, lax)
      BY SMT, CleanRanges
    <3>. HIDE DEF v, pair
    <3>3. pair => Clean(v, lax)
      BY SMT, <3>1, <3>2
    <3>. QED BY <3>3, Zenon DEF Legal
  <2>4. Legal(x, lax)
    <3>1. \A w \in Words : w \in Nat /\ w <= 1114111
      BY SMT DEF Words
    <3>2. x # Invalid => Clean(x, lax)
      BY <2>1, <3>1, SurrogateIs DEF Clean, Points
    <3>. HIDE DEF x
    <3>. QED BY <3>2, Zenon DEF Legal
  <2>5. pair => 2 <= Len(s)
    BY <1>1
  <2>6. 1 \in Nat /\ 1 >= 1 /\ 2 \in Nat /\ 2 >= 1
    OBVIOUS
  <2>. HIDE DEF pair, v, x, a, b
  <2>7. CASE pair
    <3>1. Character(enc, s, lax) = <<2, v>>
      BY <2>2, <2>7, Zenon
    <3>. QED BY <2>3, <2>5, <2>6, <2>7, <3>1, FitsIs, Zenon
  <2>8. CASE ~pair
    <3>1. Character(enc, s, lax) = <<1, x>> /\ 1 <= Len(s)
      BY <1>1, <2>2, <2>8
    <3>. QED BY <2>4, <2>6, <3>1, FitsIs, Zenon
  <2>. QED BY <2>7, <2>8
<1>4. CASE enc = "utf32"
  <2>. DEFINE c == s[1]
              x == IF c > 1114111 \/ (c \in Surrogates /\ ~lax) THEN Invalid ELSE c
  <2>1. c \in Nat
    BY <1>1, <1>4, UnitsIs
  <2>2. Character(enc, s, lax) = <<1, x>>
    <3>1. Character(enc, s, lax) = Character32(c, lax)
      BY <1>4, CharacterIs, Zenon
    <3>. QED BY SMT, <3>1 DEF Character32
  <2>. HIDE DEF c
  <2>3. Legal(x, lax)
    <3>1. x # Invalid => Clean(x, lax)
      BY SMT, <2>1, SurrogateIs DEF Clean, Points
    <3>. HIDE DEF x
    <3>. QED BY <3>1, Zenon DEF Legal
  <2>. HIDE DEF x
  <2>4. 1 \in Nat /\ 1 >= 1 /\ 1 <= Len(s)
    BY <1>1
  <2>. QED BY <2>2, <2>3, <2>4, FitsIs, Zenon
<1>5. CASE enc \in Charsets
  <2>. DEFINE x == DecodeChar(enc, s[1])
  <2>1. s[1] \in Bytes
    BY <1>1, <1>5, UnitsIs
  <2>2. Character(enc, s, lax) = <<1, x>>
    BY <1>5, CharacterIs, Zenon
  <2>3. Legal(x, lax)
    BY <1>5, <2>1, DecodedLow, LowLegal, Zenon DEF Legal
  <2>. HIDE DEF x
  <2>4. 1 \in Nat /\ 1 >= 1 /\ 1 <= Len(s)
    BY <1>1
  <2>. QED BY <2>2, <2>3, <2>4, FitsIs, Zenon
<1>. QED BY <1>2, <1>3, <1>4, <1>5 DEF Encodings

-----------------------------------------------------------------------------
LEMMA WordsAreNat == \A w \in Words : w \in Nat
  BY SMT DEF Words

(* What a transcoder sees of the rest of a source.                         *)
Seen(to, s, after) == IF to = "utf8" THEN Append(s, after) ELSE s

(* What utf16_to_utf8 sees, which looks at the unit after the source, is   *)
(* what the others see, unless that unit makes a pair with the last.       *)
LEMMA PairAlike ==
  ASSUME NEW s \in Seq(Words), s # <<>>, NEW after \in Words, NEW to,
         to = "utf8" => ~(Len(s) = 1 /\ IsHigh(s[1]) /\ IsLow(after))
  PROVE  LET t == Seen(to, s, after)
         IN /\ t[1] = s[1] /\ s[1] \in Words
            /\ Len(s) > 1 => t[2] = s[2] /\ s[2] \in Words
            /\ IsPair(t) <=> IsPair(s)
<1>. DEFINE t == Seen(to, s, after)
<1>1. t = IF to = "utf8" THEN Append(s, after) ELSE s
  BY DEF Seen
<1>. HIDE DEF t
<1>2. /\ t[1] = s[1] /\ s[1] \in Words /\ (Len(s) > 1 => t[2] = s[2] /\ s[2] \in Words)
      /\ Len(s) = 1 /\ to = "utf8" => t[2] = after
      /\ Len(t) = IF to = "utf8" THEN Len(s) + 1 ELSE Len(s)
      /\ Len(s) >= 1 /\ Len(s) \in Nat
  <2>1. s[1] \in Words /\ (Len(s) > 1 => s[2] \in Words) /\ Len(s) >= 1 /\ Len(s) \in Nat
    BY ElementOfSeq
  <2>2. CASE to = "utf8"
    BY <1>1, <2>1, <2>2
  <2>3. CASE to # "utf8"
    BY <1>1, <2>1, <2>3
  <2>. QED BY <2>2, <2>3
<1>3. IsPair(t) <=> IsPair(s)
  <2>1. CASE Len(s) > 1
    <3>1. Len(t) > 1 /\ t[1] = s[1] /\ t[2] = s[2]
      BY <1>2, <2>1
    <3>. QED BY <2>1, <3>1, Zenon DEF IsPair
  <2>2. CASE ~(Len(s) > 1)
    <3>0. Len(s) = 1
      <4>1. Len(s) \in Nat /\ Len(s) >= 1
        OBVIOUS
      <4>2. \A n \in Nat : n >= 1 /\ ~(n > 1) => n = 1
        OBVIOUS
      <4>. QED BY <2>2, <4>1, <4>2, Zenon
    <3>1. ~IsPair(s)
      BY <2>2, Zenon DEF IsPair
    <3>2. CASE to = "utf8"
      <4>1. t[1] = s[1] /\ t[2] = after
        BY <1>2, <3>0, <3>2
      <4>. QED BY <3>0, <3>1, <3>2, <4>1, Zenon DEF IsPair
    <3>3. CASE to # "utf8"
      <4>1. Len(t) = 1
        BY <1>2, <3>0, <3>3
      <4>2. ~(Len(t) > 1)
        BY ONLY SMT, <4>1
      <4>. QED BY <3>1, <4>2, Zenon DEF IsPair
    <3>. QED BY <3>2, <3>3
  <2>. QED BY <2>1, <2>2
<1>. QED BY <1>2, <1>3 DEF t

(* Decode16 reads what UTF-16 says, whatever follows.                      *)
LEMMA Character16Right ==
  ASSUME NEW s, NEW t, NEW lax, s[1] \in Words, t[1] = s[1],
         Len(s) > 1 => t[2] = s[2] /\ s[2] \in Words, IsPair(t) <=> IsPair(s)
  PROVE  LET r == Decode16(t, lax)
         IN Character16(s, lax) = <<r.units, r.point>>
<1>. DEFINE a == s[1]
            b == s[2]
            r == Decode16(t, lax)
            pair == Len(s) > 1 /\ a \in HighSurrogates /\ b \in LowSurrogates
<1>1. a \in Nat /\ (Len(s) > 1 => b \in Nat)
  <2>1. \A x \in Words : x \in Nat
    BY WordsAreNat
  <2>. QED BY <2>1, Zenon
<1>2. pair <=> IsPair(s)
  BY <1>1, HighLowIs, Zenon DEF IsPair
<1>3. CASE IsPair(s)
  <2>1. Character16(s, lax) = <<2, Number16(a, b)>>
    BY <1>2, <1>3, Zenon DEF Character16
  <2>2. r = [units |-> 2, point |-> 65536 + (t[1] % 1024) * 1024 + (t[2] % 1024)]
    BY SMT, <1>3 DEF Decode16
  <2>3. t[1] = a /\ t[2] = b /\ a \in HighSurrogates /\ b \in LowSurrogates
    BY <1>2, <1>3, Zenon
  <2>4. Number16(a, b) = 65536 + (a % 1024) * 1024 + (b % 1024)
    BY SMT, <2>3, NumberOfPair
  <2>. HIDE DEF a, b, r
  <2>. QED BY SMT, <2>1, <2>2, <2>3, <2>4 DEF r
<1>4. CASE ~IsPair(s)
  <2>1. Character16(s, lax) = <<1, IF a \in Surrogates /\ ~lax THEN Invalid ELSE a>>
    BY <1>2, <1>4, Zenon DEF Character16
  <2>2. r = [units |-> 1, point |-> IF IsSurrogate(t[1]) /\ ~lax THEN Invalid ELSE t[1]]
    BY SMT, <1>4 DEF Decode16
  <2>3. a \in Surrogates <=> IsSurrogate(a)
    BY <1>1, SurrogateIs, SMT
  <2>. HIDE DEF a, r
  <2>. QED BY SMT, <2>1, <2>2, <2>3 DEF a, r
<1>. QED BY <1>3, <1>4

(* Every transcoder reads the character at the front of the rest of its    *)
(* source, and steps over its units.                                       *)
LEMMA ReadIsCharacter ==
  ASSUME NEW from \in Encodings, NEW to \in Encodings, NEW s \in Seq(Units(from)), s # <<>>,
         NEW lax \in BOOLEAN, NEW after \in Words,
         HasTranscoder(from, to), ~Unclear(from, "utf8", s, after)
  PROVE  LET r == ReadFront(from, to, s, after, lax)
             ch == Character(from, s, lax)
         IN r.units = ch[1] /\ r.point = ch[2]
<1>. DEFINE r == ReadFront(from, to, s, after, lax)
<1>1. s[1] \in Units(from)
  BY FrontOf
<1>2. \A ch, n, x : ch = <<n, x>> => n = ch[1] /\ x = ch[2]
  OBVIOUS
<1>3. CASE from = "utf8"
  <2>1. to \in {"utf8", "utf16", "utf32"}
    BY <1>3 DEF HasTranscoder, Charsets, Encodings
  <2>2. s \in Seq(Bytes) /\ s[1] \in Bytes
    BY <1>1, <1>3, UnitsIs
  <2>3. s[1] < 248
    BY <1>3, Zenon DEF Unclear
  <2>4. r = IF to = "utf8" THEN Read8(s, lax, Strict) ELSE Read8(s, lax, Lenient)
    BY <1>3, <2>1, Read8Is, Zenon
  <2>5. Read8(s, lax, Strict) = Read8(s, lax, Lenient)
    BY <2>2, <2>3, TakenAlike, Zenon DEF Read8
  <2>6. Character(from, s, lax) = <<r.units, r.point>>
    BY <1>3, <2>2, <2>4, <2>5, CharacterIs, Character8Right, Zenon
  <2>. HIDE DEF r
  <2>. QED BY <1>2, <2>6, Zenon DEF r
<1>4. CASE from = "utf16"
  <2>1. s \in Seq(Words)
    BY <1>4, UnitsIs
  <2>2. ~(Len(s) = 1 /\ IsHigh(s[1]) /\ IsLow(after))
    BY <1>4, Zenon DEF Unclear
  <2>. DEFINE t == Seen(to, s, after)
  <2>3. r = Decode16(t, lax)
    <3>1. r = IF to = "utf8" THEN Decode16To8(s, after, lax) ELSE Decode16(s, lax)
      BY <1>4, Zenon DEF ReadFront
    <3>. QED BY <3>1, Zenon DEF Decode16To8, Seen
  <2>. HIDE DEF r
  <2>4. /\ t[1] = s[1] /\ s[1] \in Words
        /\ Len(s) > 1 => t[2] = s[2] /\ s[2] \in Words
        /\ IsPair(t) <=> IsPair(s)
    BY <2>1, <2>2, PairAlike, Zenon
  <2>. HIDE DEF t
  <2>5. Character16(s, lax) = <<r.units, r.point>>
    BY <2>3, <2>4, Character16Right, Zenon
  <2>6. Character(from, s, lax) = <<r.units, r.point>>
    BY <1>4, <2>5, CharacterIs, Zenon
  <2>. QED BY <1>2, <2>6, Zenon DEF r
<1>5. CASE from = "utf32"
  <2>1. s[1] \in Nat
    BY <1>1, <1>5, UnitsIs
  <2>2. r = Decode32(s[1], lax)
    BY <1>5, Zenon DEF ReadFront
  <2>3. \A c \in Nat : Character32(c, lax) = <<Decode32(c, lax).units, Decode32(c, lax).point>>
    BY SMT, SurrogateIs DEF Character32, Decode32
  <2>4. Character(from, s, lax) = <<r.units, r.point>>
    BY <1>5, <2>1, <2>2, <2>3, CharacterIs, Zenon
  <2>. HIDE DEF r
  <2>. QED BY <1>2, <2>4, Zenon DEF r
<1>6. CASE from \in Charsets
  <2>1. from # "utf8" /\ from # "utf16" /\ from # "utf32"
    BY <1>6 DEF Charsets
  <2>2. r = DecodeByte(from, s)
    BY <2>1, Zenon DEF ReadFront
  <2>3. r.units = 1 /\ r.point = DecodeChar(from, s[1])
    BY <2>2 DEF DecodeByte
  <2>4. Character(from, s, lax) = <<1, DecodeChar(from, s[1])>>
    BY <1>6, CharacterIs, Zenon
  <2>. HIDE DEF r
  <2>. QED BY <1>2, <2>3, <2>4, Zenon DEF r
<1>. QED BY <1>3, <1>4, <1>5, <1>6 DEF Encodings

(* The code points of a text, and Invalid for its pieces that are none.    *)
Chars(lax) == {c \in Points \cup {Invalid} : Legal(c, lax)}

LEMMA LegalIsChar == ASSUME NEW c, NEW lax, Legal(c, lax) PROVE c \in Chars(lax)
  BY DEF Legal, Clean, Chars

(* f[i] are the characters from the i-th unit on.                          *)
Goes(f, enc, s, lax) ==
  /\ f \in [1 .. Len(s) + 1 -> Seq(Chars(lax))] /\ f[Len(s) + 1] = <<>>
  /\ \A i \in 1 .. Len(s) :
       LET ch == Character(enc, From(s, i), lax)
       IN f[i] = <<ch[2]>> \o f[i + ch[1]]

(* The characters of a text are those of such a function.                  *)
LEMMA CharactersGo ==
  ASSUME NEW enc \in Encodings, NEW s \in Seq(Units(enc)), NEW lax \in BOOLEAN
  PROVE  \E f : Goes(f, enc, s, lax) /\ CharactersOf(enc, s, lax) = f[1]
<1>. DEFINE n == Len(s)
            ch(i) == Character(enc, From(s, i), lax)
            z == [i \in 1 .. n |-> ch(i)[2]]
            u == [i \in 1 .. n |-> ch(i)[1]]
            B(f) == [i \in 1 .. n + 1 |-> IF i > n THEN <<>> ELSE <<z[i]>> \o f[i + u[i]]]
            C(f) == [i \in 1 .. n + 1 |->
                       IF i > n THEN <<>>
                       ELSE LET c == Character(enc, SubSeq(s, i, n), lax)
                            IN <<c[2]>> \o f[i + c[1]]]
<1>1. n \in Nat
  OBVIOUS
<1>2. ASSUME NEW i \in 1 .. n
      PROVE  /\ ch(i)[1] \in Nat /\ ch(i)[1] >= 1 /\ i + ch(i)[1] <= n + 1
             /\ ch(i)[2] \in Chars(lax)
  <2>1. From(s, i) \in Seq(Units(enc)) /\ From(s, i) # <<>> /\ Len(From(s, i)) = n + 1 - i
    BY RestOf
  <2>2. Fits(ch(i), From(s, i), lax)
    BY <2>1, CharacterFits, Zenon
  <2>. HIDE DEF ch
  <2>3. /\ ch(i)[1] \in Nat /\ ch(i)[1] >= 1 /\ ch(i)[1] <= Len(From(s, i))
        /\ Legal(ch(i)[2], lax)
    BY <2>2, Zenon DEF Fits
  <2>4. i + ch(i)[1] <= n + 1
    BY <1>1, <2>1, <2>3
  <2>. QED BY <2>3, <2>4, LegalIsChar, Zenon
<1>. HIDE DEF ch
<1>3. z \in [1 .. n -> Chars(lax)] /\ u \in [1 .. n -> Nat]
  BY <1>2
<1>4. \A i \in 1 .. n : u[i] >= 1 /\ i + u[i] <= n + 1
  BY <1>2
<1>40. Strides(n, Chars(lax), z, u)
  <2>. HIDE DEF n, z, u
  <2>. QED BY <1>3, <1>4, Zenon DEF Strides
<1>5. ASSUME NEW f PROVE B(f) = C(f)
  <2>1. ASSUME NEW i \in 1 .. n + 1
        PROVE  (IF i > n THEN <<>> ELSE <<z[i]>> \o f[i + u[i]])
                 = IF i > n THEN <<>> ELSE LET c == Character(enc, SubSeq(s, i, n), lax)
                                           IN <<c[2]>> \o f[i + c[1]]
    <3>1. CASE i > n
      BY <3>1, Zenon
    <3>2. CASE ~(i > n)
      <4>1. i \in 1 .. n
        BY <1>1, <3>2
      <4>2. z[i] = ch(i)[2] /\ u[i] = ch(i)[1]
        BY <4>1, Zenon
      <4>3. ch(i) = Character(enc, SubSeq(s, i, n), lax)
        BY Zenon DEF ch, From
      <4>. HIDE DEF z, u, n
      <4>. QED BY <3>2, <4>2, <4>3, Zenon
    <3>. QED BY <3>1, <3>2
  <2>. QED BY <2>1, Zenon
<1>. DEFINE f == CHOOSE f : f = C(f)
<1>6. CharactersOf(enc, s, lax) = f[1]
  BY Zenon DEF CharactersOf
<1>7. f = C(f)
  <2>. HIDE DEF z, u, n
  <2>1. \E g : g = B(g)
    <3>1. \E g : Strung(g, n, z, u)
      BY <1>1, <1>40, CharsExist, Zenon
    <3>. QED BY <3>1, Zenon DEF Strung
  <2>2. \E g : g = C(g)
    <3>1. PICK g : g = B(g)
      BY <2>1
    <3>2. B(g) = C(g)
      BY <1>5
    <3>. HIDE DEF B, C
    <3>. QED BY <3>1, <3>2, Zenon
  <2>. HIDE DEF C
  <2>. QED BY <2>2, Zenon
<1>. HIDE DEF f
<1>8. f = B(f)
  <2>1. B(f) = C(f)
    BY <1>5
  <2>. HIDE DEF B, C
  <2>. QED BY <1>7, <2>1, Zenon
<1>9. /\ f \in [1 .. n + 1 -> Seq(Chars(lax))] /\ f[n + 1] = <<>>
      /\ \A i \in 1 .. n : f[i] = <<z[i]>> \o f[i + u[i]]
  <2>1. Strung(f, n, z, u)
    BY <1>8, Zenon DEF Strung
  <2>. HIDE DEF z, u, n
  <2>2. Unrolled(f, n, Chars(lax), z, u)
    BY <1>1, <1>40, <2>1, CharsDown, Zenon
  <2>. QED BY <2>2, Zenon DEF Unrolled
<1>10. \A i \in 1 .. n : f[i] = <<ch(i)[2]>> \o f[i + ch(i)[1]]
  BY <1>9, Zenon
<1>11. Goes(f, enc, s, lax)
  BY <1>9, <1>10, Zenon DEF Goes, ch
<1>. QED BY <1>6, <1>11

(* What is left of what is left.                                           *)
LEMMA FromFrom ==
  ASSUME NEW A, NEW s \in Seq(A), NEW i \in 1 .. Len(s) + 1
  PROVE  /\ From(s, i) \in Seq(A) /\ Len(From(s, i)) = Len(s) + 1 - i
         /\ \A j \in 1 .. Len(From(s, i)) + 1 : From(From(s, i), j) = From(s, i + j - 1)
<1>. DEFINE t == From(s, i)
<1>1. t \in Seq(A) /\ Len(t) = Len(s) + 1 - i /\ \A k \in 1 .. Len(t) : t[k] = s[i + k - 1]
  BY DEF From
<1>. HIDE DEF t
<1>2. ASSUME NEW j \in 1 .. Len(t) + 1 PROVE From(t, j) = From(s, i + j - 1)
  <2>. DEFINE x == From(t, j)
              y == From(s, i + j - 1)
  <2>1. /\ x \in Seq(A) /\ Len(x) = Len(t) + 1 - j
        /\ \A k \in 1 .. Len(x) : x[k] = t[j + k - 1]
    BY <1>1 DEF From
  <2>2. /\ y \in Seq(A) /\ Len(y) = Len(s) + 1 - (i + j - 1)
        /\ \A k \in 1 .. Len(y) : y[k] = s[(i + j - 1) + k - 1]
    BY <1>1 DEF From
  <2>. HIDE DEF x, y
  <2>3. Len(x) = Len(y)
    BY <1>1, <2>1, <2>2
  <2>4. ASSUME NEW k \in 1 .. Len(x) PROVE x[k] = y[k]
    <3>1. j + k - 1 \in 1 .. Len(t) /\ i + (j + k - 1) - 1 = (i + j - 1) + k - 1
      BY <1>1, <2>1
    <3>2. x[k] = t[j + k - 1] /\ t[j + k - 1] = s[i + (j + k - 1) - 1]
      BY <1>1, <2>1, <3>1
    <3>3. y[k] = s[(i + j - 1) + k - 1]
      BY <2>2, <2>3
    <3>. QED BY <3>1, <3>2, <3>3
  <2>5. x = y
    BY <2>1, <2>2, <2>3, <2>4, SeqEqual
  <2>. QED BY <2>5 DEF x, y
<1>. QED BY <1>1, <1>2 DEF t

(* From the i-th unit on a text goes as what is left of it does.           *)
LEMMA GoesAlike ==
  ASSUME NEW enc \in Encodings, NEW s \in Seq(Units(enc)), NEW lax \in BOOLEAN,
         NEW i \in 1 .. Len(s) + 1,
         NEW f, Goes(f, enc, s, lax), NEW g, Goes(g, enc, From(s, i), lax)
  PROVE  \A j \in 1 .. Len(From(s, i)) + 1 : g[j] = f[i + j - 1]
<1>. DEFINE t == From(s, i)
            n == Len(s)
            m == Len(t)
<1>1. t \in Seq(Units(enc)) /\ m = n + 1 - i /\ n \in Nat /\ m \in Nat
  BY FromFrom
<1>2. \A j \in 1 .. m + 1 : From(t, j) = From(s, i + j - 1)
  BY FromFrom
<1>. DEFINE S == {k \in Nat : \A j \in 1 .. m + 1 : j >= m + 1 - k => g[j] = f[i + j - 1]}
<1>3. 0 \in S
  <2>1. g[m + 1] = <<>> /\ f[n + 1] = <<>> /\ i + (m + 1) - 1 = n + 1
    BY <1>1 DEF Goes
  <2>2. \A j \in 1 .. m + 1 : j >= m + 1 - 0 => j = m + 1
    BY <1>1
  <2>. QED BY <2>1, <2>2
<1>4. ASSUME NEW k \in Nat, k \in S PROVE k + 1 \in S
  <2>1. ASSUME NEW j \in 1 .. m + 1, j >= m + 1 - (k + 1) PROVE g[j] = f[i + j - 1]
    <3>1. CASE j >= m + 1 - k
      BY <1>4, <3>1
    <3>2. CASE j < m + 1 - k
      <4>. DEFINE ch == Character(enc, From(t, j), lax)
      <4>1. j \in 1 .. m /\ i + j - 1 \in 1 .. n
        BY <1>1, <3>2
      <4>2. /\ From(t, j) \in Seq(Units(enc)) /\ From(t, j) # <<>>
            /\ Len(From(t, j)) = m + 1 - j
        BY <1>1, <4>1, RestOf
      <4>3. ch[1] \in Nat /\ ch[1] >= 1 /\ ch[1] <= Len(From(t, j))
        BY <4>2, CharacterFits, Zenon DEF Fits
      <4>4. ch = Character(enc, From(s, i + j - 1), lax)
        BY <1>2, <2>1, Zenon
      <4>5. g[j] = <<ch[2]>> \o g[j + ch[1]] /\ f[i + j - 1] = <<ch[2]>> \o f[(i + j - 1) + ch[1]]
        <5>1. g[j] = <<ch[2]>> \o g[j + ch[1]]
          BY <4>1, Zenon DEF Goes
        <5>. DEFINE p == i + j - 1
        <5>2. p \in 1 .. n
          BY <4>1
        <5>. HIDE DEF ch, p
        <5>3. f[p] = <<ch[2]>> \o f[p + ch[1]]
          BY <4>4, <5>2, Zenon DEF Goes, p
        <5>. QED BY <5>1, <5>3 DEF p
      <4>. HIDE DEF ch
      <4>6. /\ j + ch[1] \in 1 .. m + 1 /\ j + ch[1] >= m + 1 - k
            /\ i + (j + ch[1]) - 1 = (i + j - 1) + ch[1]
        BY <1>1, <2>1, <4>1, <4>2, <4>3
      <4>7. g[j + ch[1]] = f[i + (j + ch[1]) - 1]
        BY <1>4, <4>6
      <4>. QED BY <4>5, <4>6, <4>7
    <3>. QED BY <1>1, <3>1, <3>2
  <2>. QED BY <2>1
<1>. HIDE DEF S
<1>5. m \in S
  <2>1. \A k \in Nat : k \in S
    BY <1>3, <1>4, Induct
  <2>. QED BY <1>1, <2>1
<1>6. \A j \in 1 .. m + 1 : j >= m + 1 - m
  BY <1>1
<1>. QED BY <1>5, <1>6 DEF S

(* The characters of a text are the one at its front and those of the      *)
(* rest.                                                                   *)
LEMMA CharactersStep ==
  ASSUME NEW enc \in Encodings, NEW s \in Seq(Units(enc)), NEW lax \in BOOLEAN
  PROVE  /\ CharactersOf(enc, s, lax) \in Seq(Chars(lax))
         /\ s = <<>> => CharactersOf(enc, s, lax) = <<>>
         /\ s # <<>> => LET ch == Character(enc, s, lax)
                        IN /\ From(s, 1 + ch[1]) \in Seq(Units(enc))
                           /\ CharactersOf(enc, s, lax)
                                = <<ch[2]>> \o CharactersOf(enc, From(s, 1 + ch[1]), lax)
<1>1. PICK f : Goes(f, enc, s, lax) /\ CharactersOf(enc, s, lax) = f[1]
  BY CharactersGo
<1>2. f[1] \in Seq(Chars(lax))
  BY <1>1 DEF Goes
<1>3. ASSUME s = <<>> PROVE f[1] = <<>>
  BY <1>1, <1>3 DEF Goes
<1>4. ASSUME s # <<>>
      PROVE  LET ch == Character(enc, s, lax)
             IN /\ From(s, 1 + ch[1]) \in Seq(Units(enc))
                /\ f[1] = <<ch[2]>> \o CharactersOf(enc, From(s, 1 + ch[1]), lax)
  <2>. DEFINE ch == Character(enc, s, lax)
              t == From(s, 1 + ch[1])
  <2>1. From(s, 1) = s /\ Len(s) \in Nat /\ 1 \in 1 .. Len(s)
    BY <1>4 DEF From
  <2>2. ch[1] \in Nat /\ ch[1] >= 1 /\ ch[1] <= Len(s)
    BY <1>4, CharacterFits, Zenon DEF Fits
  <2>3. f[1] = <<ch[2]>> \o f[1 + ch[1]]
    BY <1>1, <2>1, Zenon DEF Goes
  <2>. HIDE DEF ch
  <2>4. 1 + ch[1] \in 1 .. Len(s) + 1
    BY <2>1, <2>2
  <2>5. t \in Seq(Units(enc))
    BY <2>4, FromFrom, Zenon
  <2>6. PICK g : Goes(g, enc, t, lax) /\ CharactersOf(enc, t, lax) = g[1]
    BY <2>5, CharactersGo, Zenon
  <2>7. \A j \in 1 .. Len(t) + 1 : g[j] = f[(1 + ch[1]) + j - 1]
    <3>. DEFINE p == 1 + ch[1]
    <3>1. p \in 1 .. Len(s) + 1 /\ Goes(g, enc, From(s, p), lax)
      BY <2>4, <2>6
    <3>. HIDE DEF p
    <3>2. \A j \in 1 .. Len(From(s, p)) + 1 : g[j] = f[p + j - 1]
      BY <1>1, <3>1, GoesAlike, SMT
    <3>. QED BY <3>2 DEF p
  <2>8. g[1] = f[1 + ch[1]]
    <3>1. Len(t) \in Nat
      BY <2>5
    <3>2. 1 \in 1 .. Len(t) + 1 /\ (1 + ch[1]) + 1 - 1 = 1 + ch[1]
      BY <2>2, <3>1
    <3>. QED BY <2>7, <3>2
  <2>. QED BY <2>3, <2>5, <2>6, <2>8, Zenon DEF ch, t
<1>. QED BY <1>1, <1>2, <1>3, <1>4

-----------------------------------------------------------------------------
(* The two tables of an encoding are each other's inverse.                 *)
LEMMA Tables3 ==
  /\ \A p \in Encode3 : p[2] \in Bytes /\ p[2] \notin Holes3 /\ <<p[2], p[1]>> \in Decode3
  /\ \A q \in Decode3 : <<q[2], q[1]>> \in Encode3 /\ q[1] \in Missing3
  /\ \A p, q \in Decode3 : p[1] = q[1] => p[2] = q[2]
  /\ Holes3 \subseteq Missing3
  /\ \A b \in Missing3 : b \in Holes3 \/ \E q \in Decode3 : q[1] = b
<1>1. \A p \in Encode3 : p[2] \in Bytes /\ p[2] \notin Holes3
  BY SMTT(60) DEF Encode3, Holes3, Bytes
<1>2. \A p \in Encode3 : <<p[2], p[1]>> \in Decode3
  BY SMTT(60) DEF Encode3, Decode3
<1>3. \A q \in Decode3 : <<q[2], q[1]>> \in Encode3
  BY SMTT(60) DEF Encode3, Decode3
<1>4. \A q \in Decode3 : q[1] \in Missing3
  BY SMTT(60) DEF Missing3, Decode3
<1>5. \A p, q \in Decode3 : p[1] = q[1] => p[2] = q[2]
  BY SMTT(60) DEF Decode3
<1>6. Holes3 \subseteq Missing3
  BY SMTT(60) DEF Holes3, Missing3
<1>7. \A b \in Missing3 : b \in Holes3 \/ \E q \in Decode3 : q[1] = b
  BY SMTT(60) DEF Missing3, Holes3, Decode3
<1>. QED BY <1>1, <1>2, <1>3, <1>4, <1>5, <1>6, <1>7, Zenon

LEMMA Tables15 ==
  /\ \A p \in Encode15 : p[2] \in Bytes /\ <<p[2], p[1]>> \in Decode15
  /\ \A q \in Decode15 : <<q[2], q[1]>> \in Encode15 /\ q[1] \in Missing15
  /\ \A p, q \in Decode15 : p[1] = q[1] => p[2] = q[2]
  /\ \A b \in Missing15 : \E q \in Decode15 : q[1] = b
<1>1. \A p \in Encode15 : p[2] \in Bytes
  BY SMTT(60) DEF Encode15, Bytes
<1>2. \A p \in Encode15 : <<p[2], p[1]>> \in Decode15
  BY SMTT(60) DEF Encode15, Decode15
<1>3. \A q \in Decode15 : <<q[2], q[1]>> \in Encode15
  BY SMTT(60) DEF Encode15, Decode15
<1>4. \A q \in Decode15 : q[1] \in Missing15
  BY SMTT(60) DEF Missing15, Decode15
<1>5. \A p, q \in Decode15 : p[1] = q[1] => p[2] = q[2]
  BY SMTT(60) DEF Decode15
<1>6. \A b \in Missing15 : \E q \in Decode15 : q[1] = b
  BY SMTT(60) DEF Missing15, Decode15
<1>. QED BY <1>1, <1>2, <1>3, <1>4, <1>5, <1>6, Zenon

Middle1252 == 128 .. 159

LEMMA Tables1252 ==
  /\ \A p \in Encode1252 : /\ p[2] \in Bytes /\ p[2] \in Middle1252
                           /\ Decode1252[p[2] - 127] = p[1]
  /\ \A b \in Middle1252 : <<Decode1252[b - 127], b>> \in Encode1252
  /\ \A c \in Middle1252 \cap Nat : c \in Bytes
<1>1. \A p \in Encode1252 : p[2] \in Bytes /\ p[2] \in Middle1252
  BY SMTT(60) DEF Encode1252, Bytes, Middle1252
<1>2. \A p \in Encode1252 : Decode1252[p[2] - 127] = p[1]
  BY SMTT(60) DEF Encode1252, Decode1252
<1>3. \A b \in Middle1252 : <<Decode1252[b - 127], b>> \in Encode1252
  BY SMTT(60) DEF Encode1252, Decode1252, Middle1252
<1>4. \A c \in Middle1252 \cap Nat : c \in Bytes
  BY SMT DEF Middle1252, Bytes
<1>. QED BY <1>1, <1>2, <1>3, <1>4, Zenon

(* What a table says where it has an entry, and where it has none.         *)
Answer(y, pairs, x, else) ==
  \/ \E p \in pairs : p[1] = x /\ y = p[2]
  \/ (\A p \in pairs : p[1] # x) /\ y = else

(* Find chooses one of the entries, if there is one.                       *)
LEMMA FindIs ==
  ASSUME NEW pairs, NEW x, NEW else
  PROVE  Answer(Find(pairs, x, else), pairs, x, else)
  BY Zenon DEF Find, Answer

LEMMA FindPair ==
  ASSUME NEW pairs, \A p, q \in pairs : p[1] = q[1] => p[2] = q[2],
         NEW x, NEW y, <<x, y>> \in pairs, NEW else
  PROVE  Find(pairs, x, else) = y
<1>1. <<x, y>>[1] = x /\ <<x, y>>[2] = y
  OBVIOUS
<1>. DEFINE p == <<x, y>>
<1>2. p \in pairs /\ p[1] = x /\ p[2] = y
  BY <1>1
<1>. DEFINE z == Find(pairs, x, else)
<1>. HIDE DEF p, z
<1>3. \/ \E q \in pairs : q[1] = x /\ z = q[2]
      \/ (\A q \in pairs : q[1] # x) /\ z = else
  <2>1. Answer(Find(pairs, x, else), pairs, x, else)
    BY FindIs
  <2>. QED BY <2>1, Zenon DEF Answer, z
<1>. QED BY <1>2, <1>3, Zenon DEF z

(* A byte for c is less than NoByte, and what it decodes to is c.          *)
IsByteOf(b, c, enc) == b \in Bytes /\ DecodeChar(enc, b) = c

LEMMA BytesBelow ==
  /\ \A b \in Bytes : b < NoByte /\ b < 256 /\ b \in Nat
  /\ \A b \in Nat : b < 256 => b \in Bytes
  /\ \A b \in 0 .. 255 : b \in Bytes
  /\ \A b \in Bytes : b \in 0 .. 255
  /\ ~(NoByte < 256) /\ NoByte \in Nat
  BY SMT DEF Bytes, NoByte

(* EncodeChar gives a byte that decodes to the code point, if it gives one *)
(* ...                                                                     *)
LEMMA EncodeRight ==
  ASSUME NEW enc \in Charsets, NEW c \in Nat, EncodeChar(enc, c) < 256
  PROVE  IsByteOf(EncodeChar(enc, c), c, enc)
<1>. DEFINE b == EncodeChar(enc, c)
<1>1. b < 256
  OBVIOUS
<1>2. CASE enc = "ascii"
  <2>1. b = IF c < 128 THEN c ELSE NoByte
    BY <1>2, EncodeCharIs
  <2>. HIDE DEF b
  <2>2. b = c /\ c < 128
    BY <1>1, <2>1, SMT DEF NoByte
  <2>3. DecodeChar(enc, b) = b
    BY <1>2, <2>2, DecodeCharIs
  <2>4. b \in Bytes
    BY <2>2, SMT DEF Bytes
  <2>. QED BY <2>2, <2>3, <2>4, Zenon DEF IsByteOf, b
<1>3. CASE enc = "iso_8859_1"
  <2>1. b = IF c < 256 THEN c ELSE NoByte
    BY <1>3, EncodeCharIs
  <2>. HIDE DEF b
  <2>2. b = c /\ c < 256
    BY <1>1, <2>1, SMT DEF NoByte
  <2>3. DecodeChar(enc, b) = b
    BY <1>3, DecodeCharIs
  <2>4. b \in Bytes
    BY <2>2, SMT DEF Bytes
  <2>. QED BY <2>2, <2>3, <2>4, Zenon DEF IsByteOf, b
<1>4. CASE enc = "iso_8859_3"
  <2>. DEFINE e == IF c \in (0 .. 255) \ Missing3 THEN c ELSE NoByte
  <2>1. b = Find(Encode3, c, e)
    BY <1>4, EncodeCharIs
  <2>2. DecodeChar(enc, b) = IF b \in Holes3 THEN Invalid ELSE Find(Decode3, b, b)
    BY <1>4, DecodeCharIs
  <2>3. e < 256 => c \notin Missing3 /\ c \in Bytes /\ e = c
    BY SMT DEF Bytes, NoByte
  <2>. HIDE DEF b, e
  <2>4. CASE \E p \in Encode3 : p[1] = c /\ b = p[2]
    <3>1. b \in Bytes /\ b \notin Holes3 /\ <<b, c>> \in Decode3
      BY <2>4, Tables3, Zenon
    <3>2. Find(Decode3, b, b) = c
      BY <3>1, Tables3, FindPair, Zenon
    <3>. QED BY <2>2, <3>1, <3>2, Zenon DEF IsByteOf, b
  <2>5. CASE b = e
    <3>1. c \notin Missing3 /\ c \in Bytes /\ b = c
      BY <1>1, <2>3, <2>5
    <3>2. b \notin Holes3 /\ \A q \in Decode3 : q[1] # b
      BY <3>1, Tables3, Zenon
    <3>3. Find(Decode3, b, b) = b
      BY <3>2, NotFound, Zenon
    <3>. QED BY <2>2, <3>1, <3>2, <3>3, Zenon DEF IsByteOf, b
  <2>6. \/ \E p \in Encode3 : p[1] = c /\ b = p[2]
        \/ (\A p \in Encode3 : p[1] # c) /\ b = e
    <3>1. Answer(Find(Encode3, c, e), Encode3, c, e)
      BY FindIs
    <3>. QED BY <2>1, <3>1, Zenon DEF Answer
  <2>. QED BY <2>4, <2>5, <2>6, Zenon
<1>5. CASE enc = "iso_8859_15"
  <2>. DEFINE e == IF c \in (0 .. 255) \ Missing15 THEN c ELSE NoByte
  <2>1. b = Find(Encode15, c, e)
    BY <1>5, EncodeCharIs
  <2>2. DecodeChar(enc, b) = Find(Decode15, b, b)
    BY <1>5, DecodeCharIs
  <2>3. e < 256 => c \notin Missing15 /\ c \in Bytes /\ e = c
    BY SMT DEF Bytes, NoByte
  <2>. HIDE DEF b, e
  <2>4. CASE \E p \in Encode15 : p[1] = c /\ b = p[2]
    <3>1. b \in Bytes /\ <<b, c>> \in Decode15
      BY <2>4, Tables15, Zenon
    <3>2. Find(Decode15, b, b) = c
      BY <3>1, Tables15, FindPair, Zenon
    <3>. QED BY <2>2, <3>1, <3>2, Zenon DEF IsByteOf, b
  <2>5. CASE b = e
    <3>1. c \notin Missing15 /\ c \in Bytes /\ b = c
      BY <1>1, <2>3, <2>5
    <3>2. \A q \in Decode15 : q[1] # b
      BY <3>1, Tables15, Zenon
    <3>3. Find(Decode15, b, b) = b
      BY <3>2, NotFound, Zenon
    <3>. QED BY <2>2, <3>1, <3>3, Zenon DEF IsByteOf, b
  <2>6. \/ \E p \in Encode15 : p[1] = c /\ b = p[2]
        \/ (\A p \in Encode15 : p[1] # c) /\ b = e
    <3>1. Answer(Find(Encode15, c, e), Encode15, c, e)
      BY FindIs
    <3>. QED BY <2>1, <3>1, Zenon DEF Answer
  <2>. QED BY <2>4, <2>5, <2>6, Zenon
<1>6. CASE enc = "windows_1252"
  <2>. DEFINE e == IF c \in 0 .. 127 \cup 160 .. 255 THEN c ELSE NoByte
  <2>1. b = Find(Encode1252, c, e)
    BY <1>6, EncodeCharIs
  <2>2. DecodeChar(enc, b) = IF b \in Middle1252 THEN Decode1252[b - 127] ELSE b
    BY <1>6, DecodeCharIs DEF Middle1252
  <2>3. e < 256 => c \notin Middle1252 /\ c \in Bytes /\ e = c
    BY SMT DEF Bytes, NoByte, Middle1252
  <2>. HIDE DEF b, e
  <2>4. CASE \E p \in Encode1252 : p[1] = c /\ b = p[2]
    BY <2>2, <2>4, Tables1252, Zenon DEF IsByteOf, b
  <2>5. CASE b = e
    <3>1. c \notin Middle1252 /\ c \in Bytes /\ b = c
      BY <1>1, <2>3, <2>5
    <3>. QED BY <2>2, <3>1, Zenon DEF IsByteOf, b
  <2>6. \/ \E p \in Encode1252 : p[1] = c /\ b = p[2]
        \/ (\A p \in Encode1252 : p[1] # c) /\ b = e
    <3>1. Answer(Find(Encode1252, c, e), Encode1252, c, e)
      BY FindIs
    <3>. QED BY <2>1, <3>1, Zenon DEF Answer
  <2>. QED BY <2>4, <2>5, <2>6, Zenon
<1>7. enc \in {"ascii", "iso_8859_1", "iso_8859_3", "iso_8859_15", "windows_1252"}
  BY DEF Charsets
<1>. QED BY <1>2, <1>3, <1>4, <1>5, <1>6, <1>7

(* ... and it gives one for whatever a byte decodes to.                    *)
LEMMA DecodedHasByte ==
  ASSUME NEW enc \in Charsets, NEW x \in Bytes, NEW c, DecodeChar(enc, x) = c, c # Invalid
  PROVE  EncodeChar(enc, c) < 256
<1>. DEFINE b == EncodeChar(enc, c)
<1>1. x < 256 /\ x \in Nat /\ x \in 0 .. 255
  BY BytesBelow
<1>2. CASE enc = "ascii"
  <2>1. b = IF c < 128 THEN c ELSE NoByte
    BY <1>2, EncodeCharIs
  <2>2. c = x /\ x < 128
    BY <1>2, DecodeCharIs
  <2>. QED BY <1>1, <2>1, <2>2, SMT
<1>3. CASE enc = "iso_8859_1"
  <2>1. b = IF c < 256 THEN c ELSE NoByte
    BY <1>3, EncodeCharIs
  <2>2. c = x
    BY <1>3, DecodeCharIs
  <2>. QED BY <1>1, <2>1, <2>2, SMT
<1>4. CASE enc = "iso_8859_3"
  <2>. DEFINE e == IF c \in (0 .. 255) \ Missing3 THEN c ELSE NoByte
  <2>1. b = Find(Encode3, c, e)
    BY <1>4, EncodeCharIs
  <2>2. x \notin Holes3 /\ c = Find(Decode3, x, x)
    BY <1>4, DecodeCharIs
  <2>3. c \in 0 .. 255 /\ c \notin Missing3 => e = c
    BY Zenon
  <2>. HIDE DEF b, e
  <2>4. CASE \E p \in Encode3 : p[1] = c /\ b = p[2]
    <3>1. b \in Bytes
      BY <2>4, Tables3, Zenon
    <3>. QED BY <3>1, BytesBelow DEF b
  <2>5. CASE (\A p \in Encode3 : p[1] # c) /\ b = e
    <3>1. ASSUME NEW q \in Decode3, q[1] = x, c = q[2] PROVE FALSE
      <4>1. <<c, x>> \in Encode3
        BY <3>1, Tables3, Zenon
      <4>2. <<c, x>>[1] = c
        OBVIOUS
      <4>. QED BY <2>5, <4>1, <4>2, Zenon
    <3>2. c = x /\ \A q \in Decode3 : q[1] # x
      <4>1. \/ \E q \in Decode3 : q[1] = x /\ c = q[2]
            \/ (\A q \in Decode3 : q[1] # x) /\ c = x
        <5>1. Answer(Find(Decode3, x, x), Decode3, x, x)
          BY FindIs
        <5>. QED BY <2>2, <5>1, Zenon DEF Answer
      <4>. QED BY <3>1, <4>1, Zenon
    <3>3. c \notin Missing3
      BY <2>2, <3>2, Tables3, Zenon
    <3>4. b = x
      BY <1>1, <2>3, <2>5, <3>2, <3>3, Zenon
    <3>. QED BY <1>1, <3>4 DEF b
  <2>6. \/ \E p \in Encode3 : p[1] = c /\ b = p[2]
        \/ (\A p \in Encode3 : p[1] # c) /\ b = e
    <3>1. Answer(Find(Encode3, c, e), Encode3, c, e)
      BY FindIs
    <3>. QED BY <2>1, <3>1, Zenon DEF Answer
  <2>. QED BY <2>4, <2>5, <2>6, Zenon
<1>5. CASE enc = "iso_8859_15"
  <2>. DEFINE e == IF c \in (0 .. 255) \ Missing15 THEN c ELSE NoByte
  <2>1. b = Find(Encode15, c, e)
    BY <1>5, EncodeCharIs
  <2>2. c = Find(Decode15, x, x)
    BY <1>5, DecodeCharIs
  <2>3. c \in 0 .. 255 /\ c \notin Missing15 => e = c
    BY Zenon
  <2>. HIDE DEF b, e
  <2>4. CASE \E p \in Encode15 : p[1] = c /\ b = p[2]
    <3>1. b \in Bytes
      BY <2>4, Tables15, Zenon
    <3>. QED BY <3>1, BytesBelow DEF b
  <2>5. CASE (\A p \in Encode15 : p[1] # c) /\ b = e
    <3>1. ASSUME NEW q \in Decode15, q[1] = x, c = q[2] PROVE FALSE
      <4>1. <<c, x>> \in Encode15
        BY <3>1, Tables15, Zenon
      <4>2. <<c, x>>[1] = c
        OBVIOUS
      <4>. QED BY <2>5, <4>1, <4>2, Zenon
    <3>2. c = x /\ \A q \in Decode15 : q[1] # x
      <4>1. \/ \E q \in Decode15 : q[1] = x /\ c = q[2]
            \/ (\A q \in Decode15 : q[1] # x) /\ c = x
        <5>1. Answer(Find(Decode15, x, x), Decode15, x, x)
          BY FindIs
        <5>. QED BY <2>2, <5>1, Zenon DEF Answer
      <4>. QED BY <3>1, <4>1, Zenon
    <3>3. c \notin Missing15
      BY <3>2, Tables15, Zenon
    <3>4. b = x
      BY <1>1, <2>3, <2>5, <3>2, <3>3, Zenon
    <3>. QED BY <1>1, <3>4 DEF b
  <2>6. \/ \E p \in Encode15 : p[1] = c /\ b = p[2]
        \/ (\A p \in Encode15 : p[1] # c) /\ b = e
    <3>1. Answer(Find(Encode15, c, e), Encode15, c, e)
      BY FindIs
    <3>. QED BY <2>1, <3>1, Zenon DEF Answer
  <2>. QED BY <2>4, <2>5, <2>6, Zenon
<1>6. CASE enc = "windows_1252"
  <2>. DEFINE e == IF c \in 0 .. 127 \cup 160 .. 255 THEN c ELSE NoByte
  <2>1. b = Find(Encode1252, c, e)
    BY <1>6, EncodeCharIs
  <2>2. c = IF x \in Middle1252 THEN Decode1252[x - 127] ELSE x
    BY <1>6, DecodeCharIs DEF Middle1252
  <2>3. x \notin Middle1252 /\ c = x => e = x
    BY <1>1, SMT DEF Middle1252
  <2>. HIDE DEF b, e
  <2>4. CASE \E p \in Encode1252 : p[1] = c /\ b = p[2]
    <3>1. b \in Bytes
      BY <2>4, Tables1252, Zenon
    <3>. QED BY <3>1, BytesBelow DEF b
  <2>5. CASE (\A p \in Encode1252 : p[1] # c) /\ b = e
    <3>1. x \notin Middle1252
      <4>1. ASSUME x \in Middle1252 PROVE FALSE
        <5>1. <<c, x>> \in Encode1252
          BY <2>2, <4>1, Tables1252, Zenon
        <5>2. <<c, x>>[1] = c
          OBVIOUS
        <5>. QED BY <2>5, <5>1, <5>2, Zenon
      <4>. QED BY <4>1
    <3>2. b = x
      BY <2>2, <2>3, <2>5, <3>1, Zenon
    <3>. QED BY <1>1, <3>2 DEF b
  <2>6. \/ \E p \in Encode1252 : p[1] = c /\ b = p[2]
        \/ (\A p \in Encode1252 : p[1] # c) /\ b = e
    <3>1. Answer(Find(Encode1252, c, e), Encode1252, c, e)
      BY FindIs
    <3>. QED BY <2>1, <3>1, Zenon DEF Answer
  <2>. QED BY <2>4, <2>5, <2>6, Zenon
<1>7. enc \in {"ascii", "iso_8859_1", "iso_8859_3", "iso_8859_15", "windows_1252"}
  BY DEF Charsets
<1>. QED BY <1>2, <1>3, <1>4, <1>5, <1>6, <1>7

(* An encoding has a character when EncodeChar gives a byte.               *)
LEMMA HasIs ==
  ASSUME NEW to \in Charsets, NEW c \in Points
  PROVE  HasCharacter(to, c) <=> EncodeChar(to, c) < 256
<1>1. c \in Nat /\ c # Invalid
  BY PointsAreNat
<1>2. HasCharacter(to, c) <=> \E b \in Bytes : DecodeChar(to, b) = c
  BY Zenon DEF HasCharacter, Bytes
<1>3. ASSUME NEW b \in Bytes, DecodeChar(to, b) = c PROVE EncodeChar(to, c) < 256
  BY <1>1, <1>3, DecodedHasByte, Zenon
<1>4. ASSUME EncodeChar(to, c) < 256
      PROVE  EncodeChar(to, c) \in Bytes /\ DecodeChar(to, EncodeChar(to, c)) = c
  BY <1>1, <1>4, EncodeRight, Zenon DEF IsByteOf
<1>. QED BY <1>2, <1>3, <1>4, Zenon

LEMMA HasOther == \A to \in {"utf8", "utf16", "utf32"} : to \notin Charsets /\ \A c : HasCharacter(to, c)
<1>1. \A to \in {"utf8", "utf16", "utf32"} : to \notin Charsets
  BY DEF Charsets
<1>. QED BY <1>1, Zenon DEF HasCharacter

(* The replacement in a single-byte encoding.                              *)
QuestionMark == 63

(* Every single-byte encoding has the question mark, as itself.            *)
LEMMA QuestionIs ==
  /\ QuestionMark \in Points /\ \A lax : Clean(QuestionMark, lax)
  /\ \A to \in Charsets : EncodeChar(to, QuestionMark) = QuestionMark /\ QuestionMark < 256
<1>1. QuestionMark \in Low9000 /\ QuestionMark < 256 /\ QuestionMark \in Nat
  BY SMT DEF QuestionMark, Low9000
<1>2. QuestionMark \in Points /\ \A lax : Clean(QuestionMark, lax)
  BY <1>1, LowLegal DEF Clean
<1>3. ASSUME NEW to \in Charsets PROVE EncodeChar(to, QuestionMark) = QuestionMark
  <2>1. \A p \in Encode3 : p[1] # QuestionMark
    BY SMT DEF Encode3, QuestionMark
  <2>2. \A p \in Encode15 : p[1] # QuestionMark
    BY SMT DEF Encode15, QuestionMark
  <2>3. \A p \in Encode1252 : p[1] # QuestionMark
    BY SMT DEF Encode1252, QuestionMark
  <2>4. /\ QuestionMark \in (0 .. 255) \ Missing3 /\ QuestionMark \in (0 .. 255) \ Missing15
        /\ QuestionMark \in 0 .. 127 \cup 160 .. 255 /\ QuestionMark < 128
    BY SMT DEF QuestionMark, Missing3, Missing15
  <2>5. CASE to = "ascii"
    BY <2>4, <2>5, EncodeCharIs, Zenon
  <2>6. CASE to = "iso_8859_1"
    BY <1>1, <2>6, EncodeCharIs, Zenon
  <2>7. CASE to = "iso_8859_3"
    <3>1. \A e : Find(Encode3, QuestionMark, e) = e
      BY <2>1, NotFound
    <3>. QED BY <2>4, <2>7, <3>1, EncodeCharIs, Zenon
  <2>8. CASE to = "iso_8859_15"
    <3>1. \A e : Find(Encode15, QuestionMark, e) = e
      BY <2>2, NotFound
    <3>. QED BY <2>4, <2>8, <3>1, EncodeCharIs, Zenon
  <2>9. CASE to = "windows_1252"
    <3>1. \A e : Find(Encode1252, QuestionMark, e) = e
      BY <2>3, NotFound
    <3>. QED BY <2>4, <2>9, <3>1, EncodeCharIs, Zenon
  <2>10. to \in {"ascii", "iso_8859_1", "iso_8859_3", "iso_8859_15", "windows_1252"}
    BY DEF Charsets
  <2>. QED BY <2>5, <2>6, <2>7, <2>8, <2>9, <2>10
<1>. QED BY <1>1, <1>2, <1>3, Zenon

LEMMA EncodedNotEmpty ==
  \A c \in Nat : Encode8(c) # <<>> /\ Encode16(c) # <<>>
<1>1. ASSUME NEW c \in Nat PROVE Encode8(c) # <<>>
  <2>1. Len(Encode8(c)) = Size8(c) /\ Size8(c) >= 1
    BY Encode8Length, SMT DEF Size8
  <2>. QED BY <2>1
<1>2. ASSUME NEW c \in Nat PROVE Encode16(c) # <<>>
  BY SMT DEF Encode16
<1>. QED BY <1>1, <1>2

(* What is written is the encoding's own for what the character becomes.   *)
LEMMA ErrorIs ==
  ASSUME NEW to \in Encodings, NEW c \in Points \cup {Invalid}
  PROVE  IsError(to, c) <=> c = Invalid \/ ~HasCharacter(to, c)
<1>1. CASE c = Invalid
  BY <1>1 DEF IsError
<1>2. CASE c \in Points /\ to \in {"utf8", "utf16", "utf32"}
  <2>1. c \in Nat /\ c # Invalid
    BY <1>2, PointsAreNat
  <2>2. <<c>> # <<>>
    OBVIOUS
  <2>3. Encoded(to, c) # <<>>
    BY <1>2, <2>1, <2>2, EncodedIs, EncodedNotEmpty
  <2>. QED BY <1>2, <2>1, <2>3, HasOther, Zenon DEF IsError
<1>3. CASE c \in Points /\ to \in Charsets
  <2>1. c # Invalid
    BY <1>3, PointsAreNat
  <2>2. Encoded(to, c) = EncodeByte(to, c)
    BY <1>3, EncodedIs
  <2>. DEFINE b == EncodeChar(to, c)
  <2>3. EncodeByte(to, c) = IF b < 256 THEN <<b>> ELSE <<>>
    BY SMT DEF EncodeByte
  <2>. HIDE DEF b
  <2>4. EncodeByte(to, c) # <<>> <=> b < 256
    BY <2>3
  <2>. QED BY <1>3, <2>1, <2>2, <2>4, HasIs, Zenon DEF IsError, b
<1>. QED BY <1>1, <1>2, <1>3 DEF Encodings

(* What a character becomes is one that the encoding has.                  *)
LEMMA BecomesIs ==
  ASSUME NEW to \in Encodings, NEW lax, NEW c, Legal(c, lax)
  PROVE  Clean(Becomes(to, c), lax) /\ HasCharacter(to, Becomes(to, c))
<1>. DEFINE r == IF to \in Charsets THEN QuestionMark ELSE Replacement
<1>1. Becomes(to, c) = IF c # Invalid /\ HasCharacter(to, c) THEN c ELSE r
  BY Zenon DEF Becomes, QuestionMark
<1>2. to \in Charsets \/ to \in {"utf8", "utf16", "utf32"}
  BY DEF Encodings
<1>3. Clean(Replacement, lax)
  BY SMT, ReplacementIs DEF Clean, Replacement, IsSurrogate
<1>4. Clean(r, lax) /\ HasCharacter(to, r)
  <2>1. CASE to \in Charsets
    BY <2>1, QuestionIs, HasIs
  <2>2. CASE to \in {"utf8", "utf16", "utf32"}
    BY <1>3, <2>2, HasOther, Zenon
  <2>. QED BY <1>2, <2>1, <2>2
<1>. HIDE DEF r
<1>5. c # Invalid => Clean(c, lax)
  BY Zenon DEF Legal
<1>. QED BY <1>1, <1>4, <1>5, Zenon

(* What is written is the encoding's own for that.                         *)
LEMMA WrittenIs ==
  ASSUME NEW to \in Encodings, NEW c \in Points \cup {Invalid}
  PROVE  Written(to, c) = Encoded(to, Becomes(to, c))
<1>1. IsError(to, c) <=> c = Invalid \/ ~HasCharacter(to, c)
  BY ErrorIs
<1>2. CASE ~IsError(to, c)
  <2>1. Becomes(to, c) = c
    BY <1>1, <1>2, Zenon DEF Becomes
  <2>. QED BY <1>2, <2>1, Zenon DEF Written
<1>3. CASE IsError(to, c)
  <2>1. Becomes(to, c) = IF to \in Charsets THEN QuestionMark ELSE Replacement
    BY <1>1, <1>3, Zenon DEF Becomes, QuestionMark
  <2>2. Written(to, c) = Replaced(to)
    BY <1>3, Zenon DEF Written
  <2>3. CASE to \in Charsets
    <3>1. Replaced(to) = <<QuestionMark>>
      BY <2>3, ReplacedIs DEF QuestionMark
    <3>2. EncodeByte(to, QuestionMark) = <<QuestionMark>>
      BY <2>3, QuestionIs, Zenon DEF EncodeByte
    <3>3. Encoded(to, QuestionMark) = EncodeByte(to, QuestionMark)
      BY <2>3, EncodedIs
    <3>. QED BY <2>1, <2>2, <2>3, <3>1, <3>2, <3>3, Zenon
  <2>4. CASE to \in {"utf8", "utf16", "utf32"}
    <3>1. to \notin Charsets
      BY <2>4, HasOther, Zenon
    <3>2. Replaced(to) = Encoded(to, Replacement)
      <4>1. Encode16(Replacement) = <<Replacement>>
        BY SMT DEF Encode16, Replacement
      <4>. QED BY <2>4, <4>1, ReplacedIs, EncodedIs
    <3>. QED BY <2>1, <2>2, <3>1, <3>2, Zenon
  <2>5. to \in Charsets \/ to \in {"utf8", "utf16", "utf32"}
    BY DEF Encodings
  <2>. QED BY <2>3, <2>4, <2>5
<1>. QED BY <1>2, <1>3

-----------------------------------------------------------------------------
(* What the encoding writes for a character is read as that character.     *)
LEMMA Whole8 ==
  ASSUME NEW s \in Seq(Bytes), s # <<>>, NEW lax \in BOOLEAN, NEW n \in 1 .. 4, n <= Len(s),
         n = 1 => s[1] < 128,
         n = 2 => Second(s[1], s[2], lax) /\ s[1] < 224,
         n = 3 => Second(s[1], s[2], lax) /\ 224 <= s[1] /\ s[1] < 240 /\ Trailing(s[3]),
         n = 4 => /\ Second(s[1], s[2], lax) /\ 240 <= s[1]
                  /\ Trailing(s[3]) /\ Trailing(s[4])
  PROVE  Character8(s, lax) = <<n, Number8(s, n)>>
<1>. DEFINE T == {1} \cup {k \in 1 .. 4 : Agreed(s, k, lax)}
            a == s[1]
<1>1. Character8(s, lax)
        = <<Max(T), IF AgreedWhole(s, Max(T), lax) THEN Number8(s, Max(T)) ELSE Invalid>>
  BY Zenon DEF Character8
<1>2. a \in Nat /\ Len(s) \in Nat
  <2>1. a \in Bytes /\ Len(s) \in Nat
    OBVIOUS
  <2>2. Bytes \subseteq Nat
    BY SMT DEF Bytes
  <2>. QED BY <2>1, <2>2, Zenon
<1>3. \A y : Second(a, y, lax) => 194 <= a
  BY DEF Second
<1>4. n = 1 \/ n = 2 \/ n = 3 \/ n = 4
  OBVIOUS
<1>5. AgreedWhole(s, n, lax)
  <2>. HIDE DEF a
  <2>1. n = 1 => AgreedWhole(s, n, lax)
    BY RowsAre
  <2>2. n = 2 => AgreedWhole(s, n, lax)
    BY RowsAre
  <2>3. n = 3 => AgreedWhole(s, n, lax)
    BY RowsAre
  <2>4. n = 4 => AgreedWhole(s, n, lax)
    BY RowsAre
  <2>. QED BY <1>4, <2>1, <2>2, <2>3, <2>4
<1>6. n \in T
  <2>1. CASE n = 1
    BY <2>1
  <2>2. CASE n # 1
    <3>1. Agreed(s, n, lax)
      <4>1. n = 2 => Agreed(s, n, lax)
        BY RowsAre
      <4>2. n = 3 => Agreed(s, n, lax)
        BY RowsAre
      <4>3. n = 4 => Agreed(s, n, lax)
        BY RowsAre
      <4>. QED BY <1>4, <2>2, <4>1, <4>2, <4>3
    <3>. QED BY <3>1
  <2>. QED BY <2>1, <2>2
<1>7. \A y \in T : y <= n
  <2>1. Agreed(s, 2, lax) => Second(a, s[2], lax)
    BY RowsAre
  <2>2. Agreed(s, 3, lax) => Second(a, s[2], lax) /\ 224 <= a
    BY RowsAre
  <2>3. Agreed(s, 4, lax) => Second(a, s[2], lax) /\ 240 <= a
    BY RowsAre
  <2>4. /\ n = 1 => a < 128
        /\ n = 2 => a < 224
        /\ n = 3 => a < 240
    OBVIOUS
  <2>5. \A y \in T : y = 1 \/ (y = 2 /\ Agreed(s, 2, lax)) \/ (y = 3 /\ Agreed(s, 3, lax))
                     \/ (y = 4 /\ Agreed(s, 4, lax))
    OBVIOUS
  <2>. HIDE DEF T, a
  <2>. QED BY <1>2, <1>3, <1>4, <2>1, <2>2, <2>3, <2>4, <2>5
<1>8. Max(T) \in T /\ \A y \in T : Max(T) >= y
  <2>1. T \subseteq 1 .. 4 /\ 1 \in T
    OBVIOUS
  <2>. HIDE DEF T
  <2>. QED BY <2>1, MaxOfFour
<1>9. Max(T) = n
  <2>1. T \subseteq 1 .. 4
    OBVIOUS
  <2>. HIDE DEF T
  <2>2. Max(T) >= n /\ Max(T) <= n /\ Max(T) \in 1 .. 4
    BY <1>6, <1>7, <1>8, <2>1
  <2>. QED BY <2>2
<1>. HIDE DEF T
<1>. QED BY <1>1, <1>5, <1>9, Zenon

(* The units of a number in UTF-8.                                         *)
LEMMA Parts2 ==
  ASSUME NEW x \in Nat, x >= 128, x < 2048, NEW lax
  PROVE  LET a == 192 + x \div 64
             b == 128 + (x % 64)
         IN /\ a \in Nat /\ b \in Nat /\ a < 224 /\ a <= 255 /\ b <= 255 /\ Second(a, b, lax)
            /\ (a - 192) * 64 + b - 128 = x
<1>. DEFINE p == x \div 64
            r == x % 64
<1>1. p \in Nat /\ r \in Nat /\ r < 64 /\ x = 64 * p + r
  OBVIOUS
<1>. HIDE DEF p, r
<1>. QED BY <1>1 DEF Second, p, r

LEMMA Parts3 ==
  ASSUME NEW x \in Nat, x >= 2048, x < 65536, NEW lax \in BOOLEAN,
         x < 55296 \/ 57344 <= x \/ lax
  PROVE  LET a == 224 + x \div 4096
             b == 128 + ((x \div 64) % 64)
             c == 128 + (x % 64)
         IN /\ a \in Nat /\ b \in Nat /\ c \in Nat /\ 224 <= a /\ a < 240
            /\ b <= 255 /\ c <= 255 /\ Second(a, b, lax) /\ Trailing(c)
            /\ (a - 224) * 4096 + (b - 128) * 64 + c - 128 = x
<1>. DEFINE y == x \div 64
            p == y \div 64
            q == y % 64
            r == x % 64
<1>1. y \in Nat /\ r \in Nat /\ r < 64 /\ x = 64 * y + r
  OBVIOUS
<1>2. p \in Nat /\ q \in Nat /\ q < 64 /\ y = 64 * p + q
  BY <1>1
<1>3. x \div 4096 = p
  <2>. HIDE DEF y, p, q, r
  <2>1. x = 4096 * p + (64 * q + r) /\ 64 * q + r < 4096 /\ 64 * q + r >= 0
    BY <1>1, <1>2
  <2>. QED BY <1>1, <1>2, <2>1
<1>. DEFINE a == 224 + p
            b == 128 + q
            c == 128 + r
<1>4. p < 16 /\ x = 4096 * p + 64 * q + r
  <2>. HIDE DEF y, p, q, r
  <2>. QED BY <1>1, <1>2
<1>. HIDE DEF y, p, q, r
<1>5. Second(a, b, lax)
  <2>1. p = 0 => 32 <= q
    BY <1>1, <1>2, <1>4
  <2>2. p = 13 => lax \/ q <= 31
    BY <1>1, <1>2, <1>4
  <2>. QED BY <1>1, <1>2, <1>4, <2>1, <2>2 DEF Second
<1>6. /\ a \in Nat /\ b \in Nat /\ c \in Nat /\ 224 <= a /\ a < 240
      /\ b <= 255 /\ c <= 255 /\ Second(a, b, lax) /\ Trailing(c)
      /\ (a - 224) * 4096 + (b - 128) * 64 + c - 128 = x
  BY <1>1, <1>2, <1>4, <1>5 DEF Trailing
<1>. QED BY <1>3, <1>6 DEF q, r, y

LEMMA Parts4 ==
  ASSUME NEW x \in Nat, x >= 65536, x <= 1114111, NEW lax
  PROVE  LET a == 240 + x \div 262144
             b == 128 + ((x \div 4096) % 64)
             c == 128 + ((x \div 64) % 64)
             d == 128 + (x % 64)
         IN /\ a \in Nat /\ b \in Nat /\ c \in Nat /\ d \in Nat /\ 240 <= a /\ a <= 255
            /\ b <= 255 /\ c <= 255 /\ d <= 255
            /\ Second(a, b, lax) /\ Trailing(c) /\ Trailing(d)
            /\ (a - 240) * 262144 + (b - 128) * 4096 + (c - 128) * 64 + d - 128 = x
<1>. DEFINE y == x \div 64
            z == y \div 64
            o == z \div 64
            p == z % 64
            q == y % 64
            r == x % 64
<1>1. y \in Nat /\ r \in Nat /\ r < 64 /\ x = 64 * y + r
  OBVIOUS
<1>2. z \in Nat /\ q \in Nat /\ q < 64 /\ y = 64 * z + q
  BY <1>1
<1>3. o \in Nat /\ p \in Nat /\ p < 64 /\ z = 64 * o + p
  BY <1>2
<1>4. x \div 4096 = z
  <2>. HIDE DEF y, z, o, p, q, r
  <2>1. x = 4096 * z + (64 * q + r) /\ 64 * q + r < 4096 /\ 64 * q + r >= 0
    BY <1>1, <1>2
  <2>. QED BY <1>1, <1>2, <2>1
<1>5. x \div 262144 = o
  <2>. HIDE DEF y, z, o, p, q, r
  <2>1. /\ x = 262144 * o + (4096 * p + 64 * q + r)
        /\ 4096 * p + 64 * q + r < 262144 /\ 4096 * p + 64 * q + r >= 0
    BY <1>1, <1>2, <1>3
  <2>. QED BY <1>1, <1>2, <1>3, <2>1
<1>6. x = 262144 * o + 4096 * p + 64 * q + r
  <2>. HIDE DEF y, z, o, p, q, r
  <2>. QED BY <1>1, <1>2, <1>3
<1>. DEFINE a == 240 + o
            b == 128 + p
            c == 128 + q
            d == 128 + r
<1>7. b = 128 + ((x \div 4096) % 64)
  <2>. HIDE DEF y, z
  <2>. QED BY <1>4, SMT
<1>. HIDE DEF y, z, o, p, q, r
<1>8. Second(a, b, lax)
  <2>1. o <= 4
    BY <1>1, <1>2, <1>3, <1>6
  <2>2. o = 0 => 16 <= p
    BY <1>1, <1>2, <1>3, <1>6
  <2>3. o = 4 => p <= 15
    BY <1>1, <1>2, <1>3, <1>6
  <2>. QED BY <1>3, <2>1, <2>2, <2>3 DEF Second
<1>9. /\ a \in Nat /\ b \in Nat /\ c \in Nat /\ d \in Nat /\ 240 <= a
      /\ b <= 255 /\ c <= 255 /\ d <= 255 /\ Trailing(c) /\ Trailing(d)
  BY <1>1, <1>2, <1>3 DEF Trailing
<1>10. (a - 240) * 262144 + (b - 128) * 4096 + (c - 128) * 64 + d - 128 = x
  BY <1>1, <1>2, <1>3, <1>6
<1>11. a <= 255
  BY <1>8, <1>9 DEF Second
<1>12. a = 240 + x \div 262144
  BY <1>5, SMT
<1>13. c = 128 + ((x \div 64) % 64)
  BY SMT DEF q, y
<1>14. d = 128 + (x % 64)
  BY SMT DEF r
<1>. HIDE DEF a, b, c, d
<1>. QED BY ONLY <1>7, <1>8, <1>9, <1>10, <1>11, <1>12, <1>13, <1>14, SMT

(* The first elements of two sequences joined.                             *)
LEMMA JoinFront ==
  ASSUME NEW A, NEW w \in Seq(A), w # <<>>, NEW t \in Seq(A)
  PROVE  /\ w \o t \in Seq(A) /\ w \o t # <<>> /\ Len(w \o t) >= Len(w)
         /\ \A i \in 1 .. Len(w) : (w \o t)[i] = w[i]
         /\ From(w \o t, 1 + Len(w)) = t
         /\ t # <<>> => Len(w \o t) > Len(w) /\ (w \o t)[Len(w) + 1] = t[1]
         /\ t = <<>> => Len(w \o t) = Len(w)
<1>. DEFINE s == w \o t
            u == From(s, 1 + Len(w))
<1>1. /\ s \in Seq(A) /\ Len(s) = Len(w) + Len(t) /\ Len(w) \in Nat /\ Len(t) \in Nat /\ Len(w) >= 1
      /\ \A i \in 1 .. Len(w) : s[i] = w[i]
      /\ \A i \in 1 .. Len(t) : s[Len(w) + i] = t[i]
  OBVIOUS
<1>. HIDE DEF s
<1>2. u \in Seq(A) /\ Len(u) = Len(t) /\ \A i \in 1 .. Len(u) : u[i] = s[Len(w) + i]
  BY <1>1 DEF From
<1>. HIDE DEF u
<1>3. u = t
  <2>1. \A i \in 1 .. Len(u) : u[i] = t[i]
    BY <1>1, <1>2
  <2>. QED BY <1>2, <2>1, SeqEqual
<1>4. t # <<>> => Len(t) >= 1
  OBVIOUS
<1>5. s # <<>> /\ Len(s) >= Len(w)
  BY <1>1
<1>6. t # <<>> => Len(s) > Len(w) /\ s[Len(w) + 1] = t[1]
  BY <1>1, <1>4
<1>7. t = <<>> => Len(s) = Len(w)
  BY <1>1
<1>. QED BY <1>1, <1>3, <1>5, <1>6, <1>7, Zenon DEF s, u

(* What w followed by t begins with, for a reader of an encoding.          *)
Opens(enc, w, t, x, lax) ==
  /\ w \in Seq(Units(enc)) /\ w # <<>>
  /\ Character(enc, w \o t, lax) = <<Len(w), x>>

LEMMA CleanIs ==
  ASSUME NEW x, NEW lax \in BOOLEAN, Clean(x, lax)
  PROVE  x \in Nat /\ x <= 1114111 /\ (x < 55296 \/ 57344 <= x \/ lax)
<1>1. x \in Nat /\ x <= 1114111
  BY SMT DEF Clean, Points
<1>2. x < 55296 \/ 57344 <= x \/ lax
  BY SMT, <1>1, SurrogateIs DEF Clean
<1>. QED BY <1>1, <1>2

(* UTF-8 writes as many units as the number needs.                         *)
LEMMA Encode8Is ==
  ASSUME NEW x \in Nat
  PROVE  /\ x < 128 => Encode8(x) = <<x>>
         /\ x >= 128 /\ x < 2048 => Encode8(x) = <<192 + x \div 64, 128 + (x % 64)>>
         /\ x >= 2048 /\ x < 65536 =>
              Encode8(x) = <<224 + x \div 4096, 128 + ((x \div 64) % 64), 128 + (x % 64)>>
         /\ x >= 65536 =>
              Encode8(x) = <<240 + x \div 262144, 128 + ((x \div 4096) % 64),
                             128 + ((x \div 64) % 64), 128 + (x % 64)>>
<1>. DEFINE e1 == <<x>>
            e2 == <<192 + x \div 64, 128 + (x % 64)>>
            e3 == <<224 + x \div 4096, 128 + ((x \div 64) % 64), 128 + (x % 64)>>
            e4 == <<240 + x \div 262144, 128 + ((x \div 4096) % 64),
                    128 + ((x \div 64) % 64), 128 + (x % 64)>>
<1>1. Encode8(x) = IF x < 128 THEN e1 ELSE IF x < 2048 THEN e2 ELSE IF x < 65536 THEN e3 ELSE e4
  BY SMT DEF Encode8
<1>. HIDE DEF e1, e2, e3, e4
<1>2. /\ x < 128 => Encode8(x) = e1
      /\ x >= 128 /\ x < 2048 => Encode8(x) = e2
      /\ x >= 2048 /\ x < 65536 => Encode8(x) = e3
      /\ x >= 65536 => Encode8(x) = e4
  BY <1>1, SMT
<1>. QED BY ONLY <1>2, SMT DEF e1, e2, e3, e4

LEMMA Opens8 ==
  ASSUME NEW x, NEW lax \in BOOLEAN, Clean(x, lax), NEW t \in Seq(Bytes)
  PROVE  Opens("utf8", Encode8(x), t, x, lax)
<1>. DEFINE w == Encode8(x)
            s == w \o t
            n == Len(w)
<1>1. x \in Nat /\ x <= 1114111 /\ (x < 55296 \/ 57344 <= x \/ lax)
  BY CleanIs
<1>2. \A b \in Nat : b <= 255 => b \in Bytes
  BY SMT DEF Bytes
<1>3. ASSUME w \in Seq(Bytes), w # <<>>, n \in 1 .. 4,
             n = 1 => w[1] < 128,
             n = 2 => Second(w[1], w[2], lax) /\ w[1] < 224,
             n = 3 => Second(w[1], w[2], lax) /\ 224 <= w[1] /\ w[1] < 240 /\ Trailing(w[3]),
             n = 4 => /\ Second(w[1], w[2], lax) /\ 240 <= w[1]
                      /\ Trailing(w[3]) /\ Trailing(w[4]),
             Number8(w, n) = x
      PROVE  Opens("utf8", w, t, x, lax)
  <2>. HIDE DEF w, n
  <2>1. s \in Seq(Bytes) /\ s # <<>> /\ n <= Len(s) /\ \A i \in 1 .. n : s[i] = w[i]
    BY <1>3, JoinFront DEF n
  <2>2. s[1] = w[1] /\ (n >= 2 => s[2] = w[2]) /\ (n >= 3 => s[3] = w[3])
        /\ (n >= 4 => s[4] = w[4])
    BY <1>3, <2>1
  <2>. HIDE DEF s
  <2>3. Number8(s, n) = Number8(w, n)
    BY SMT, <1>3, <2>2 DEF Number8
  <2>4. Character8(s, lax) = <<n, Number8(s, n)>>
    <3>1. n = 1 => s[1] < 128
      BY <1>3, <2>2
    <3>2. n = 2 => Second(s[1], s[2], lax) /\ s[1] < 224
      BY <1>3, <2>2
    <3>3. n = 3 => Second(s[1], s[2], lax) /\ 224 <= s[1] /\ s[1] < 240 /\ Trailing(s[3])
      BY <1>3, <2>2
    <3>4. n = 4 => Second(s[1], s[2], lax) /\ 240 <= s[1] /\ Trailing(s[3]) /\ Trailing(s[4])
      BY <1>3, <2>2
    <3>. QED BY <1>3, <2>1, <3>1, <3>2, <3>3, <3>4, Whole8
  <2>5. Character("utf8", s, lax) = <<n, x>>
    BY <1>3, <2>3, <2>4, CharacterIs, Zenon
  <2>6. w \in Seq(Units("utf8"))
    BY <1>3, UnitsIs
  <2>. QED BY <1>3, <2>5, <2>6, Zenon DEF Opens, s, n
<1>4. CASE x < 128
  <2>1. w = <<x>>
    BY SMT, <1>1, <1>4, Encode8Is
  <2>. HIDE DEF w
  <2>2. w \in Seq(Bytes) /\ w # <<>> /\ n = 1 /\ w[1] = x
    BY <1>1, <1>2, <1>4, <2>1
  <2>3. Number8(w, n) = x
    BY SMT, <2>2 DEF Number8
  <2>. QED BY <1>3, <1>4, <2>2, <2>3 DEF w
<1>5. CASE x >= 128 /\ x < 2048
  <2>. DEFINE a == 192 + x \div 64
              b == 128 + (x % 64)
  <2>1. w = <<a, b>>
    BY SMT, <1>1, <1>5, Encode8Is
  <2>2. /\ a \in Nat /\ b \in Nat /\ a < 224 /\ a <= 255 /\ b <= 255 /\ Second(a, b, lax)
        /\ (a - 192) * 64 + b - 128 = x
    BY <1>1, <1>5, Parts2
  <2>. HIDE DEF w, a, b
  <2>3. w \in Seq(Bytes) /\ w # <<>> /\ n = 2 /\ w[1] = a /\ w[2] = b
    BY <1>2, <2>1, <2>2
  <2>4. Number8(w, n) = x
    BY SMT, <2>2, <2>3 DEF Number8
  <2>. QED BY <1>3, <2>2, <2>3, <2>4 DEF w
<1>6. CASE x >= 2048 /\ x < 65536
  <2>. DEFINE a == 224 + x \div 4096
              b == 128 + ((x \div 64) % 64)
              c == 128 + (x % 64)
  <2>1. w = <<a, b, c>>
    BY SMT, <1>1, <1>6, Encode8Is
  <2>2. /\ a \in Nat /\ b \in Nat /\ c \in Nat /\ 224 <= a /\ a < 240
        /\ b <= 255 /\ c <= 255 /\ Second(a, b, lax) /\ Trailing(c)
        /\ (a - 224) * 4096 + (b - 128) * 64 + c - 128 = x
    BY <1>1, <1>6, Parts3
  <2>. HIDE DEF w, a, b, c
  <2>3. w \in Seq(Bytes) /\ w # <<>> /\ n = 3 /\ w[1] = a /\ w[2] = b /\ w[3] = c
    BY <1>2, <2>1, <2>2
  <2>4. Number8(w, n) = x
    BY SMT, <2>2, <2>3 DEF Number8
  <2>. QED BY <1>3, <2>2, <2>3, <2>4 DEF w
<1>7. CASE x >= 65536
  <2>. DEFINE a == 240 + x \div 262144
              b == 128 + ((x \div 4096) % 64)
              c == 128 + ((x \div 64) % 64)
              d == 128 + (x % 64)
  <2>1. w = <<a, b, c, d>>
    BY SMT, <1>1, <1>7, Encode8Is
  <2>2. /\ a \in Nat /\ b \in Nat /\ c \in Nat /\ d \in Nat /\ 240 <= a /\ a <= 255
        /\ b <= 255 /\ c <= 255 /\ d <= 255 /\ Second(a, b, lax) /\ Trailing(c) /\ Trailing(d)
    BY SMT, <1>1, <1>7, Parts4
  <2>20. (a - 240) * 262144 + (b - 128) * 4096 + (c - 128) * 64 + d - 128 = x
    BY SMT, <1>1, <1>7, Parts4
  <2>. HIDE DEF w, a, b, c, d
  <2>3. w \in Seq(Bytes) /\ w # <<>> /\ n = 4 /\ w[1] = a /\ w[2] = b /\ w[3] = c /\ w[4] = d
    <3>1. a \in Bytes /\ b \in Bytes /\ c \in Bytes /\ d \in Bytes
      BY <1>2, <2>2
    <3>. QED BY ONLY SMT, <2>1, <3>1
  <2>4. Number8(w, n) = x
    BY SMT, <2>2, <2>20, <2>3 DEF Number8
  <2>. QED BY SMT, <1>3, <2>2, <2>3, <2>4 DEF w
<1>. QED BY SMT, <1>1, <1>4, <1>5, <1>6, <1>7

LEMMA InWords ==
  /\ \A x \in Nat : x < 65536 => x \in Words
  /\ \A p \in Nat : p < 1024 => /\ 55296 + p \in HighSurrogates /\ 55296 + p \in Words
                               /\ 56320 + p \in LowSurrogates /\ 56320 + p \in Words
<1>1. ASSUME NEW x \in Nat, x < 65536 PROVE x \in Words
  <2>. DEFINE top == 65535
  <2>1. Words = 0 .. top
    BY DEF Words
  <2>2. x <= top /\ top \in Nat /\ x \in Nat
    BY SMT, <1>1
  <2>. HIDE DEF top
  <2>3. x \in 0 .. top
    BY ONLY <2>2
  <2>. QED BY ONLY Zenon, <2>1, <2>3
<1>2. ASSUME NEW p \in Nat, p < 1024 PROVE 55296 + p \in HighSurrogates
  BY SMT, <1>2 DEF HighSurrogates
<1>3. ASSUME NEW p \in Nat, p < 1024 PROVE 56320 + p \in LowSurrogates
  BY SMT, <1>3 DEF LowSurrogates
<1>4. ASSUME NEW p \in Nat, p < 1024 PROVE 55296 + p \in Words /\ 56320 + p \in Words
  BY SMT, <1>1, <1>4
<1>. QED BY SMT, <1>1, <1>2, <1>3, <1>4

LEMMA Opens16 ==
  ASSUME NEW x, NEW lax \in BOOLEAN, Clean(x, lax), NEW t \in Seq(Words),
         ~(IsHigh(x) /\ t # <<>> /\ IsLow(t[1]))
  PROVE  Opens("utf16", Encode16(x), t, x, lax)
<1>. DEFINE w == Encode16(x)
            s == w \o t
<1>1. x \in Nat /\ x <= 1114111 /\ (x < 55296 \/ 57344 <= x \/ lax)
  BY CleanIs
<1>2. Character("utf16", s, lax) = Character16(s, lax) /\ Units("utf16") = Words
  BY CharacterIs, UnitsIs, Zenon
<1>3. CASE x < 65536
  <2>1. w = <<x>>
    BY SMT, <1>3 DEF Encode16
  <2>2. x \in Words
    BY ONLY SMT, <1>1, <1>3, InWords
  <2>. HIDE DEF w
  <2>3. w \in Seq(Words) /\ w # <<>> /\ Len(w) = 1 /\ w[1] = x
    BY <2>1, <2>2
  <2>4. s[1] = x /\ (t # <<>> => s[2] = t[1]) /\ (t = <<>> => ~(Len(s) > 1))
    <3>1. /\ \A i \in 1 .. Len(w) : s[i] = w[i]
          /\ t # <<>> => Len(s) > Len(w) /\ s[Len(w) + 1] = t[1]
          /\ t = <<>> => Len(s) = Len(w)
      BY <2>3, JoinFront, Zenon
    <3>. HIDE DEF s
    <3>. QED BY <2>3, <3>1
  <2>. HIDE DEF s
  <2>5. t # <<>> => t[1] \in Nat
    BY ElementOfSeq, WordsAreNat
  <2>6. ~(Len(s) > 1 /\ s[1] \in HighSurrogates /\ s[2] \in LowSurrogates)
    <3>1. x \in Nat
      BY <1>1
    <3>2. s[1] \in HighSurrogates <=> IsHigh(x)
      BY <2>4, <3>1, HighLowIs, Zenon
    <3>3. t # <<>> => (s[2] \in LowSurrogates <=> IsLow(t[1]))
      BY <2>4, <2>5, HighLowIs, Zenon
    <3>. QED BY ONLY <2>4, <3>2, <3>3, ~(IsHigh(x) /\ t # <<>> /\ IsLow(t[1])), Zenon
  <2>7. ~(x \in Surrogates /\ ~lax)
    <3>1. x \in Nat
      BY <1>1
    <3>2. x \in Surrogates <=> IsSurrogate(x)
      BY SMT, <3>1, SurrogateIs
    <3>3. IsSurrogate(x) => lax
      BY Zenon DEF Clean
    <3>. QED BY ONLY <3>2, <3>3, Zenon
  <2>8. Character16(s, lax) = <<1, x>>
    <3>1. Character16(s, lax) = <<1, IF s[1] \in Surrogates /\ ~lax THEN Invalid ELSE s[1]>>
      BY <2>6, Zenon DEF Character16
    <3>. QED BY <2>4, <2>7, <3>1, Zenon
  <2>. QED BY <1>2, <2>3, <2>8, Zenon DEF Opens, w, s
<1>4. CASE x >= 65536
  <2>. DEFINE p == (x - 65536) \div 1024
              q == (x - 65536) % 1024
              h == 55296 + p
              l == 56320 + q
  <2>1. w = <<h, l>>
    BY SMT, <1>1, <1>4 DEF Encode16
  <2>2. p \in Nat /\ q \in Nat /\ q < 1024 /\ x - 65536 = 1024 * p + q
    BY SMT, <1>1, <1>4
  <2>. HIDE DEF w, p, q
  <2>3. p < 1024
    BY SMT, <1>1, <2>2
  <2>4. h \in HighSurrogates /\ l \in LowSurrogates /\ h \in Words /\ l \in Words
    BY ONLY SMT, <2>2, <2>3, InWords
  <2>5. Number16(h, l) = x
    BY SMT, <1>1, <2>2 DEF Number16
  <2>. HIDE DEF h, l
  <2>6. w \in Seq(Words) /\ w # <<>> /\ Len(w) = 2 /\ w[1] = h /\ w[2] = l
    BY ONLY SMT, <2>1, <2>4
  <2>7. s[1] = h /\ s[2] = l /\ Len(s) > 1
    <3>0. w \in Seq(Words) /\ w # <<>>
      BY <2>6
    <3>1. /\ \A i \in 1 .. Len(w) : s[i] = w[i]
          /\ Len(s) >= Len(w) /\ s \in Seq(Words)
      BY ONLY <3>0, t \in Seq(Words), JoinFront, Zenon
    <3>. HIDE DEF s
    <3>. QED BY ONLY SMT, <2>6, <3>1
  <2>. HIDE DEF s
  <2>8. Character16(s, lax) = <<2, x>>
    <3>1. Character16(s, lax) = <<2, Number16(s[1], s[2])>>
      BY <2>4, <2>7, Zenon DEF Character16
    <3>. QED BY <2>5, <2>7, <3>1, Zenon
  <2>. QED BY <1>2, <2>6, <2>8, Zenon DEF Opens, w, s
<1>. QED BY SMT, <1>1, <1>3, <1>4

LEMMA Opens32 ==
  ASSUME NEW x, NEW lax \in BOOLEAN, Clean(x, lax), NEW t \in Seq(Nat)
  PROVE  Opens("utf32", <<x>>, t, x, lax)
<1>. DEFINE w == <<x>>
            s == w \o t
<1>1. x \in Nat /\ x <= 1114111
  BY CleanIs
<1>2. w \in Seq(Nat) /\ w # <<>> /\ Len(w) = 1 /\ w[1] = x
  BY <1>1
<1>. HIDE DEF w
<1>3. s[1] = x
  <2>1. \A i \in 1 .. Len(w) : s[i] = w[i]
    BY <1>2, JoinFront, Zenon
  <2>. HIDE DEF s
  <2>. QED BY <1>2, <2>1
<1>. HIDE DEF s
<1>4. ~(x > 1114111) /\ ~(x \in Surrogates /\ ~lax)
  BY SMT, <1>1, SurrogateIs DEF Clean
<1>5. Character32(x, lax) = <<1, x>>
  BY SMT, <1>4 DEF Character32
<1>6. Character("utf32", s, lax) = <<1, x>> /\ Units("utf32") = Nat
  BY <1>3, <1>5, CharacterIs, UnitsIs, Zenon
<1>. QED BY <1>2, <1>6, Zenon DEF Opens, w, s

LEMMA OpensByte ==
  ASSUME NEW enc \in Charsets, NEW x \in Points, NEW lax \in BOOLEAN, HasCharacter(enc, x),
         NEW t \in Seq(Bytes)
  PROVE  Opens(enc, EncodeByte(enc, x), t, x, lax)
<1>. DEFINE b == EncodeChar(enc, x)
            w == EncodeByte(enc, x)
            s == w \o t
<1>1. b < 256 /\ x \in Nat
  BY HasIs, PointsAreNat
<1>2. b \in Bytes /\ DecodeChar(enc, b) = x
  BY <1>1, EncodeRight, Zenon DEF IsByteOf
<1>3. w = <<b>>
  BY <1>1, Zenon DEF EncodeByte
<1>. HIDE DEF w, b
<1>4. w \in Seq(Bytes) /\ w # <<>> /\ Len(w) = 1 /\ w[1] = b
  BY <1>2, <1>3
<1>5. s[1] = b
  <2>1. \A i \in 1 .. Len(w) : s[i] = w[i]
    BY <1>4, JoinFront, Zenon
  <2>. HIDE DEF s
  <2>. QED BY <1>4, <2>1
<1>. HIDE DEF s
<1>6. Character(enc, s, lax) = <<1, x>> /\ Units(enc) = Bytes
  BY <1>2, <1>5, CharacterIs, UnitsIs, Zenon
<1>. QED BY <1>4, <1>6, Zenon DEF Opens, w, s

(* A reader of an encoding gets back what was written in it, if no high    *)
(* and low surrogates meet.                                                *)
Meets(to, x, y) == to = "utf16" /\ IsHigh(x) /\ IsLow(y)

(* What the encoding writes for a character opens with it, for a reader of *)
(* the encoding.                                                           *)
LEMMA EncodedOpens ==
  ASSUME NEW to \in Encodings, NEW x, NEW lax \in BOOLEAN, Clean(x, lax), HasCharacter(to, x),
         NEW t \in Seq(Units(to)), t # <<>> => ~Meets(to, x, t[1])
  PROVE  Opens(to, Encoded(to, x), t, x, lax)
<1>1. CASE to = "utf8"
  <2>1. t \in Seq(Bytes)
    BY <1>1, UnitsIs
  <2>. QED BY <1>1, <2>1, Opens8, EncodedIs, Zenon
<1>2. CASE to = "utf16"
  <2>1. t \in Seq(Words)
    BY <1>2, UnitsIs
  <2>2. ~(IsHigh(x) /\ t # <<>> /\ IsLow(t[1]))
    BY <1>2, Zenon DEF Meets
  <2>. QED BY <1>2, <2>1, <2>2, Opens16, EncodedIs, Zenon
<1>3. CASE to = "utf32"
  <2>1. t \in Seq(Nat)
    BY <1>3, UnitsIs
  <2>. QED BY <1>3, <2>1, Opens32, EncodedIs, Zenon
<1>4. CASE to \in Charsets
  <2>1. t \in Seq(Bytes)
    BY <1>4, UnitsIs
  <2>2. x \in Points
    BY DEF Clean
  <2>. QED BY <1>4, <2>1, <2>2, OpensByte, EncodedIs, Zenon
<1>. QED BY <1>1, <1>2, <1>3, <1>4 DEF Encodings

(* A reader gets the character back, and then the rest.                    *)
LEMMA RoundTrip ==
  ASSUME NEW to \in Encodings, NEW x, NEW lax \in BOOLEAN, Clean(x, lax), HasCharacter(to, x),
         NEW t \in Seq(Units(to)), t # <<>> => ~Meets(to, x, t[1])
  PROVE  /\ Encoded(to, x) \in Seq(Units(to)) /\ Encoded(to, x) # <<>>
         /\ CharactersOf(to, Encoded(to, x) \o t, lax) = <<x>> \o CharactersOf(to, t, lax)
<1>. DEFINE w == Encoded(to, x)
            s == w \o t
            ch == Character(to, s, lax)
<1>1. w \in Seq(Units(to)) /\ w # <<>> /\ ch = <<Len(w), x>>
  BY EncodedOpens, Zenon DEF Opens
<1>. HIDE DEF w
<1>2. s \in Seq(Units(to)) /\ s # <<>> /\ From(s, 1 + Len(w)) = t
  BY <1>1, JoinFront, Zenon
<1>. HIDE DEF s, ch
<1>3. ch[1] = Len(w) /\ ch[2] = x
  BY <1>1
<1>4. CharactersOf(to, s, lax) = <<ch[2]>> \o CharactersOf(to, From(s, 1 + ch[1]), lax)
  BY <1>2, CharactersStep, Zenon DEF ch
<1>. QED BY <1>1, <1>2, <1>3, <1>4, Zenon DEF w, s

-----------------------------------------------------------------------------
LEMMA Associative == \A A : \A p, q, r \in Seq(A) : (p \o q) \o r = p \o (q \o r)
  BY ConcatAssociative

(* However the text goes on, got is what a reader has when it comes to the *)
(* end of what there is of it.                                             *)
Follows(to, got, t) == got # <<>> /\ t # <<>> => ~Meets(to, Last(got), t[1])

Reads(to, lax, txt, got) ==
  /\ txt \in Seq(Units(to))
  /\ \A t \in Seq(Units(to)) :
       Follows(to, got, t) => CharactersOf(to, txt \o t, lax) = got \o CharactersOf(to, t, lax)

(* Nothing has been written.                                               *)
LEMMA ReadsNothing ==
  ASSUME NEW to \in Encodings, NEW lax \in BOOLEAN
  PROVE  Reads(to, lax, <<>>, <<>>)
<1>1. ASSUME NEW t \in Seq(Units(to))
      PROVE  CharactersOf(to, <<>> \o t, lax) = <<>> \o CharactersOf(to, t, lax)
  <2>1. CharactersOf(to, t, lax) \in Seq(Chars(lax))
    BY CharactersStep
  <2>2. \A A : \A s \in Seq(A) : <<>> \o s = s
    OBVIOUS
  <2>. QED BY <2>1, <2>2, Zenon
<1>2. <<>> \in Seq(Units(to))
  OBVIOUS
<1>. QED BY <1>1, <1>2, Zenon DEF Reads

(* Everything has been written.                                            *)
LEMMA ReadsAll ==
  ASSUME NEW to \in Encodings, NEW lax \in BOOLEAN, NEW txt, NEW got \in Seq(Chars(lax)),
         Reads(to, lax, txt, got)
  PROVE  CharactersOf(to, txt, lax) = got
<1>1. <<>> \in Seq(Units(to)) /\ Follows(to, got, <<>>)
  BY DEF Follows
<1>2. CharactersOf(to, txt \o <<>>, lax) = got \o CharactersOf(to, <<>>, lax)
  BY <1>1, Zenon DEF Reads
<1>3. CharactersOf(to, <<>>, lax) = <<>>
  BY <1>1, CharactersStep, Zenon
<1>4. txt \o <<>> = txt
  BY DEF Reads
<1>5. got \o <<>> = got
  OBVIOUS
<1>. QED BY <1>2, <1>3, <1>4, <1>5, Zenon

(* A character that begins with a low surrogate is one.                    *)
LEMMA FirstUnit ==
  ASSUME NEW x \in Points, IsLow(Encode16(x)[1])
  PROVE  IsLow(x)
<1>1. x \in Nat /\ x <= 1114111
  BY SMT DEF Points
<1>2. CASE x < 65536
  <2>1. Encode16(x) = <<x>>
    BY SMT, <1>2 DEF Encode16
  <2>2. Encode16(x)[1] = x
    BY <2>1
  <2>. QED BY <2>2, Zenon
<1>3. CASE x >= 65536
  <2>. DEFINE h == 55296 + (x - 65536) \div 1024
  <2>1. Encode16(x) = <<h, 56320 + ((x - 65536) % 1024)>>
    BY SMT, <1>1, <1>3 DEF Encode16
  <2>2. h \in Nat /\ h < 56320
    BY SMT, <1>1, <1>3
  <2>3. Encode16(x)[1] = h
    <3>. HIDE DEF h
    <3>. QED BY <2>1
  <2>. HIDE DEF h
  <2>4. ~IsLow(h)
    BY SMT, <2>2 DEF IsLow
  <2>. QED BY <2>3, <2>4, Zenon
<1>. QED BY SMT, <1>1, <1>2, <1>3

(* A character more has been written.                                      *)
LEMMA ReadsMore ==
  ASSUME NEW to \in Encodings, NEW lax \in BOOLEAN, NEW txt, NEW got \in Seq(Chars(lax)),
         Reads(to, lax, txt, got),
         NEW x, Clean(x, lax), HasCharacter(to, x), got # <<>> => ~Meets(to, Last(got), x)
  PROVE  Reads(to, lax, txt \o Encoded(to, x), Append(got, x))
<1>. DEFINE w == Encoded(to, x)
            C(t) == CharactersOf(to, t, lax)
            A == Units(to)
<1>0. x \in Points /\ x \in Chars(lax)
  <2>1. x \in Points
    BY DEF Clean
  <2>2. Legal(x, lax)
    BY DEF Legal
  <2>. QED BY <2>1, <2>2, LegalIsChar
<1>1. w \in Seq(A) /\ w # <<>>
  <2>1. <<>> \in Seq(A) /\ (<<>> # <<>> => ~Meets(to, x, <<>>[1]))
    OBVIOUS
  <2>. QED BY <2>1, RoundTrip
<1>2. txt \in Seq(A)
  BY DEF Reads
<1>3. got # <<>> => ~Meets(to, Last(got), w[1])
  <2>1. CASE to = "utf16"
    <3>1. w = Encode16(x)
      BY <2>1, EncodedIs
    <3>2. IsLow(w[1]) => IsLow(x)
      BY <1>0, <3>1, FirstUnit
    <3>. QED BY <3>2, Zenon DEF Meets
  <2>2. CASE to # "utf16"
    BY <2>2, Zenon DEF Meets
  <2>. QED BY <2>1, <2>2
<1>. HIDE DEF w
<1>4. ASSUME NEW t \in Seq(A), Follows(to, Append(got, x), t)
      PROVE  C((txt \o w) \o t) = Append(got, x) \o C(t)
  <2>1. t # <<>> => ~Meets(to, x, t[1])
    <3>1. Append(got, x) # <<>> /\ Last(Append(got, x)) = x
      BY <1>0 DEF Last
    <3>. QED BY <1>4, <3>1, Zenon DEF Follows
  <2>2. C(w \o t) = <<x>> \o C(t)
    BY <2>1, RoundTrip, Zenon DEF w
  <2>. DEFINE u == w \o t
  <2>3. u \in Seq(A) /\ u[1] = w[1]
    <3>1. u \in Seq(A) /\ \A i \in 1 .. Len(w) : u[i] = w[i]
      BY <1>1, JoinFront, Zenon
    <3>2. 1 \in 1 .. Len(w)
      BY <1>1
    <3>. QED BY <3>1, <3>2, Zenon
  <2>4. (txt \o w) \o t = txt \o u
    <3>1. \A p, q, r \in Seq(A) : (p \o q) \o r = p \o (q \o r)
      BY ONLY Associative
    <3>. QED BY <1>1, <1>2, <3>1, Zenon
  <2>5. Follows(to, got, u)
    BY <1>3, <2>3, Zenon DEF Follows
  <2>. HIDE DEF u
  <2>6. C(txt \o u) = got \o C(u)
    BY <2>3, <2>5, Zenon DEF Reads
  <2>7. C(t) \in Seq(Chars(lax))
    BY CharactersStep
  <2>. DEFINE v == C(t)
  <2>8. got \o (<<x>> \o v) = Append(got, x) \o v
    <3>. HIDE DEF C
    <3>1. v \in Seq(Chars(lax))
      BY <2>7
    <3>. HIDE DEF v
    <3>2. <<x>> \in Seq(Chars(lax)) /\ Append(got, x) = got \o <<x>>
      BY <1>0
    <3>3. \A p, q, r \in Seq(Chars(lax)) : (p \o q) \o r = p \o (q \o r)
      BY ONLY Associative
    <3>. DEFINE y == <<x>>
                z == Append(got, x)
    <3>4. y \in Seq(Chars(lax)) /\ z = got \o y
      BY <3>2
    <3>. HIDE DEF y, z
    <3>5. (got \o y) \o v = got \o (y \o v)
      BY <3>1, <3>3, <3>4
    <3>6. got \o (y \o v) = z \o v
      BY <3>4, <3>5, Zenon
    <3>. QED BY <3>6, Zenon DEF y, z
  <2>. HIDE DEF C, v
  <2>9. C(u) = <<x>> \o v
    BY <2>2, Zenon DEF u, v
  <2>. QED BY <2>4, <2>6, <2>8, <2>9, Zenon DEF v
<1>5. txt \o w \in Seq(A)
  BY <1>1, <1>2
<1>. QED BY <1>4, <1>5, Zenon DEF Reads, w

(* The first m characters are copied when what a reader of the text has,   *)
(* however it goes on, is what they become.                                *)
Shown(to, done, m) == [i \in 1 .. m |-> Becomes(to, done[i])]

Copied(to, lax, txt, done, m) == Reads(to, lax, txt, Shown(to, done, m))

Apart(to, done) == \A i \in 1 .. Len(done) - 1 : ~Meets(to, done[i], done[i + 1])

(* What a reader has of the first m characters, and of one more.           *)
LEMMA ShownIs ==
  ASSUME NEW to \in Encodings, NEW lax \in BOOLEAN, NEW done \in Seq(Chars(lax)),
         NEW m \in 0 .. Len(done)
  PROVE  /\ Shown(to, done, m) \in Seq(Chars(lax)) /\ Len(Shown(to, done, m)) = m
         /\ \A i \in 1 .. m : Shown(to, done, m)[i] = Becomes(to, done[i])
         /\ Shown(to, done, m) # <<>> => m >= 1 /\ Last(Shown(to, done, m)) = Becomes(to, done[m])
         /\ m < Len(done) => Shown(to, done, m + 1)
                               = Append(Shown(to, done, m), Becomes(to, done[m + 1]))
<1>. DEFINE b(i) == Becomes(to, done[i])
            s == Shown(to, done, m)
<1>1. \A i \in 1 .. Len(done) : b(i) \in Chars(lax)
  <2>. SUFFICES ASSUME NEW i \in 1 .. Len(done) PROVE b(i) \in Chars(lax)
    OBVIOUS
  <2>1. done[i] \in Chars(lax)
    OBVIOUS
  <2>2. Legal(done[i], lax)
    BY <2>1 DEF Chars
  <2>3. Clean(b(i), lax)
    BY <2>2, BecomesIs
  <2>. HIDE DEF b
  <2>. QED BY <2>3, LegalIsChar, Zenon DEF Legal
<1>2. /\ s = [i \in 1 .. m |-> b(i)]
      /\ Shown(to, done, m + 1) = [i \in 1 .. m + 1 |-> b(i)]
  BY Zenon DEF Shown
<1>. HIDE DEF b, s
<1>3. s \in Seq(Chars(lax)) /\ Len(s) = m /\ \A i \in 1 .. m : s[i] = b(i)
  <2>1. m \in Nat /\ \A i \in 1 .. m : b(i) \in Chars(lax)
    BY <1>1
  <2>. QED BY <1>2, <2>1, IsASeq
<1>4. s # <<>> => m >= 1 /\ Last(s) = b(m)
  BY <1>3 DEF Last
<1>5. ASSUME m < Len(done) PROVE [i \in 1 .. m + 1 |-> b(i)] = Append(s, b(m + 1))
  <2>. DEFINE x == [i \in 1 .. m + 1 |-> b(i)]
              y == Append(s, b(m + 1))
  <2>1. x \in Seq(Chars(lax)) /\ Len(x) = m + 1 /\ \A i \in 1 .. m + 1 : x[i] = b(i)
    <3>1. m + 1 \in Nat /\ \A i \in 1 .. m + 1 : b(i) \in Chars(lax)
      BY <1>1, <1>5
    <3>. QED BY <3>1, IsASeq
  <2>2. y \in Seq(Chars(lax)) /\ Len(y) = m + 1 /\ \A i \in 1 .. m + 1 : y[i] = b(i)
    <3>1. b(m + 1) \in Chars(lax)
      BY <1>1, <1>5
    <3>. QED BY <1>3, <3>1
  <2>. HIDE DEF x, y
  <2>3. x = y
    BY <2>1, <2>2, SeqEqual
  <2>. QED BY <2>3 DEF x, y
<1>. QED BY <1>2, <1>3, <1>4, <1>5, Zenon DEF b, s

(* What two characters become meets only if they do.                       *)
LEMMA BecomesMeets ==
  ASSUME NEW to \in Encodings, NEW c, NEW d, ~Meets(to, c, d)
  PROVE  ~Meets(to, Becomes(to, c), Becomes(to, d))
<1>1. CASE to = "utf16"
  <2>1. ~IsHigh(Replacement) /\ ~IsLow(Replacement)
    BY SMT DEF IsHigh, IsLow, Replacement
  <2>2. to \notin Charsets /\ \A x : HasCharacter(to, x)
    BY <1>1, HasOther, Zenon
  <2>3. \A x : Becomes(to, x) = IF x # Invalid THEN x ELSE Replacement
    BY <2>2, Zenon DEF Becomes
  <2>. QED BY <1>1, <2>1, <2>3, Zenon DEF Meets
<1>2. CASE to # "utf16"
  BY <1>2, Zenon DEF Meets
<1>. QED BY <1>1, <1>2

(* One more is written.                                                    *)
LEMMA CopyOne ==
  ASSUME NEW to \in Encodings, NEW lax \in BOOLEAN, NEW done \in Seq(Chars(lax)),
         NEW m \in Nat, m + 1 <= Len(done), NEW txt, Copied(to, lax, txt, done, m),
         m >= 1 => ~Meets(to, done[m], done[m + 1])
  PROVE  Copied(to, lax, txt \o Encoded(to, Becomes(to, done[m + 1])), done, m + 1)
<1>. DEFINE got == Shown(to, done, m)
            x == Becomes(to, done[m + 1])
<1>1. /\ got \in Seq(Chars(lax)) /\ (got # <<>> => m >= 1 /\ Last(got) = Becomes(to, done[m]))
      /\ Shown(to, done, m + 1) = Append(got, x)
  <2>1. m \in 0 .. Len(done) /\ m < Len(done)
    OBVIOUS
  <2>. QED BY <2>1, ShownIs, Zenon
<1>2. Clean(x, lax) /\ HasCharacter(to, x)
  <2>1. done[m + 1] \in Chars(lax)
    OBVIOUS
  <2>2. Legal(done[m + 1], lax)
    BY <2>1 DEF Chars
  <2>. QED BY <2>2, BecomesIs
<1>3. got # <<>> => ~Meets(to, Last(got), x)
  <2>1. m >= 1 => ~Meets(to, Becomes(to, done[m]), x)
    BY BecomesMeets
  <2>. HIDE DEF got, x
  <2>. QED BY <1>1, <2>1, Zenon
<1>4. Reads(to, lax, txt, got)
  BY DEF Copied
<1>. HIDE DEF got, x
<1>5. Reads(to, lax, txt \o Encoded(to, x), Append(got, x))
  BY <1>1, <1>2, <1>3, <1>4, ReadsMore, Zenon
<1>6. Reads(to, lax, txt \o Encoded(to, x), Shown(to, done, m + 1))
  BY <1>1, <1>5, Zenon
<1>. QED BY <1>6, Zenon DEF Copied, x

(* More characters that are read do not matter to those that are copied.   *)
LEMMA CopiedSame ==
  ASSUME NEW to, NEW lax, NEW txt, NEW m, NEW done, NEW more,
         \A i \in 1 .. m : done[i] = more[i], Copied(to, lax, txt, done, m)
  PROVE  Copied(to, lax, txt, more, m)
<1>1. Shown(to, done, m) = Shown(to, more, m)
  BY Zenon DEF Shown
<1>. QED BY <1>1, Zenon DEF Copied

(* A sequence cut short, and the one that is longer by an element.         *)
FirstOf(out, k) == [i \in 1 .. k |-> out[i]]

LEMMA FirstOnes ==
  ASSUME NEW B, NEW out, NEW k \in Nat, \A i \in 1 .. k : out[i] \in B
  PROVE  FirstOf(out, k) \in Seq(B) /\ Len(FirstOf(out, k)) = k
         /\ \A i \in 1 .. k : FirstOf(out, k)[i] = out[i]
<1>. QED BY IsASeq DEF FirstOf

LEMMA OneMore ==
  ASSUME NEW B, NEW out, NEW k \in Nat, \A i \in 1 .. k + 1 : out[i] \in B
  PROVE  FirstOf(out, k + 1) = Append(FirstOf(out, k), out[k + 1])
<1>0. PICK K \in Nat : K = k + 1
  OBVIOUS
<1>. DEFINE q == FirstOf(out, K)
            p == FirstOf(out, k)
            e == out[k + 1]
            r == Append(p, e)
<1>1. (\A i \in 1 .. k : i \in 1 .. K) /\ k + 1 \in 1 .. K
      /\ \A i \in 1 .. K : i = k + 1 \/ i \in 1 .. k
  BY <1>0
<1>2. (\A i \in 1 .. k : out[i] \in B) /\ e \in B /\ (\A i \in 1 .. K : out[i] \in B) /\ e = out[k + 1]
  BY <1>0, <1>1
<1>. HIDE DEF e
<1>3. q \in Seq(B) /\ Len(q) = K /\ \A i \in 1 .. K : q[i] = out[i]
  BY <1>2, IsASeq DEF FirstOf
<1>4. p \in Seq(B) /\ Len(p) = k /\ \A i \in 1 .. k : p[i] = out[i]
  BY <1>2, IsASeq DEF FirstOf
<1>. HIDE DEF p, q
<1>5. r \in Seq(B) /\ Len(r) = k + 1 /\ r[k + 1] = e /\ \A i \in 1 .. k : r[i] = p[i]
  BY <1>2, <1>4
<1>. HIDE DEF r
<1>6. r \in Seq(B) /\ Len(r) = K /\ \A i \in 1 .. K : r[i] = out[i]
  BY <1>0, <1>1, <1>2, <1>4, <1>5, Zenon
<1>7. q = r
  BY <1>0, <1>3, <1>6, SeqEqual
<1>. QED BY <1>0, <1>7 DEF q, r, p, e

(* As many more are written as a flush joins.                              *)
LEMMA CopyMany ==
  ASSUME NEW to \in Encodings, NEW lax \in BOOLEAN, NEW done \in Seq(Chars(lax)),
         NEW m \in Nat, NEW n \in Nat, m + n <= Len(done), NEW txt, Copied(to, lax, txt, done, m),
         Apart(to, done), NEW out, DOMAIN out = 1 .. n, out = [i \in 1 .. n |-> out[i]],
         \A i \in 1 .. n : out[i] = Encoded(to, Becomes(to, done[m + i]))
  PROVE  Copied(to, lax, txt \o FlattenSeq(out), done, m + n)
<1>. DEFINE A == Units(to)
            part(k) == FirstOf(out, k)
            S == {k \in Nat : k <= n =>
                    /\ part(k) \in Seq(Seq(A)) /\ FlattenSeq(part(k)) \in Seq(A)
                    /\ Copied(to, lax, txt \o FlattenSeq(part(k)), done, m + k)}
<1>1. txt \in Seq(A)
  BY Zenon DEF Copied, Reads
<1>2. \A i \in 1 .. n : out[i] \in Seq(A)
  <2>. SUFFICES ASSUME NEW i \in 1 .. n PROVE Encoded(to, Becomes(to, done[m + i])) \in Seq(A)
    BY Zenon
  <2>. DEFINE x == Becomes(to, done[m + i])
  <2>1. done[m + i] \in Chars(lax)
    OBVIOUS
  <2>2. Legal(done[m + i], lax)
    BY <2>1 DEF Chars
  <2>3. Clean(x, lax) /\ HasCharacter(to, x)
    BY <2>2, BecomesIs
  <2>4. <<>> \in Seq(A) /\ (<<>> # <<>> => ~Meets(to, x, <<>>[1]))
    OBVIOUS
  <2>. HIDE DEF x
  <2>5. Encoded(to, x) \in Seq(A)
    BY <2>3, <2>4, RoundTrip
  <2>. QED BY <2>5 DEF x
<1>3. 0 \in S
  <2>1. part(0) = <<>>
    BY DEF FirstOf
  <2>2. FlattenSeq(<<>>) = <<>>
    BY DEF FlattenSeq
  <2>3. txt \o <<>> = txt /\ m + 0 = m /\ <<>> \in Seq(A) /\ <<>> \in Seq(Seq(A))
    BY <1>1
  <2>. HIDE DEF part
  <2>4. /\ part(0) \in Seq(Seq(A)) /\ FlattenSeq(part(0)) \in Seq(A)
        /\ Copied(to, lax, txt \o FlattenSeq(part(0)), done, m + 0)
    BY <2>1, <2>2, <2>3, Zenon
  <2>. QED BY <2>4
<1>4. ASSUME NEW k \in Nat, k \in S PROVE k + 1 \in S
  <2>. SUFFICES ASSUME k + 1 <= n
                PROVE  /\ part(k + 1) \in Seq(Seq(A)) /\ FlattenSeq(part(k + 1)) \in Seq(A)
                       /\ Copied(to, lax, txt \o FlattenSeq(part(k + 1)), done, m + (k + 1))
    OBVIOUS
  <2>. DEFINE p == part(k)
              e == out[k + 1]
              f == FlattenSeq(p)
  <2>1. /\ p \in Seq(Seq(A)) /\ f \in Seq(A)
        /\ Copied(to, lax, txt \o f, done, m + k)
    <3>1. k <= n
      OBVIOUS
    <3>. HIDE DEF part
    <3>. QED BY <1>4, <3>1
  <2>2. e \in Seq(A) /\ e = Encoded(to, Becomes(to, done[m + (k + 1)]))
    <3>1. k + 1 \in 1 .. n
      OBVIOUS
    <3>. QED BY <1>2, <3>1, Zenon
  <2>3. part(k + 1) = Append(p, e) /\ part(k + 1) \in Seq(Seq(A))
    <3>. DEFINE B == Seq(A)
                K == k + 1
    <3>1. K \in Nat /\ \A i \in 1 .. K : out[i] \in B
      BY <1>2
    <3>. HIDE DEF A, B
    <3>2. \A i \in 1 .. k + 1 : out[i] \in B
      BY <3>1
    <3>3. part(k + 1) = Append(p, e)
      BY <3>2, OneMore, Zenon
    <3>. HIDE DEF K
    <3>4. FirstOf(out, K) \in Seq(B)
      BY <3>1, FirstOnes, Zenon
    <3>. QED BY <3>3, <3>4, Zenon DEF B, K
  <2>. HIDE DEF part, p, e
  <2>4. FlattenSeq(part(k + 1)) = f \o e
    BY <2>1, <2>2, <2>3, FlattenAppend, Zenon
  <2>. HIDE DEF f
  <2>5. txt \o (f \o e) = (txt \o f) \o e /\ f \o e \in Seq(A)
    <3>. HIDE DEF A
    <3>1. txt \in Seq(A) /\ f \in Seq(A) /\ e \in Seq(A)
      BY <1>1, <2>1, <2>2, Zenon
    <3>2. \A p1, p2, p3 \in Seq(A) : (p1 \o p2) \o p3 = p1 \o (p2 \o p3)
      BY ONLY Associative
    <3>3. f \o e \in Seq(A)
      BY <3>1, ConcatProperties, Zenon
    <3>. QED BY <3>1, <3>2, <3>3, Zenon
  <2>6. Copied(to, lax, (txt \o f) \o e, done, m + (k + 1))
    <3>1. m + k \in Nat /\ (m + k) + 1 = m + (k + 1) /\ (m + k) + 1 <= Len(done)
      OBVIOUS
    <3>2. m + k >= 1 => ~Meets(to, done[m + k], done[(m + k) + 1])
      BY DEF Apart
    <3>. DEFINE j == m + k
    <3>3. j \in Nat /\ j + 1 = m + (k + 1) /\ j + 1 <= Len(done)
          /\ (j >= 1 => ~Meets(to, done[j], done[j + 1])) /\ Copied(to, lax, txt \o f, done, j)
      BY <2>1, <3>1, <3>2, Zenon
    <3>. HIDE DEF j
    <3>4. Copied(to, lax, (txt \o f) \o Encoded(to, Becomes(to, done[j + 1])), done, j + 1)
      BY <3>3, CopyOne, Zenon
    <3>. QED BY <2>2, <3>3, <3>4, Zenon
  <2>. QED BY <2>3, <2>4, <2>5, <2>6, Zenon
<1>5. part(n) = out
  BY Zenon DEF FirstOf
<1>. HIDE DEF part
<1>6. n \in S
  <2>. HIDE DEF S
  <2>1. \A k \in Nat : k \in S
    BY <1>3, <1>4, Induct
  <2>. QED BY <2>1
<1>7. Copied(to, lax, txt \o FlattenSeq(part(n)), done, m + n)
  BY <1>6
<1>. QED BY <1>5, <1>7, Zenon

-----------------------------------------------------------------------------
(* How far a transcoding is.  CharsOf are the characters of the source;    *)
(* done those read so far, of which the first m are written and the others *)
(* pending.                                                                *)
CharsOf(j) == CharactersOf(j.from, j.src, j.lax)

Bad(j, c) == c = Invalid \/ ~HasCharacter(j.to, c)

(* What the mini buffer keeps of a character.                              *)
Held(c) == IF c = Invalid THEN Replacement ELSE c

ReadTo(j, a, done) ==
  /\ a \in 1 .. Len(j.src) + 1 /\ done \in Seq(Chars(j.lax))
  /\ CharsOf(j) = done \o CharactersOf(j.from, From(j.src, a), j.lax)

IsJob(j) == j \in Job /\ j.src \in Seq(Units(j.from))

LEMMA IsJobParts ==
  ASSUME NEW j, IsJob(j)
  PROVE  /\ j.from \in Encodings /\ j.to \in Encodings /\ j.src \in Seq(Units(j.from))
         /\ j.lax \in BOOLEAN /\ j.after \in Words /\ Len(j.src) \in Nat
  BY DEF IsJob, Job

(* What is read are the first characters of the source.                    *)
LEMMA ReadToFacts ==
  ASSUME NEW j, IsJob(j), NEW a, NEW done, ReadTo(j, a, done)
  PROVE  /\ CharsOf(j) \in Seq(Chars(j.lax)) /\ Len(CharsOf(j)) \in Nat /\ Len(done) \in Nat
         /\ Len(done) <= Len(CharsOf(j))
         /\ \A i \in 1 .. Len(done) : done[i] = CharsOf(j)[i]
         /\ a = Len(j.src) + 1 => CharsOf(j) = done
<1>. DEFINE C == Chars(j.lax)
            x == CharsOf(j)
            y == CharactersOf(j.from, From(j.src, a), j.lax)
<1>1. /\ a \in 1 .. Len(j.src) + 1 /\ done \in Seq(C) /\ x = done \o y
  BY Zenon DEF ReadTo
<1>2. From(j.src, a) \in Seq(Units(j.from)) /\ Len(From(j.src, a)) = Len(j.src) + 1 - a
  BY <1>1, IsJobParts, FromFrom, Zenon
<1>3. y \in Seq(C) /\ (From(j.src, a) = <<>> => y = <<>>)
  BY <1>2, IsJobParts, CharactersStep, Zenon
<1>. HIDE DEF C, x, y
<1>4. /\ done \o y \in Seq(C) /\ Len(done \o y) = Len(done) + Len(y)
      /\ Len(done) \in Nat /\ Len(y) \in Nat
      /\ \A i \in 1 .. Len(done) : (done \o y)[i] = done[i]
  BY <1>1, <1>3
<1>5. ASSUME a = Len(j.src) + 1 PROVE x = done
  <2>1. Len(From(j.src, a)) = 0
    BY <1>2, <1>5, IsJobParts
  <2>2. From(j.src, a) = <<>>
    <3>. DEFINE f == From(j.src, a)
    <3>1. f \in Seq(Units(j.from)) /\ Len(f) = 0
      BY <1>2, <2>1
    <3>. HIDE DEF f
    <3>. QED BY <3>1 DEF f
  <2>3. done \o <<>> = done
    BY <1>1
  <2>. QED BY <1>1, <1>3, <2>2, <2>3, Zenon
<1>6. Len(done) <= Len(done \o y) /\ Len(done \o y) \in Nat
  BY <1>4
<1>. QED BY <1>1, <1>4, <1>5, <1>6, Zenon DEF C, x

(* A character more.                                                       *)
LEMMA Onward ==
  ASSUME NEW j, IsJob(j), NEW a, NEW done, ReadTo(j, a, done), a <= Len(j.src)
  PROVE  LET ch == Character(j.from, From(j.src, a), j.lax)
         IN /\ ReadTo(j, a + ch[1], Append(done, ch[2])) /\ Legal(ch[2], j.lax)
            /\ Len(done) + 1 <= Len(CharsOf(j)) /\ CharsOf(j)[Len(done) + 1] = ch[2]
<1>. DEFINE C == Chars(j.lax)
            f == From(j.src, a)
            ch == Character(j.from, f, j.lax)
            u == ch[1]
            c == ch[2]
            s == Append(done, c)
            y == CharactersOf(j.from, From(f, 1 + u), j.lax)
<1>0. a \in 1 .. Len(j.src) + 1 /\ a \in 1 .. Len(j.src) /\ done \in Seq(C)
      /\ CharsOf(j) = done \o CharactersOf(j.from, f, j.lax)
  <2>1. a \in 1 .. Len(j.src) + 1
    BY Zenon DEF ReadTo
  <2>2. a \in 1 .. Len(j.src)
    BY <2>1, IsJobParts
  <2>. QED BY <2>1, <2>2, Zenon DEF ReadTo
<1>1. /\ f \in Seq(Units(j.from)) /\ f # <<>> /\ Len(f) = Len(j.src) + 1 - a
      /\ \A i \in 1 .. Len(f) + 1 : From(f, i) = From(j.src, a + i - 1)
  <2>. DEFINE src == j.src
              A == Units(j.from)
  <2>1. src \in Seq(A) /\ a \in 1 .. Len(src) /\ a \in 1 .. Len(src) + 1
    BY <1>0, IsJobParts, Zenon
  <2>. HIDE DEF src, A
  <2>2. From(src, a) # <<>>
    BY <2>1, RestOf, Zenon
  <2>3. /\ From(src, a) \in Seq(A) /\ Len(From(src, a)) = Len(src) + 1 - a
        /\ \A i \in 1 .. Len(From(src, a)) + 1 : From(From(src, a), i) = From(src, a + i - 1)
    BY <2>1, FromFrom, Zenon
  <2>. QED BY <2>2, <2>3, Zenon DEF src, A
<1>2. Fits(ch, f, j.lax)
  BY <1>1, IsJobParts, CharacterFits, Zenon
<1>3. /\ From(f, 1 + u) \in Seq(Units(j.from))
      /\ CharactersOf(j.from, f, j.lax) = <<c>> \o y
  BY <1>1, IsJobParts, CharactersStep, Zenon
<1>4. y \in Seq(C)
  BY <1>3, IsJobParts, CharactersStep, Zenon
<1>5. u \in Nat /\ u >= 1 /\ u <= Len(f) /\ Legal(c, j.lax)
  BY <1>2, Zenon DEF Fits
<1>6. c \in C
  BY <1>5, LegalIsChar, Zenon
<1>. HIDE DEF C, u, c, y, ch
<1>7. /\ s \in Seq(C) /\ done \o (<<c>> \o y) = s \o y
      /\ Len(done) + 1 <= Len(s \o y) /\ (s \o y)[Len(done) + 1] = c
  <2>1. <<c>> \in Seq(C)
    BY <1>6
  <2>2. s = done \o <<c>> /\ s \in Seq(C) /\ Len(s) = Len(done) + 1 /\ s[Len(done) + 1] = c
    BY <1>0, <1>6
  <2>3. \A p1, p2, p3 \in Seq(C) : (p1 \o p2) \o p3 = p1 \o (p2 \o p3)
    BY ONLY Associative
  <2>4. done \o (<<c>> \o y) = s \o y
    <3>. DEFINE x == <<c>>
    <3>. HIDE DEF x, s
    <3>1. x \in Seq(C) /\ s = done \o x
      BY <2>1, <2>2 DEF x
    <3>2. done \o (x \o y) = s \o y
      BY <1>0, <1>4, <2>3, <3>1, Zenon
    <3>. QED BY <3>2 DEF x
  <2>. HIDE DEF s
  <2>5. Len(done) + 1 <= Len(s \o y) /\ (s \o y)[Len(done) + 1] = s[Len(done) + 1]
    BY <1>0, <1>4, <2>2
  <2>. QED BY <2>2, <2>4, <2>5, Zenon
<1>8. /\ a + u \in 1 .. Len(j.src) + 1 /\ 1 + u \in 1 .. Len(f) + 1
      /\ a + (1 + u) - 1 = a + u
  BY <1>0, <1>1, <1>5, IsJobParts
<1>9. From(f, 1 + u) = From(j.src, a + u)
  <2>. HIDE DEF f
  <2>. QED BY <1>1, <1>8, Zenon
<1>. HIDE DEF f, s
<1>10. CharsOf(j) = s \o y
  BY <1>0, <1>3, <1>7, Zenon
<1>11. ReadTo(j, a + u, s)
  BY <1>7, <1>8, <1>9, <1>10, Zenon DEF ReadTo, y, C
<1>. QED BY <1>5, <1>7, <1>10, <1>11, Zenon DEF u, c, s, ch, f

(* What is pending is what is read and not written.                        *)
Awaiting(p, done, m) ==
  Len(done) = m + Len(p) /\ \A i \in 1 .. Len(p) : p[i] = Held(done[m + i])

(* With the policy to stop nothing was replaced, ...                       *)
Faultless(j, done, m) ==
  /\ \A i \in 1 .. Len(done) : done[i] # Invalid
  /\ \A i \in 1 .. m : ~Bad(j, done[i])

(* ... and an exception has a cause: for a transcoder that goes the whole  *)
(* way, the character that comes next.                                     *)
HasCause(j, m) ==
  /\ j.stop /\ \E i \in 1 .. Len(CharsOf(j)) : Bad(j, CharsOf(j)[i])
  /\ HasTranscoder(j.from, j.to) =>
       m + 1 <= Len(CharsOf(j)) /\ Bad(j, CharsOf(j)[m + 1])

Progress(j, a, p, t, s, done, m) ==
  /\ ReadTo(j, a, done) /\ m \in 0 .. Len(done) /\ p \in Seq(Points)
  /\ Apart(j.to, CharsOf(j)) => Copied(j.to, j.lax, t, done, m)
  /\ s \in {"going", "done"} => Awaiting(p, done, m)
  /\ j.stop => Faultless(j, done, m)
  /\ HasTranscoder(j.from, j.to) => p = <<>> /\ m = Len(done)
  /\ s = "threw" => HasCause(j, m)
  /\ s = "done" => a = Len(j.src) + 1 /\ p = <<>>

(* The inductive invariant of a transcoding, of an unambiguous source.     *)
TextInv ==
  /\ JobOK
  /\ ~Ambiguous => \E done, m : Progress(job, at, pending, text, status, done, m)

(* Surrogates that meet nowhere in the source do not meet in what is read. *)
LEMMA ApartBegins ==
  ASSUME NEW j, IsJob(j), NEW a, NEW done, ReadTo(j, a, done), Apart(j.to, CharsOf(j))
  PROVE  Apart(j.to, done)
<1>1. /\ Len(CharsOf(j)) \in Nat /\ Len(done) \in Nat /\ Len(done) <= Len(CharsOf(j))
      /\ \A i \in 1 .. Len(done) : done[i] = CharsOf(j)[i]
  BY ReadToFacts, Zenon
<1>. SUFFICES ASSUME NEW i \in 1 .. Len(done) - 1 PROVE ~Meets(j.to, done[i], done[i + 1])
  BY DEF Apart
<1>2. i \in 1 .. Len(CharsOf(j)) - 1 /\ i \in 1 .. Len(done) /\ i + 1 \in 1 .. Len(done)
  BY <1>1
<1>. QED BY <1>1, <1>2, Zenon DEF Apart

(* One more that is no error.                                              *)
LEMMA FaultlessMore ==
  ASSUME NEW j, NEW C, NEW done \in Seq(C), NEW m \in 0 .. Len(done), Faultless(j, done, m),
         NEW c \in C, c # Invalid, NEW n \in m .. Len(done) + 1,
         n = m \/ (m = Len(done) /\ ~Bad(j, c))
  PROVE  Faultless(j, Append(done, c), n)
<1>. DEFINE s == Append(done, c)
<1>1. /\ Len(s) = Len(done) + 1 /\ s[Len(done) + 1] = c /\ Len(done) \in Nat
      /\ \A i \in 1 .. Len(done) : s[i] = done[i]
  OBVIOUS
<1>. HIDE DEF s
<1>2. \A i \in 1 .. Len(s) : i \in 1 .. Len(done) \/ i = Len(done) + 1
  BY <1>1
<1>3. \A i \in 1 .. Len(s) : s[i] # Invalid
  BY <1>1, <1>2, Zenon DEF Faultless
<1>4. ASSUME NEW i \in 1 .. n PROVE ~Bad(j, s[i])
  <2>1. CASE i \in 1 .. m
    <3>1. i \in 1 .. Len(done)
      BY <1>1, <2>1
    <3>. QED BY <1>1, <2>1, <3>1, Zenon DEF Faultless
  <2>2. CASE i \notin 1 .. m
    <3>1. m = Len(done) /\ ~Bad(j, c) /\ i = Len(done) + 1
      BY <1>1, <2>2
    <3>. QED BY <1>1, <3>1, Zenon
  <2>. QED BY <2>1, <2>2
<1>. QED BY <1>3, <1>4 DEF Faultless, s

(* A replacement in the mini buffer becomes what the piece it stands for   *)
(* becomes.                                                                *)
LEMMA BecomesHeld ==
  ASSUME NEW to \in Encodings, NEW c
  PROVE  Becomes(to, Held(c)) = Becomes(to, c)
<1>1. CASE c # Invalid
  BY <1>1, Zenon DEF Held
<1>2. CASE c = Invalid
  <2>1. Held(c) = Replacement
    BY <1>2, Zenon DEF Held
  <2>2. Becomes(to, c) = IF to \in Charsets THEN QuestionMark ELSE Replacement
    BY <1>2, Zenon DEF Becomes, QuestionMark
  <2>3. CASE to \in Charsets
    <3>1. ~HasCharacter(to, Replacement)
      <4>1. \A b \in Bytes : DecodeChar(to, b) # Replacement
        <5>1. TAKE b \in Bytes
        <5>2. DecodeChar(to, b) \in Low9000 \cup {Invalid}
          BY <2>3, DecodedLow
        <5>3. Replacement # Invalid
          BY ReplacementIs, PointsAreNat
        <5>. QED BY <5>2, <5>3, LowLegal
      <4>. QED BY <2>3, <4>1, Zenon DEF HasCharacter, Bytes
    <3>. QED BY <2>1, <2>2, <2>3, <3>1, Zenon DEF Becomes, QuestionMark
  <2>4. CASE to \notin Charsets
    <3>1. Becomes(to, Replacement) = Replacement
      BY <2>4, Zenon DEF Becomes
    <3>. QED BY <2>1, <2>2, <2>4, <3>1, Zenon
  <2>. QED BY <2>3, <2>4
<1>. QED BY <1>1, <1>2

(* A transcoder that goes the whole way writes the character it has read.  *)
LEMMA Converted ==
  ASSUME NEW j, IsJob(j), NEW a, NEW p, NEW t, NEW done, NEW m,
         Progress(j, a, p, t, "going", done, m), HasTranscoder(j.from, j.to),
         NEW u, NEW c, Legal(c, j.lax), ReadTo(j, a + u, Append(done, c)),
         j.stop => ~Bad(j, c)
  PROVE  Progress(j, a + u, p, t \o Encoded(j.to, Becomes(j.to, c)), "going",
                  Append(done, c), m + 1)
<1>. DEFINE C == Chars(j.lax)
            s == Append(done, c)
            b == a + u
            w == t \o Encoded(j.to, Becomes(j.to, c))
<1>1. /\ ReadTo(j, a, done) /\ m \in 0 .. Len(done) /\ p = <<>> /\ m = Len(done) /\ p \in Seq(Points)
      /\ Apart(j.to, CharsOf(j)) => Copied(j.to, j.lax, t, done, m)
      /\ j.stop => Faultless(j, done, m)
  BY Zenon DEF Progress
<1>2. done \in Seq(C) /\ c \in C /\ j.to \in Encodings /\ j.lax \in BOOLEAN
  BY <1>1, IsJobParts, LegalIsChar, Zenon DEF ReadTo
<1>3. /\ s \in Seq(C) /\ Len(s) = m + 1 /\ s[m + 1] = c /\ \A i \in 1 .. m : s[i] = done[i]
      /\ m \in Nat
  BY <1>1, <1>2
<1>. HIDE DEF s, b, C
<1>4. ASSUME Apart(j.to, CharsOf(j)) PROVE Copied(j.to, j.lax, w, s, m + 1)
  <2>1. ReadTo(j, b, s)
    BY Zenon DEF s, b
  <2>2. Apart(j.to, s)
    BY <1>4, <2>1, ApartBegins, Zenon
  <2>3. m >= 1 => ~Meets(j.to, s[m], s[m + 1])
    BY <1>3, <2>2 DEF Apart
  <2>4. Copied(j.to, j.lax, t, s, m)
    <3>1. \A i \in 1 .. m : done[i] = s[i]
      BY <1>3, Zenon
    <3>. QED BY <1>1, <1>4, <3>1, CopiedSame, Zenon
  <2>5. m + 1 <= Len(s) /\ s \in Seq(Chars(j.lax))
    BY <1>3 DEF C
  <2>6. Copied(j.to, j.lax, t \o Encoded(j.to, Becomes(j.to, s[m + 1])), s, m + 1)
    BY <1>2, <1>3, <2>3, <2>4, <2>5, CopyOne, Zenon
  <2>. QED BY <1>3, <2>6, Zenon
<1>5. m + 1 \in 0 .. Len(s) /\ m + 1 = Len(s) /\ Len(p) = 0 /\ Len(s) = (m + 1) + Len(p)
  BY <1>1, <1>3
<1>6. Awaiting(p, s, m + 1)
  BY <1>5 DEF Awaiting
<1>7. ASSUME j.stop PROVE Faultless(j, s, m + 1)
  <2>1. Faultless(j, done, m) /\ ~Bad(j, c) /\ c # Invalid
    BY <1>1, <1>7, Zenon DEF Bad
  <2>2. m \in 0 .. Len(done) /\ m + 1 \in m .. Len(done) + 1
    BY <1>1, <1>3
  <2>. QED BY <1>1, <1>2, <2>1, <2>2, FaultlessMore, Zenon DEF s
<1>8. ReadTo(j, b, s)
  BY Zenon DEF s, b
<1>. HIDE DEF w
<1>9. Progress(j, b, p, w, "going", s, m + 1)
  <2>1. "going" # "threw" /\ "going" # "done"
    OBVIOUS
  <2>. QED BY <1>1, <1>4, <1>5, <1>6, <1>7, <1>8, <2>1, Zenon DEF Progress
<1>. QED BY <1>9, Zenon DEF s, b, w

LEMMA HeldIsPoint ==
  ASSUME NEW c, NEW lax, Legal(c, lax)
  PROVE  Held(c) \in Points
<1>1. CASE c = Invalid
  BY <1>1, ReplacementIs, Zenon DEF Held
<1>2. CASE c # Invalid
  BY <1>2, Zenon DEF Held, Legal, Clean
<1>. QED BY <1>1, <1>2

(* The decoder of a decode_encode puts it into the mini buffer.            *)
LEMMA PutAside ==
  ASSUME NEW j, IsJob(j), NEW a, NEW p, NEW t, NEW done, NEW m,
         Progress(j, a, p, t, "going", done, m), ~HasTranscoder(j.from, j.to),
         NEW u, NEW c, Legal(c, j.lax), ReadTo(j, a + u, Append(done, c)),
         j.stop => c # Invalid
  PROVE  Progress(j, a + u, Append(p, Held(c)), t, "going", Append(done, c), m)
<1>. DEFINE C == Chars(j.lax)
            s == Append(done, c)
            b == a + u
            h == Held(c)
            q == Append(p, h)
<1>1. /\ ReadTo(j, a, done) /\ m \in 0 .. Len(done) /\ p \in Seq(Points)
      /\ Apart(j.to, CharsOf(j)) => Copied(j.to, j.lax, t, done, m)
      /\ j.stop => Faultless(j, done, m)
      /\ Awaiting(p, done, m)
  BY Zenon DEF Progress
<1>2. done \in Seq(C) /\ c \in C /\ h \in Points
  BY <1>1, LegalIsChar, HeldIsPoint, Zenon DEF ReadTo
<1>3. /\ s \in Seq(C) /\ Len(s) = Len(done) + 1 /\ s[Len(done) + 1] = c
      /\ Len(done) \in Nat /\ m \in Nat /\ m <= Len(done)
      /\ \A i \in 1 .. Len(done) : s[i] = done[i]
  BY <1>1, <1>2
<1>. HIDE DEF h
<1>4. /\ q \in Seq(Points) /\ Len(q) = Len(p) + 1 /\ q[Len(p) + 1] = h /\ Len(p) \in Nat
      /\ \A i \in 1 .. Len(p) : q[i] = p[i]
  BY <1>1, <1>2
<1>. HIDE DEF s, b, C, q
<1>5. m \in 0 .. Len(s) /\ \A i \in 1 .. m : done[i] = s[i]
  BY <1>3
<1>6. ASSUME Apart(j.to, CharsOf(j)) PROVE Copied(j.to, j.lax, t, s, m)
  BY <1>1, <1>5, <1>6, CopiedSame, Zenon
<1>7. Awaiting(q, s, m)
  <2>1. Len(done) = m + Len(p) /\ \A i \in 1 .. Len(p) : p[i] = Held(done[m + i])
    BY <1>1, Zenon DEF Awaiting
  <2>2. Len(s) = m + Len(q) /\ m + (Len(p) + 1) = Len(done) + 1
    BY <1>3, <1>4, <2>1
  <2>3. ASSUME NEW i \in 1 .. Len(q) PROVE q[i] = Held(s[m + i])
    <3>1. CASE i \in 1 .. Len(p)
      <4>1. m + i \in 1 .. Len(done)
        BY <1>3, <1>4, <2>1, <3>1
      <4>. QED BY <1>3, <1>4, <2>1, <3>1, <4>1, Zenon
    <3>2. CASE i \notin 1 .. Len(p)
      <4>1. i = Len(p) + 1
        BY <1>4, <3>2
      <4>. QED BY <1>3, <1>4, <2>2, <4>1, Zenon DEF h
    <3>. QED BY <3>1, <3>2
  <2>. QED BY <2>2, <2>3 DEF Awaiting
<1>8. ASSUME j.stop PROVE Faultless(j, s, m)
  <2>1. m \in m .. Len(done) + 1 /\ c # Invalid
    BY <1>3, <1>8
  <2>. QED BY <1>1, <1>2, <1>8, <2>1, FaultlessMore, Zenon DEF s
<1>9. ReadTo(j, b, s)
  BY Zenon DEF s, b
<1>10. Progress(j, b, q, t, "going", s, m)
  <2>1. "going" # "threw" /\ "going" # "done"
    OBVIOUS
  <2>. QED BY <1>1, <1>4, <1>5, <1>6, <1>7, <1>8, <1>9, <2>1, Zenon DEF Progress
<1>. QED BY <1>10, Zenon DEF s, b, q, h

(* An exception.                                                           *)
LEMMA Stopped ==
  ASSUME NEW j, NEW a, NEW p, NEW t, NEW done, NEW m,
         Progress(j, a, p, t, "going", done, m), HasCause(j, m)
  PROVE  Progress(j, a, p, t, "threw", done, m)
<1>1. "threw" \notin {"going", "done"} /\ "threw" # "done"
  OBVIOUS
<1>. QED BY <1>1, Zenon DEF Progress

(* Each that is pending, and what is done with it.                         *)
LEMMA HeldParts ==
  ASSUME NEW j, IsJob(j), NEW done \in Seq(Chars(j.lax)), NEW p \in Seq(Points),
         NEW m \in Nat, Awaiting(p, done, m), NEW i \in 1 .. Len(p)
  PROVE  /\ Written(j.to, p[i]) = Encoded(j.to, Becomes(j.to, done[m + i]))
         /\ m + i \in 1 .. Len(done)
         /\ done[m + i] # Invalid => (IsError(j.to, p[i]) <=> Bad(j, done[m + i]))
<1>1. p[i] = Held(done[m + i]) /\ p[i] \in Points /\ m + i \in 1 .. Len(done)
  BY DEF Awaiting
<1>2. j.to \in Encodings /\ p[i] \in Points \cup {Invalid}
  BY <1>1, IsJobParts
<1>3. Written(j.to, p[i]) = Encoded(j.to, Becomes(j.to, p[i]))
  BY <1>2, WrittenIs, Zenon
<1>4. Becomes(j.to, p[i]) = Becomes(j.to, done[m + i])
  BY <1>1, <1>2, BecomesHeld, Zenon
<1>5. ASSUME done[m + i] # Invalid PROVE IsError(j.to, p[i]) <=> Bad(j, done[m + i])
  <2>1. p[i] = done[m + i]
    BY <1>1, <1>5, Zenon DEF Held
  <2>. QED BY <1>2, <2>1, ErrorIs, Zenon DEF Bad
<1>. QED BY <1>1, <1>3, <1>4, <1>5, Zenon

(* The encoder writes those that are pending, up to one it must stop at.   *)
LEMMA Flushed ==
  ASSUME NEW j, IsJob(j), NEW a, NEW p, NEW t, NEW done, NEW m, NEW n \in 0 .. Len(p),
         Progress(j, a, p, t, "going", done, m), p # <<>>, NEW s,
         NEW out, out = [i \in 1 .. n |-> Written(j.to, p[i])],
         j.stop => \A i \in 1 .. n : ~IsError(j.to, p[i]),
         \/ s = "going" /\ n = Len(p)
         \/ s = "threw" /\ n + 1 <= Len(p) /\ j.stop /\ IsError(j.to, p[n + 1])
  PROVE  Progress(j, a, <<>>, t \o FlattenSeq(out), s, done, m + n)
<1>. DEFINE C == Chars(j.lax)
            w == t \o FlattenSeq(out)
<1>1. /\ ReadTo(j, a, done) /\ m \in 0 .. Len(done) /\ p \in Seq(Points)
      /\ Apart(j.to, CharsOf(j)) => Copied(j.to, j.lax, t, done, m)
      /\ j.stop => Faultless(j, done, m)
      /\ Awaiting(p, done, m) /\ ~HasTranscoder(j.from, j.to)
  BY Zenon DEF Progress
<1>2. /\ done \in Seq(C) /\ j.to \in Encodings /\ j.lax \in BOOLEAN
      /\ Len(CharsOf(j)) \in Nat /\ Len(done) <= Len(CharsOf(j))
      /\ \A i \in 1 .. Len(done) : done[i] = CharsOf(j)[i]
  BY <1>1, IsJobParts, ReadToFacts, Zenon DEF ReadTo
<1>3. /\ n \in Nat /\ m \in Nat /\ Len(p) \in Nat /\ Len(done) \in Nat
      /\ Len(done) = m + Len(p) /\ m + n \in 0 .. Len(done) /\ m + n <= Len(done)
      /\ \A i \in 1 .. n : i \in 1 .. Len(p)
  BY <1>1, <1>2 DEF Awaiting
<1>4. \A i \in 1 .. Len(p) :
        /\ Written(j.to, p[i]) = Encoded(j.to, Becomes(j.to, done[m + i]))
        /\ m + i \in 1 .. Len(done)
        /\ done[m + i] # Invalid => (IsError(j.to, p[i]) <=> Bad(j, done[m + i]))
  BY <1>1, <1>2, <1>3, HeldParts, Zenon
<1>5. ASSUME Apart(j.to, CharsOf(j)) PROVE Copied(j.to, j.lax, w, done, m + n)
  <2>1. DOMAIN out = 1 .. n /\ out = [i \in 1 .. n |-> out[i]]
    OBVIOUS
  <2>2. \A i \in 1 .. n : out[i] = Encoded(j.to, Becomes(j.to, done[m + i]))
    BY <1>3, <1>4, Zenon
  <2>3. Apart(j.to, done) /\ Copied(j.to, j.lax, t, done, m)
    BY <1>1, <1>5, ApartBegins, Zenon
  <2>. QED BY <1>2, <1>3, <2>1, <2>2, <2>3, CopyMany, Zenon
<1>6. ASSUME j.stop PROVE Faultless(j, done, m + n)
  <2>1. ASSUME NEW i \in 1 .. m + n PROVE ~Bad(j, done[i])
    <3>1. CASE i \in 1 .. m
      BY <1>1, <1>6, <3>1, Zenon DEF Faultless
    <3>2. CASE i \notin 1 .. m
      <4>1. PICK k \in 1 .. n : i = m + k
        <5>1. i - m \in 1 .. n /\ i = m + (i - m)
          BY <1>3, <3>2
        <5>. QED BY <5>1
      <4>2. k \in 1 .. Len(p) /\ m + k \in 1 .. Len(done) /\ ~IsError(j.to, p[k])
        BY <1>3, <1>4, <1>6, <4>1, Zenon
      <4>3. done[m + k] # Invalid
        BY <1>1, <1>6, <4>2, Zenon DEF Faultless
      <4>. QED BY <1>4, <4>1, <4>2, <4>3, Zenon
    <3>. QED BY <3>1, <3>2
  <2>. QED BY <1>1, <1>6, <2>1 DEF Faultless
<1>7. ASSUME s = "going" PROVE Awaiting(<<>>, done, m + n)
  BY <1>3, <1>7 DEF Awaiting
<1>8. ASSUME s = "threw" PROVE HasCause(j, m + n)
  <2>1. n + 1 <= Len(p) /\ j.stop /\ IsError(j.to, p[n + 1])
    BY <1>8
  <2>2. n + 1 \in 1 .. Len(p)
    BY <1>3, <2>1
  <2>3. m + (n + 1) \in 1 .. Len(done) /\ m + (n + 1) \in 1 .. Len(CharsOf(j))
    BY <1>2, <1>3, <2>2
  <2>4. Bad(j, done[m + (n + 1)])
    <3>1. done[m + (n + 1)] # Invalid
      BY <1>1, <2>1, <2>3, Zenon DEF Faultless
    <3>. QED BY <1>4, <2>1, <2>2, <3>1, Zenon
  <2>5. Bad(j, CharsOf(j)[m + (n + 1)])
    BY <1>2, <2>3, <2>4, Zenon
  <2>. QED BY <1>1, <2>1, <2>3, <2>5, Zenon DEF HasCause
<1>9. <<>> \in Seq(Points) /\ s # "done" /\ (s \in {"going", "done"} => s = "going")
  OBVIOUS
<1>. HIDE DEF w
<1>10. Progress(j, a, <<>>, w, s, done, m + n)
  BY <1>1, <1>3, <1>5, <1>6, <1>7, <1>8, <1>9, Zenon DEF Progress
<1>. QED BY <1>10 DEF w

(* All is read, and nothing pending.                                       *)
LEMMA Ended ==
  ASSUME NEW j, IsJob(j), NEW a, NEW t, NEW done, NEW m,
         Progress(j, a, <<>>, t, "going", done, m), a > Len(j.src)
  PROVE  Progress(j, a, <<>>, t, "done", done, m)
<1>1. a = Len(j.src) + 1
  <2>1. a \in 1 .. Len(j.src) + 1
    BY Zenon DEF Progress, ReadTo
  <2>. QED BY <2>1, IsJobParts
<1>2. "done" # "threw" /\ "done" \in {"going", "done"} /\ "going" \in {"going", "done"}
  OBVIOUS
<1>. QED BY <1>1, <1>2, Zenon DEF Progress

LEMMA JobIsJob == JobOK <=> IsJob(job)
  BY Zenon DEF JobOK, IsJob

(* The invariant holds in the beginning, and each action keeps it.         *)
LEMMA TextBeginsInv ==
  ASSUME JobOK, TextBegins
  PROVE  TextInv
<1>. DEFINE j == job
<1>1. at = 1 /\ pending = <<>> /\ text = <<>> /\ status = "going"
  BY Zenon DEF TextBegins
<1>2. IsJob(j)
  BY JobIsJob
<1>. HIDE DEF j
<1>3. ReadTo(j, 1, <<>>)
  <2>1. From(j.src, 1) = j.src /\ 1 \in 1 .. Len(j.src) + 1
    <3>. DEFINE src == j.src
                A == Units(j.from)
    <3>1. src \in Seq(A)
      BY <1>2, IsJobParts, Zenon
    <3>. HIDE DEF src, A
    <3>2. From(src, 1) = src /\ 1 \in 1 .. Len(src) + 1
      BY <3>1 DEF From
    <3>. QED BY <3>2 DEF src
  <2>2. CharsOf(j) \in Seq(Chars(j.lax))
    BY <1>2, IsJobParts, CharactersStep, Zenon DEF CharsOf
  <2>3. \A A : \A s \in Seq(A) : <<>> \o s = s /\ <<>> \in Seq(A)
    OBVIOUS
  <2>4. <<>> \o CharsOf(j) = CharsOf(j) /\ <<>> \in Seq(Chars(j.lax))
    BY <2>2, <2>3, Zenon
  <2>. QED BY <2>1, <2>4, Zenon DEF ReadTo, CharsOf
<1>4. Copied(j.to, j.lax, <<>>, <<>>, 0)
  <2>1. Shown(j.to, <<>>, 0) = <<>>
    BY DEF Shown
  <2>2. Reads(j.to, j.lax, <<>>, <<>>)
    BY <1>2, IsJobParts, ReadsNothing, Zenon
  <2>. QED BY <2>1, <2>2, Zenon DEF Copied
<1>5. Awaiting(<<>>, <<>>, 0) /\ Faultless(j, <<>>, 0) /\ 0 \in 0 .. Len(<<>>) /\ Len(<<>>) = 0
      /\ <<>> \in Seq(Points)
  BY DEF Awaiting, Faultless
<1>6. Progress(j, 1, <<>>, <<>>, "going", <<>>, 0)
  <2>1. "going" # "threw" /\ "going" # "done"
    OBVIOUS
  <2>. QED BY <1>3, <1>4, <1>5, <2>1, Zenon DEF Progress
<1>. QED BY <1>1, <1>6, Zenon DEF TextInv, j

LEMMA TextInitInv ==
  ASSUME TextInit
  PROVE  TextInv
<1>1. JobOK
  BY SizeInit DEF SizeInv
<1>. QED BY <1>1, TextBeginsInv DEF TextInit

(* What a transcoder is about to read is the next character.               *)
LEMMA NextRead ==
  ASSUME JobOK, ~Ambiguous, NEW done, ReadTo(job, at, done), More,
         NEW to \in Encodings, HasTranscoder(job.from, to)
  PROVE  LET r == ReadFront(job.from, to, Rest, job.after, job.lax)
         IN /\ Legal(r.point, job.lax) /\ r.point \in Points \cup {Invalid}
            /\ ReadTo(job, at + r.units, Append(done, r.point))
            /\ Len(done) + 1 <= Len(CharsOf(job)) /\ CharsOf(job)[Len(done) + 1] = r.point
<1>. DEFINE j == job
            f == From(j.src, at)
            r == ReadFront(job.from, to, Rest, job.after, job.lax)
            ch == Character(j.from, f, j.lax)
<1>1. IsJob(j) /\ at <= Len(j.src) /\ Rest = f
  BY JobIsJob, Zenon DEF More, Rest, From
<1>2. at \in 1 .. Len(j.src)
  <2>1. at \in 1 .. Len(j.src) + 1
    BY Zenon DEF ReadTo
  <2>. QED BY <1>1, <2>1, IsJobParts
<1>3. f \in Seq(Units(j.from)) /\ f # <<>>
  BY <1>1, <1>2, IsJobParts, RestOf, Zenon
<1>4. ~Unclear(j.from, "utf8", f, j.after)
  BY <1>2, UnambiguousPlaces, Zenon
<1>5. r.units = ch[1] /\ r.point = ch[2]
  BY <1>1, <1>3, <1>4, IsJobParts, ReadIsCharacter, Zenon
<1>6. /\ ReadTo(j, at + ch[1], Append(done, ch[2])) /\ Legal(ch[2], j.lax)
      /\ Len(done) + 1 <= Len(CharsOf(j)) /\ CharsOf(j)[Len(done) + 1] = ch[2]
  BY <1>1, Onward, Zenon
<1>. HIDE DEF r, ch
<1>7. r.point \in Points \cup {Invalid}
  BY <1>5, <1>6 DEF Legal, Clean
<1>. QED BY <1>5, <1>6, <1>7, Zenon DEF r

LEMMA TextConvert == TextInv /\ Convert => TextInv'
<1>. SUFFICES ASSUME TextInv, Convert PROVE TextInv'
  OBVIOUS
<1>. DEFINE r == ReadFront(job.from, job.to, Rest, job.after, job.lax)
            c == r.point
            u == r.units
<1>1. /\ More /\ HasTranscoder(job.from, job.to) /\ job' = job /\ pending' = pending
      /\ status = "going"
      /\ \/ job.stop /\ IsError(job.to, c) /\ status' = "threw" /\ at' = at /\ text' = text
         \/ /\ ~(job.stop /\ IsError(job.to, c)) /\ status' = status
            /\ at' = at + u /\ text' = text \o Written(job.to, c)
  BY Zenon DEF Convert, More
<1>2. JobOK /\ IsJob(job) /\ JobOK' /\ (Ambiguous' <=> Ambiguous)
  BY <1>1, JobIsJob, Zenon DEF TextInv, JobOK, Ambiguous
<1>. SUFFICES ASSUME ~Ambiguous
              PROVE  \E d, k : Progress(job, at', pending, text', status', d, k)
  BY <1>1, <1>2, Zenon DEF TextInv
<1>3. PICK done, m : Progress(job, at, pending, text, "going", done, m)
  BY <1>1, Zenon DEF TextInv
<1>4. /\ Legal(c, job.lax) /\ c \in Points \cup {Invalid}
      /\ ReadTo(job, at + u, Append(done, c))
      /\ Len(done) + 1 <= Len(CharsOf(job)) /\ CharsOf(job)[Len(done) + 1] = c
  BY <1>1, <1>2, <1>3, IsJobParts, NextRead, Zenon DEF Progress
<1>5. /\ IsError(job.to, c) <=> Bad(job, c)
      /\ Written(job.to, c) = Encoded(job.to, Becomes(job.to, c))
  BY <1>2, <1>4, IsJobParts, ErrorIs, WrittenIs, Zenon DEF Bad
<1>. HIDE DEF r, c, u
<1>6. CASE /\ ~(job.stop /\ IsError(job.to, c)) /\ status' = status
           /\ at' = at + u /\ text' = text \o Written(job.to, c)
  <2>1. Progress(job, at + u, pending, text \o Encoded(job.to, Becomes(job.to, c)), "going",
                 Append(done, c), m + 1)
    BY <1>1, <1>2, <1>3, <1>4, <1>5, <1>6, Converted, Zenon
  <2>. QED BY <1>1, <1>5, <1>6, <2>1, Zenon
<1>7. CASE job.stop /\ IsError(job.to, c) /\ status' = "threw" /\ at' = at /\ text' = text
  <2>1. m = Len(done)
    BY <1>1, <1>3, Zenon DEF Progress
  <2>2. m + 1 \in 1 .. Len(CharsOf(job)) /\ m + 1 <= Len(CharsOf(job))
    <3>1. ReadTo(job, at, done)
      BY <1>3, Zenon DEF Progress
    <3>2. Len(done) \in Nat /\ Len(CharsOf(job)) \in Nat
      BY <1>2, <3>1, ReadToFacts, Zenon
    <3>. QED BY <1>4, <2>1, <3>2
  <2>3. HasCause(job, m)
    BY <1>4, <1>5, <1>7, <2>1, <2>2, Zenon DEF HasCause
  <2>. QED BY <1>3, <1>7, <2>3, Stopped, Zenon
<1>. QED BY <1>1, <1>6, <1>7, Zenon

LEMMA TextBuffer == TextInv /\ Buffer => TextInv'
<1>. SUFFICES ASSUME TextInv, Buffer PROVE TextInv'
  OBVIOUS
<1>. DEFINE r == ReadFront(job.from, "utf32", Rest, job.after, job.lax)
            c == r.point
            u == r.units
<1>1. /\ More /\ ~HasTranscoder(job.from, job.to) /\ job' = job /\ text' = text
      /\ status = "going"
      /\ \/ c = Invalid /\ job.stop /\ status' = "threw" /\ at' = at /\ pending' = pending
         \/ /\ ~(c = Invalid /\ job.stop) /\ status' = status
            /\ at' = at + u /\ pending' = Append(pending, Written("utf32", c)[1])
  BY Zenon DEF Buffer, More
<1>2. JobOK /\ IsJob(job) /\ JobOK' /\ (Ambiguous' <=> Ambiguous)
  BY <1>1, JobIsJob, Zenon DEF TextInv, JobOK, Ambiguous
<1>. SUFFICES ASSUME ~Ambiguous
              PROVE  \E d, k : Progress(job, at', pending', text, status', d, k)
  BY <1>1, <1>2, Zenon DEF TextInv
<1>3. PICK done, m : Progress(job, at, pending, text, "going", done, m)
  BY <1>1, Zenon DEF TextInv
<1>4. /\ Legal(c, job.lax) /\ c \in Points \cup {Invalid}
      /\ ReadTo(job, at + u, Append(done, c))
      /\ Len(done) + 1 <= Len(CharsOf(job)) /\ CharsOf(job)[Len(done) + 1] = c
  <2>1. "utf32" \in Encodings /\ HasTranscoder(job.from, "utf32")
    BY DEF Encodings, HasTranscoder
  <2>. QED BY <1>1, <1>2, <1>3, <2>1, NextRead, Zenon DEF Progress
<1>5. Written("utf32", c)[1] = Held(c)
  <2>. HIDE DEF c
  <2>1. CASE c = Invalid
    BY <2>1, Written32 DEF Held
  <2>2. CASE c # Invalid
    <3>1. c \in Nat
      BY <1>4, <2>2, PointsAreNat
    <3>. QED BY <2>2, <3>1, Written32 DEF Held
  <2>. QED BY <2>1, <2>2
<1>. HIDE DEF r, c, u
<1>6. CASE /\ ~(c = Invalid /\ job.stop) /\ status' = status
           /\ at' = at + u /\ pending' = Append(pending, Written("utf32", c)[1])
  <2>1. Progress(job, at + u, Append(pending, Held(c)), text, "going", Append(done, c), m)
    BY <1>1, <1>2, <1>3, <1>4, <1>6, PutAside, Zenon
  <2>. QED BY <1>1, <1>5, <1>6, <2>1, Zenon
<1>7. CASE c = Invalid /\ job.stop /\ status' = "threw" /\ at' = at /\ pending' = pending
  <2>1. Len(done) + 1 \in 1 .. Len(CharsOf(job))
    <3>1. ReadTo(job, at, done)
      BY <1>3, Zenon DEF Progress
    <3>2. Len(done) \in Nat /\ Len(CharsOf(job)) \in Nat
      BY <1>2, <3>1, ReadToFacts, Zenon
    <3>. QED BY <1>4, <3>2
  <2>2. HasCause(job, m)
    BY <1>1, <1>4, <1>7, <2>1, Zenon DEF HasCause, Bad
  <2>. QED BY <1>3, <1>7, <2>2, Stopped, Zenon
<1>. QED BY <1>1, <1>6, <1>7, Zenon

LEMMA TextFlush == TextInv /\ Flush => TextInv'
<1>. SUFFICES ASSUME TextInv, Flush PROVE TextInv'
  OBVIOUS
<1>. DEFINE bad == {i \in DOMAIN pending : job.stop /\ IsError(job.to, pending[i])}
            M   == Min({Len(pending) + 1} \cup bad)
            n   == M - 1
            out == [i \in 1 .. n |-> Written(job.to, pending[i])]
<1>1. /\ job' = job /\ at' = at /\ status = "going" /\ pending # <<>> /\ pending' = <<>>
      /\ text' = text \o FlattenSeq(out)
      /\ status' = IF bad = {} THEN "going" ELSE "threw"
  BY Zenon DEF Flush
<1>2. JobOK /\ IsJob(job) /\ JobOK' /\ (Ambiguous' <=> Ambiguous)
  BY <1>1, JobIsJob, Zenon DEF TextInv, JobOK, Ambiguous
<1>. SUFFICES ASSUME ~Ambiguous
              PROVE  \E d, k : Progress(job, at, <<>>, text', status', d, k)
  BY <1>1, <1>2, Zenon DEF TextInv
<1>3. PICK done, m : Progress(job, at, pending, text, "going", done, m)
  BY <1>1, Zenon DEF TextInv
<1>4. pending \in Seq(Points) /\ Len(pending) \in Nat /\ DOMAIN pending = 1 .. Len(pending)
  BY <1>3 DEF Progress
<1>5. M \in {Len(pending) + 1} \cup bad /\ \A y \in {Len(pending) + 1} \cup bad : M <= y
  <2>. DEFINE T == {Len(pending) + 1} \cup bad
  <2>1. T \subseteq Nat /\ T # {}
    BY <1>4
  <2>. HIDE DEF T
  <2>2. \E x \in T : \A y \in T : x <= y
    BY <2>1, Smallest, Zenon
  <2>3. Min(T) \in T /\ \A y \in T : Min(T) <= y
    BY <2>2, Zenon DEF Min
  <2>. QED BY <2>3, Zenon DEF T
<1>6. \A i \in 1 .. Len(pending) : i \in bad <=> job.stop /\ IsError(job.to, pending[i])
  BY <1>4
<1>7. bad \subseteq 1 .. Len(pending)
  BY <1>4
<1>. HIDE DEF bad, M
<1>8. n \in 0 .. Len(pending)
  BY <1>4, <1>5, <1>7
<1>9. job.stop => \A i \in 1 .. n : ~IsError(job.to, pending[i])
  <2>. SUFFICES ASSUME job.stop, NEW i \in 1 .. n, IsError(job.to, pending[i]) PROVE FALSE
    OBVIOUS
  <2>1. i \in 1 .. Len(pending) /\ ~(M <= i)
    BY <1>4, <1>5, <1>7
  <2>2. i \in bad
    BY <1>6, <2>1
  <2>. QED BY <1>5, <2>1, <2>2
<1>10. \/ status' = "going" /\ n = Len(pending)
       \/ status' = "threw" /\ n + 1 <= Len(pending) /\ job.stop /\ IsError(job.to, pending[n + 1])
  <2>1. CASE bad = {}
    <3>1. M = Len(pending) + 1
      BY <1>5, <2>1
    <3>2. n = Len(pending)
      BY <1>4, <3>1
    <3>. QED BY <1>1, <2>1, <3>2
  <2>2. CASE bad # {}
    <3>1. M \in bad
      <4>1. PICK x \in bad : x \in 1 .. Len(pending) /\ M <= x
        BY <1>5, <1>7, <2>2
      <4>2. M # Len(pending) + 1
        BY <1>4, <4>1
      <4>. QED BY <1>5, <4>2
    <3>2. n + 1 = M /\ M \in 1 .. Len(pending) /\ n + 1 <= Len(pending)
      BY <1>4, <1>7, <3>1
    <3>3. job.stop /\ IsError(job.to, pending[M])
      BY <1>6, <3>1, <3>2
    <3>4. status' = "threw"
      BY <1>1, <2>2
    <3>. HIDE DEF n
    <3>. QED BY <3>2, <3>3, <3>4, Zenon
  <2>. QED BY <2>1, <2>2
<1>11. out = [i \in 1 .. n |-> Written(job.to, pending[i])]
  OBVIOUS
<1>. HIDE DEF n, out
<1>12. Progress(job, at, <<>>, text \o FlattenSeq(out), status', done, m + n)
  BY <1>1, <1>2, <1>3, <1>8, <1>9, <1>10, <1>11, Flushed, Zenon
<1>. QED BY <1>1, <1>12, Zenon

LEMMA TextFinish == TextInv /\ Finish => TextInv'
<1>. SUFFICES ASSUME TextInv, Finish PROVE TextInv'
  OBVIOUS
<1>1. /\ job' = job /\ at' = at /\ pending' = pending /\ text' = text /\ pending = <<>>
      /\ status = "going" /\ status' = "done" /\ at > Len(job.src)
  BY Zenon DEF Finish
<1>2. JobOK /\ IsJob(job) /\ JobOK' /\ (Ambiguous' <=> Ambiguous)
  BY <1>1, JobIsJob, Zenon DEF TextInv, JobOK, Ambiguous
<1>3. ASSUME ~Ambiguous PROVE \E d, k : Progress(job, at, <<>>, text, "done", d, k)
  <2>1. PICK done, m : Progress(job, at, <<>>, text, "going", done, m)
    BY <1>1, <1>3, Zenon DEF TextInv
  <2>. QED BY <1>1, <1>2, <2>1, Ended, Zenon
<1>. QED BY <1>1, <1>2, <1>3, Zenon DEF TextInv

LEMMA TextStep == TextInv /\ [TextNext]_textVars => TextInv'
<1>. SUFFICES ASSUME TextInv, [TextNext]_textVars PROVE TextInv'
  OBVIOUS
<1>1. CASE UNCHANGED textVars
  <2>1. job' = job /\ at' = at /\ pending' = pending /\ text' = text /\ status' = status
    BY <1>1 DEF textVars
  <2>2. JobOK' /\ (Ambiguous' <=> Ambiguous)
    BY <2>1, Zenon DEF TextInv, JobOK, Ambiguous
  <2>. QED BY <2>1, <2>2, Zenon DEF TextInv
<1>2. CASE TextNext
  BY <1>2, TextConvert, TextBuffer, TextFlush, TextFinish, Zenon DEF TextNext
<1>. QED BY <1>1, <1>2

-----------------------------------------------------------------------------
LEMMA LegibleIs == Legible <=> Apart(job.to, CharsOf(job))
  BY Zenon DEF Legible, Apart, Characters, CharsOf, Meets

LEMMA WrongIs == \A c : Wrong(c) <=> Bad(job, c)
  BY Zenon DEF Wrong, Bad

(* What the destination has, in the characters of the source.              *)
LEMMA TextFacts ==
  ASSUME TextInv, ~Ambiguous
  PROVE  \E done, m :
           /\ Progress(job, at, pending, text, status, done, m) /\ IsJob(job)
           /\ ReadTo(job, at, done) /\ done \in Seq(Chars(job.lax)) /\ m \in 0 .. Len(done)
           /\ Legible => CharactersOf(job.to, text, job.lax) = Shown(job.to, done, m)
<1>1. PICK done, m : Progress(job, at, pending, text, status, done, m)
  BY Zenon DEF TextInv
<1>2. IsJob(job) /\ ReadTo(job, at, done) /\ done \in Seq(Chars(job.lax)) /\ m \in 0 .. Len(done)
  BY <1>1, JobIsJob, Zenon DEF TextInv, Progress, ReadTo
<1>3. ASSUME Legible PROVE CharactersOf(job.to, text, job.lax) = Shown(job.to, done, m)
  <2>1. Reads(job.to, job.lax, text, Shown(job.to, done, m))
    BY <1>1, <1>3, LegibleIs, Zenon DEF Progress, Copied
  <2>2. Shown(job.to, done, m) \in Seq(Chars(job.lax))
    BY <1>2, IsJobParts, ShownIs, Zenon
  <2>. QED BY <1>2, <2>1, <2>2, IsJobParts, ReadsAll, Zenon
<1>. QED BY <1>1, <1>2, <1>3, Zenon

(* The properties that follow from the invariant.                          *)
LEMMA TextRightFromInv == TextInv => TextRight
<1>. SUFFICES ASSUME TextInv, status = "done", Legible, ~Ambiguous
              PROVE  CharactersOf(job.to, text, job.lax)
                       = [i \in DOMAIN Characters |-> Becomes(job.to, Characters[i])]
  BY Zenon DEF TextRight
<1>1. PICK done, m :
           /\ Progress(job, at, pending, text, status, done, m) /\ IsJob(job)
           /\ ReadTo(job, at, done) /\ done \in Seq(Chars(job.lax)) /\ m \in 0 .. Len(done)
           /\ Legible => CharactersOf(job.to, text, job.lax) = Shown(job.to, done, m)
  BY TextFacts
<1>2. at = Len(job.src) + 1 /\ pending = <<>> /\ Awaiting(pending, done, m)
  BY <1>1, Zenon DEF Progress
<1>3. Characters = done
  BY <1>1, <1>2, ReadToFacts, Zenon DEF Characters, CharsOf
<1>4. m = Len(done) /\ DOMAIN done = 1 .. m
  BY <1>1, <1>2 DEF Awaiting
<1>. QED BY <1>1, <1>3, <1>4, Zenon DEF Shown

LEMMA StopsFromInv == TextInv => StopsAtInvalid
<1>. DEFINE got == CharactersOf(job.to, text, job.lax)
<1>. SUFFICES ASSUME TextInv, ~Ambiguous
     PROVE /\ status = "threw" => job.stop /\ \E i \in DOMAIN Characters : Wrong(Characters[i])
           /\ status = "done" /\ job.stop => \A i \in DOMAIN Characters : ~Wrong(Characters[i])
           /\ job.stop /\ Legible => IsPrefix(got, Characters)
           /\ status = "threw" /\ HasTranscoder(job.from, job.to) /\ Legible
                => Wrong(Characters[Len(got) + 1])
  BY Zenon DEF StopsAtInvalid
<1>1. PICK done, m :
           /\ Progress(job, at, pending, text, status, done, m) /\ IsJob(job)
           /\ ReadTo(job, at, done) /\ done \in Seq(Chars(job.lax)) /\ m \in 0 .. Len(done)
           /\ Legible => CharactersOf(job.to, text, job.lax) = Shown(job.to, done, m)
  BY TextFacts
<1>. DEFINE x == Characters
<1>2. /\ x \in Seq(Chars(job.lax)) /\ Len(x) \in Nat /\ Len(done) \in Nat
      /\ Len(done) <= Len(x)
      /\ \A i \in 1 .. Len(done) : done[i] = x[i]
      /\ at = Len(job.src) + 1 => x = done
  BY <1>1, ReadToFacts, Zenon DEF Characters, CharsOf
<1>3. DOMAIN x = 1 .. Len(x) /\ x = CharsOf(job)
  <2>1. x = CharsOf(job)
    BY Zenon DEF Characters, CharsOf
  <2>. HIDE DEF x
  <2>. QED BY <1>2, <2>1
<1>4. \A c : Wrong(c) <=> Bad(job, c)
  BY WrongIs
<1>. HIDE DEF x, got
<1>5. status = "threw" => job.stop /\ \E i \in DOMAIN x : Wrong(x[i])
  BY <1>1, <1>3, <1>4, Zenon DEF Progress, HasCause
<1>6. ASSUME status = "done", job.stop PROVE \A i \in DOMAIN x : ~Wrong(x[i])
  <2>1. x = done /\ Awaiting(<<>>, done, m) /\ Faultless(job, done, m)
    BY <1>1, <1>2, <1>6, Zenon DEF Progress
  <2>2. Len(done) = m
    BY <1>1, <2>1 DEF Awaiting
  <2>. QED BY <1>3, <1>4, <2>1, <2>2, Zenon DEF Faultless
<1>7. ASSUME Legible
      PROVE  /\ got = Shown(job.to, done, m) /\ got \in Seq(Chars(job.lax)) /\ Len(got) = m
             /\ \A i \in 1 .. m : got[i] = Becomes(job.to, done[i])
  <2>1. got = Shown(job.to, done, m)
    BY <1>1, <1>7, Zenon DEF got
  <2>2. job.to \in Encodings /\ job.lax \in BOOLEAN
    BY <1>1, IsJobParts
  <2>. DEFINE s == Shown(job.to, done, m)
  <2>3. s \in Seq(Chars(job.lax)) /\ Len(s) = m
    BY <1>1, <2>2, ShownIs, Zenon
  <2>4. \A i \in 1 .. m : s[i] = Becomes(job.to, done[i])
    BY <1>1, <2>2, ShownIs, Zenon
  <2>. HIDE DEF s
  <2>. QED BY <2>1, <2>3, <2>4, Zenon DEF s
<1>8. ASSUME job.stop, Legible PROVE IsPrefix(got, x)
  <2>1. Faultless(job, done, m)
    BY <1>1, <1>8, Zenon DEF Progress
  <2>2. \A i \in 1 .. m : Becomes(job.to, done[i]) = done[i]
    BY <2>1, Zenon DEF Faultless, Bad, Becomes
  <2>3. m \in Nat /\ m <= Len(x) /\ \A i \in 1 .. m : i \in 1 .. Len(done)
    BY <1>1, <1>2
  <2>4. \A i \in 1 .. m : got[i] = x[i]
    BY <1>2, <1>7, <1>8, <2>2, <2>3, Zenon
  <2>5. SubSeq(got, 1, m) = SubSeq(x, 1, m)
    <3>. DEFINE C == Chars(job.lax)
                a == SubSeq(got, 1, m)
                b == SubSeq(x, 1, m)
    <3>1. got \in Seq(C) /\ Len(got) = m /\ x \in Seq(C)
      BY <1>2, <1>7, <1>8
    <3>. HIDE DEF C
    <3>2. a \in Seq(C) /\ Len(a) = m /\ \A i \in 1 .. m : a[i] = got[i]
      BY <2>3, <3>1
    <3>3. b \in Seq(C) /\ Len(b) = m /\ \A i \in 1 .. m : b[i] = x[i]
      BY <2>3, <3>1
    <3>. HIDE DEF a, b
    <3>4. a = b
      BY <2>4, <3>2, <3>3, SeqEqual
    <3>. QED BY <3>4 DEF a, b
  <2>. QED BY <1>7, <1>8, <2>3, <2>5, Zenon DEF IsPrefix
<1>9. ASSUME status = "threw", HasTranscoder(job.from, job.to), Legible
      PROVE  Wrong(x[Len(got) + 1])
  BY <1>1, <1>3, <1>4, <1>7, <1>9, Zenon DEF Progress, HasCause
<1>. QED BY <1>5, <1>6, <1>8, <1>9, Zenon DEF x

-----------------------------------------------------------------------------
(* codepoints_count counts, from every place on where the rest is valid,   *)
(* one for the character there and then those after it.                    *)
Valid(x) == \A i \in DOMAIN x : x[i] # Invalid

CountsOne(c, enc, s, lax) ==
  /\ c \in [1 .. Len(s) + 1 -> Nat] /\ c[Len(s) + 1] = 0
  /\ \A i \in 1 .. Len(s) :
       LET ch == Character(enc, From(s, i), lax)
       IN ch[2] # Invalid => c[i] = 1 + c[i + ch[1]]

(* A character, and those after it.                                        *)
LEMMA OneAndMore ==
  ASSUME NEW A, NEW a \in A, NEW x \in Seq(A)
  PROVE  /\ <<a>> \o x \in Seq(A) /\ Len(<<a>> \o x) = 1 + Len(x) /\ Len(x) \in Nat
         /\ Valid(<<a>> \o x) => a # Invalid /\ Valid(x)
<1>. DEFINE y == <<a>> \o x
<1>1. /\ y \in Seq(A) /\ Len(y) = 1 + Len(x) /\ Len(x) \in Nat /\ y[1] = a
      /\ \A i \in 1 .. Len(x) : y[i + 1] = x[i]
  OBVIOUS
<1>. HIDE DEF y
<1>2. DOMAIN y = 1 .. Len(y) /\ DOMAIN x = 1 .. Len(x)
  BY <1>1
<1>3. 1 \in 1 .. Len(y) /\ \A i \in 1 .. Len(x) : i + 1 \in 1 .. Len(y)
  BY <1>1
<1>4. Valid(y) => a # Invalid /\ Valid(x)
  BY <1>1, <1>2, <1>3, Zenon DEF Valid
<1>. QED BY <1>1, <1>4 DEF y

(* What counts one for each valid character counts them all.               *)
LEMMA CountedSame ==
  ASSUME NEW enc \in Encodings, NEW s \in Seq(Units(enc)), NEW lax \in BOOLEAN,
         NEW f, Goes(f, enc, s, lax), NEW c, CountsOne(c, enc, s, lax)
  PROVE  Valid(f[1]) => Len(f[1]) = c[1]
<1>. DEFINE n == Len(s)
            C == Chars(lax)
            ch(i) == Character(enc, From(s, i), lax)
            S == {k \in Nat : \A i \in 1 .. n + 1 :
                    i >= n + 1 - k /\ Valid(f[i]) => Len(f[i]) = c[i]}
<1>1. n \in Nat
  OBVIOUS
<1>2. /\ f \in [1 .. n + 1 -> Seq(C)] /\ f[n + 1] = <<>>
      /\ \A i \in 1 .. n : f[i] = <<ch(i)[2]>> \o f[i + ch(i)[1]]
  BY Zenon DEF Goes
<1>3. /\ c \in [1 .. n + 1 -> Nat] /\ c[n + 1] = 0
      /\ \A i \in 1 .. n : ch(i)[2] # Invalid => c[i] = 1 + c[i + ch(i)[1]]
  BY Zenon DEF CountsOne
<1>4. ASSUME NEW i \in 1 .. n
      PROVE  ch(i)[1] \in Nat /\ ch(i)[1] >= 1 /\ i + ch(i)[1] \in 1 .. n + 1 /\ ch(i)[2] \in C
  <2>1. From(s, i) \in Seq(Units(enc)) /\ From(s, i) # <<>> /\ Len(From(s, i)) = n + 1 - i
    BY RestOf
  <2>2. Fits(ch(i), From(s, i), lax)
    BY <2>1, CharacterFits, Zenon
  <2>. HIDE DEF ch
  <2>3. /\ ch(i)[1] \in Nat /\ ch(i)[1] >= 1 /\ ch(i)[1] <= Len(From(s, i))
        /\ Legal(ch(i)[2], lax)
    BY <2>2, Zenon DEF Fits
  <2>4. i + ch(i)[1] \in 1 .. n + 1
    BY <1>1, <2>1, <2>3
  <2>. QED BY <2>3, <2>4, LegalIsChar, Zenon
<1>. HIDE DEF ch, C
<1>5. 0 \in S
  <2>1. \A i \in 1 .. n + 1 : i >= n + 1 - 0 => i = n + 1
    BY <1>1
  <2>2. Len(f[n + 1]) = c[n + 1]
    BY <1>2, <1>3
  <2>. QED BY <2>1, <2>2
<1>6. ASSUME NEW k \in Nat, k \in S PROVE k + 1 \in S
  <2>1. ASSUME NEW i \in 1 .. n + 1, i >= n + 1 - (k + 1), Valid(f[i]) PROVE Len(f[i]) = c[i]
    <3>1. CASE i >= n + 1 - k
      BY <1>6, <2>1, <3>1
    <3>2. CASE i < n + 1 - k
      <4>. DEFINE j == i + ch(i)[1]
      <4>1. i \in 1 .. n
        BY <1>1, <3>2
      <4>2. j \in 1 .. n + 1 /\ j >= n + 1 - k
        BY <1>1, <1>4, <2>1, <4>1
      <4>3. f[i] = <<ch(i)[2]>> \o f[j] /\ f[j] \in Seq(C) /\ ch(i)[2] \in C
        BY <1>2, <1>4, <4>1, <4>2, Zenon
      <4>4. Len(f[i]) = 1 + Len(f[j]) /\ ch(i)[2] # Invalid /\ Valid(f[j])
        <5>. DEFINE a == ch(i)[2]
                    x == f[j]
        <5>1. f[i] = <<a>> \o x /\ x \in Seq(C) /\ a \in C
          BY <4>3
        <5>. HIDE DEF a, x
        <5>2. /\ Len(<<a>> \o x) = 1 + Len(x)
              /\ Valid(<<a>> \o x) => a # Invalid /\ Valid(x)
          BY <5>1, OneAndMore
        <5>3. Len(f[i]) = 1 + Len(x) /\ a # Invalid /\ Valid(x)
          BY <2>1, <5>1, <5>2, Zenon
        <5>. QED BY <5>3 DEF a, x
      <4>5. c[i] = 1 + c[j]
        BY <1>3, <4>1, <4>4, Zenon
      <4>. HIDE DEF j
      <4>6. Len(f[j]) = c[j]
        BY <1>6, <4>2, <4>4, Zenon
      <4>. QED BY <4>4, <4>5, <4>6
    <3>. QED BY <1>1, <3>1, <3>2
  <2>. HIDE DEF n
  <2>2. k + 1 \in Nat
    OBVIOUS
  <2>. QED BY <2>1, <2>2, Zenon
<1>. HIDE DEF S
<1>7. n \in S
  <2>1. \A k \in Nat : k \in S
    BY <1>5, <1>6, Induct
  <2>. QED BY <1>1, <2>1
<1>8. 1 \in 1 .. n + 1 /\ 1 >= n + 1 - n
  BY <1>1
<1>. QED BY <1>7, <1>8, Zenon DEF S

(* UTF-8: of the units of a whole sequence, the first alone is none that   *)
(* continues one.                                                          *)
LEMMA OneFirst8 ==
  ASSUME NEW s \in Seq(Bytes), s # <<>>, NEW lax \in BOOLEAN,
         Character8(s, lax)[2] # Invalid
  PROVE  LET n == Character8(s, lax)[1]
         IN /\ n \in Nat /\ n >= 1 /\ n <= Len(s) /\ ~Continuation(s[1])
            /\ \A i \in 2 .. n : Continuation(s[i])
<1>. DEFINE n == Taken(s, lax, Strict)
<1>. DEFINE r == Read8(s, lax, Strict)
<1>1. n = Character8(s, lax)[1] /\ IsWhole(s, lax, Strict)
  <2>1. Character8(s, lax) = <<r.units, r.point>>
    BY Character8Right, Zenon
  <2>2. r.units = n /\ r.point = IF IsWhole(s, lax, Strict) THEN Value8(SubSeq(s, 1, n)) ELSE Invalid
    BY Read8Parts, Zenon
  <2>. HIDE DEF r, n
  <2>3. Character8(s, lax)[1] = r.units /\ Character8(s, lax)[2] = r.point
    BY <2>1
  <2>. QED BY <2>2, <2>3, Zenon
<1>2. n \in 1 .. 4 /\ n <= Len(s) /\ (n > 1 => LeadOK(s[1], Strict))
  <2>1. Strict \in Nat
    BY SMT DEF Strict
  <2>. QED BY <2>1, TakenFits
<1>3. LeadOK(s[1], Strict)
  BY <1>1, Zenon DEF IsWhole
<1>4. s[1] \in Bytes
  OBVIOUS
<1>5. \A b \in Bytes : LeadOK(b, Strict) => ~Continuation(b)
  BY SMT DEF Bytes, LeadOK, Strict, Continuation
<1>6. \A i \in 2 .. n : Continuation(s[i])
  <2>1. Strict \in Nat
    BY SMT DEF Strict
  <2>2. n > 1 => SecondOK(s[1], s[2], lax) /\ \A i \in 3 .. n : Continuation(s[i])
    BY <2>1, TakenFits
  <2>3. n > 1 => Continuation(s[2])
    BY <2>2, Zenon DEF SecondOK
  <2>. HIDE DEF n
  <2>4. \A i \in 2 .. n : n > 1 /\ (i = 2 \/ i \in 3 .. n)
    BY <1>2
  <2>. QED BY <2>2, <2>3, <2>4, Zenon
<1>7. n \in Nat /\ n >= 1 /\ n <= Len(s) /\ ~Continuation(s[1])
  <2>. HIDE DEF n
  <2>1. n \in Nat /\ n >= 1 /\ n <= Len(s)
    BY <1>2
  <2>. QED BY <1>3, <1>4, <1>5, <2>1, Zenon
<1>. HIDE DEF n
<1>. QED BY <1>1, <1>6, <1>7, Zenon

(* So those units are as many as there are characters.                     *)
LEMMA From8 ==
  ASSUME NEW s \in Seq(Bytes), NEW lax \in BOOLEAN
  PROVE  \E c : CountsOne(c, "utf8", s, lax) /\ c[1] = CodepointsCount8(s)
<1>. DEFINE n == Len(s)
            T(i) == {k \in i .. n : ~Continuation(s[k])}
            c == [i \in 1 .. n + 1 |-> Cardinality(T(i))]
<1>1. n \in Nat /\ DOMAIN s = 1 .. n
  OBVIOUS
<1>2. ASSUME NEW i \in Nat PROVE IsFiniteSet(T(i)) /\ Cardinality(T(i)) \in Nat
  <2>1. IsFiniteSet(i .. n)
    BY <1>1, FS_Interval
  <2>2. T(i) \in SUBSET (i .. n)
    OBVIOUS
  <2>3. IsFiniteSet(T(i))
    BY <2>1, <2>2, FS_Subset
  <2>. QED BY <2>3, FS_CardinalityType
<1>3. T(n + 1) = {}
  BY <1>1
<1>4. c \in [1 .. n + 1 -> Nat] /\ c[n + 1] = 0
  <2>1. \A i \in 1 .. n + 1 : Cardinality(T(i)) \in Nat
    <3>. HIDE DEF T
    <3>1. \A i \in 1 .. n + 1 : i \in Nat
      BY <1>1
    <3>. QED BY <1>2, <3>1, Zenon
  <2>2. Cardinality(T(n + 1)) = 0
    BY <1>3, FS_EmptySet
  <2>. HIDE DEF T
  <2>. QED BY <1>1, <2>1, <2>2
<1>5. c[1] = CodepointsCount8(s)
  <2>1. c[1] = Cardinality(T(1))
    BY <1>1
  <2>2. CodepointsCount8(s) = Cardinality({k \in DOMAIN s : ~Continuation(s[k])})
    BY Zenon DEF CodepointsCount8
  <2>. HIDE DEF n
  <2>. QED BY <1>1, <2>1, <2>2
<1>6. ASSUME NEW i \in 1 .. n, Character("utf8", From(s, i), lax)[2] # Invalid
      PROVE  c[i] = 1 + c[i + Character("utf8", From(s, i), lax)[1]]
  <2>. DEFINE u == Character("utf8", From(s, i), lax)[1]
              r == From(s, i)
  <2>1. r \in Seq(Bytes) /\ r # <<>> /\ Len(r) = n + 1 - i
    BY RestOf
  <2>2. /\ u \in Nat /\ u >= 1 /\ u <= Len(r) /\ ~Continuation(r[1])
        /\ \A k \in 2 .. u : Continuation(r[k])
    <3>1. Character("utf8", r, lax) = Character8(r, lax)
      BY CharacterIs, Zenon
    <3>2. Character8(r, lax)[2] # Invalid
      BY <1>6, <3>1, Zenon
    <3>. DEFINE m == Character8(r, lax)[1]
    <3>. HIDE DEF r
    <3>3. /\ m \in Nat /\ m >= 1 /\ m <= Len(r) /\ ~Continuation(r[1])
          /\ \A k \in 2 .. m : Continuation(r[k])
      BY <2>1, <3>2, OneFirst8, Zenon
    <3>4. u = m
      BY <3>1 DEF r
    <3>. HIDE DEF u, m
    <3>. QED BY <3>3, <3>4, Zenon
  <2>3. \A k \in 1 .. Len(r) : r[k] = s[i + k - 1]
    BY <2>1 DEF From
  <2>. HIDE DEF u, r
  <2>4. i + u \in 1 .. n + 1
    BY <1>1, <2>1, <2>2
  <2>5. ~Continuation(s[i])
    <3>1. 1 \in 1 .. Len(r) /\ i + 1 - 1 = i
      BY <1>1, <2>1
    <3>. QED BY <2>2, <2>3, <3>1
  <2>6. ASSUME NEW k \in (i + 1) .. (i + u - 1) PROVE Continuation(s[k])
    <3>. DEFINE m == k - i + 1
    <3>1. m \in 2 .. u /\ m \in 1 .. Len(r) /\ i + m - 1 = k
      BY <1>1, <2>1, <2>2
    <3>. HIDE DEF m
    <3>2. Continuation(r[m]) /\ r[m] = s[i + m - 1]
      BY <2>2, <2>3, <3>1, Zenon
    <3>. QED BY <3>1, <3>2, Zenon
  <2>7. T(i) = T(i + u) \cup {i} /\ i \notin T(i + u)
    <3>1. \A k \in i .. n : k = i \/ k \in (i + 1) .. (i + u - 1) \/ k \in (i + u) .. n
      BY <1>1, <2>2
    <3>2. i \in i .. n /\ i \notin (i + u) .. n /\ (i + u) .. n \subseteq i .. n
      BY <1>1, <2>2
    <3>. QED BY <2>5, <2>6, <3>1, <3>2, Zenon
  <2>8. IsFiniteSet(T(i + u)) /\ Cardinality(T(i + u)) \in Nat
    <3>. HIDE DEF T
    <3>1. i + u \in Nat
      BY <1>1, <2>4
    <3>. QED BY <1>2, <3>1, Zenon
  <2>9. Cardinality(T(i)) = Cardinality(T(i + u)) + 1
    <3>. DEFINE A == T(i + u)
    <3>. HIDE DEF A
    <3>1. IsFiniteSet(A) /\ i \notin A
      BY <2>7, <2>8 DEF A
    <3>2. Cardinality(A \cup {i}) = Cardinality(A) + 1
      BY <3>1, FS_AddElement
    <3>. QED BY <2>7, <3>2 DEF A
  <2>10. c[i] = Cardinality(T(i)) /\ c[i + u] = Cardinality(T(i + u))
    BY <1>1, <2>4
  <2>. HIDE DEF T, c
  <2>. QED BY <2>8, <2>9, <2>10 DEF u
<1>. HIDE DEF c
<1>7. CountsOne(c, "utf8", s, lax)
  BY <1>4, <1>6, Zenon DEF CountsOne
<1>. QED BY <1>5, <1>7

(* UTF-16: where every surrogate is in a pair, a high one begins one.      *)
LEMMA From16 ==
  ASSUME NEW s \in Seq(Words)
  PROVE  \E c : CountsOne(c, "utf16", s, FALSE) /\ c[1] = CodepointsCount16(s)
<1>. DEFINE n == Len(s)
            z == [i \in 1 .. n + 1 |-> IF i > n THEN 0 ELSE 1]
            u == [i \in 1 .. n + 1 |-> IF i > n THEN 1 ELSE IF IsHigh(s[i]) THEN 2 ELSE 1]
            B(f) == [i \in 1 .. (n + 1) + 1 |-> IF i > n + 1 THEN 0 ELSE z[i] + f[i + u[i]]]
            C(f) == [i \in 1 .. n + 2 |->
                       IF i > n THEN 0 ELSE 1 + f[IF IsHigh(s[i]) THEN i + 2 ELSE i + 1]]
            g == CHOOSE f : f = C(f)
<1>1. n \in Nat /\ n + 1 \in Nat
  OBVIOUS
<1>2. /\ z \in [1 .. n + 1 -> Nat] /\ u \in [1 .. n + 1 -> Nat]
      /\ \A i \in 1 .. n + 1 : u[i] >= 1 /\ i + u[i] <= (n + 1) + 1
  BY <1>1
<1>3. \E f : f = B(f)
  <2>. HIDE DEF z, u, n
  <2>. DEFINE m == n + 1
  <2>. HIDE DEF m
  <2>1. \E f : f = [i \in 1 .. m + 1 |-> IF i > m THEN 0 ELSE z[i] + f[i + u[i]]]
    BY <1>1, <1>2, CountExists DEF m
  <2>. QED BY <2>1, Zenon DEF m
<1>4. ASSUME NEW f, f[n + 1] = 0, f[n + 2] = 0 PROVE B(f) = C(f)
  <2>1. ASSUME NEW i \in 1 .. n + 2
        PROVE  (IF i > n + 1 THEN 0 ELSE z[i] + f[i + u[i]])
                 = IF i > n THEN 0 ELSE 1 + f[IF IsHigh(s[i]) THEN i + 2 ELSE i + 1]
    <3>1. CASE i > n + 1
      BY <1>1, <3>1
    <3>2. CASE i = n + 1
      <4>1. z[i] = 0 /\ u[i] = 1 /\ i + 1 = n + 2 /\ i > n /\ ~(i > n + 1)
        BY <1>1, <3>2
      <4>. HIDE DEF z, u, n
      <4>. QED BY <1>4, <4>1
    <3>3. CASE i \in 1 .. n
      <4>1. z[i] = 1 /\ u[i] = (IF IsHigh(s[i]) THEN 2 ELSE 1) /\ ~(i > n) /\ ~(i > n + 1)
        BY <1>1, <3>3
      <4>2. i + u[i] = IF IsHigh(s[i]) THEN i + 2 ELSE i + 1
        BY <4>1
      <4>. HIDE DEF z, u, n
      <4>. QED BY <4>1, <4>2
    <3>. QED BY <1>1, <3>1, <3>2, <3>3
  <2>2. (n + 1) + 1 = n + 2
    BY <1>1
  <2>. HIDE DEF z, u, n
  <2>. QED BY <2>1, <2>2
<1>5. ASSUME NEW f, f = B(f) PROVE f[n + 1] = 0 /\ f[n + 2] = 0
  <2>. DEFINE m == n + 1
  <2>. HIDE DEF m, z, u
  <2>1. f = [i \in 1 .. m + 1 |-> IF i > m THEN 0 ELSE z[i] + f[i + u[i]]]
    BY <1>5 DEF m
  <2>2. f \in [1 .. m + 1 -> Nat] /\ f[m + 1] = 0 /\ \A i \in 1 .. m : f[i] = z[i] + f[i + u[i]]
    <3>. HIDE DEF n
    <3>1. /\ m \in Nat /\ z \in [1 .. m -> Nat] /\ u \in [1 .. m -> Nat]
          /\ \A i \in 1 .. m : u[i] >= 1 /\ i + u[i] <= m + 1
      BY <1>1, <1>2 DEF m
    <3>2. \A h : h = [i \in 1 .. m + 1 |-> IF i > m THEN 0 ELSE z[i] + h[i + u[i]]]
                 => /\ h \in [1 .. m + 1 -> Nat] /\ h[m + 1] = 0
                    /\ \A i \in 1 .. m : h[i] = z[i] + h[i + u[i]]
      BY <3>1, CountDown, Zenon
    <3>. QED BY <2>1, <3>2, Zenon
  <2>3. m + 1 = n + 2 /\ m \in 1 .. m
    BY <1>1 DEF m
  <2>4. z[m] = 0 /\ u[m] = 1
    BY <1>1 DEF m, z, u
  <2>5. f[m] = 0 + f[m + 1]
    BY <2>2, <2>3, <2>4
  <2>. QED BY <2>2, <2>3, <2>5 DEF m
<1>6. CodepointsCount16(s) = g[1]
  BY Zenon DEF CodepointsCount16
<1>7. g = C(g)
  <2>1. PICK f : f = B(f)
    BY <1>3
  <2>2. f[n + 1] = 0 /\ f[n + 2] = 0
    BY <1>5, <2>1
  <2>3. B(f) = C(f)
    BY <1>4, <2>2
  <2>. HIDE DEF B, C
  <2>4. \E h : h = C(h)
    BY <2>1, <2>3, Zenon
  <2>. HIDE DEF g
  <2>. QED BY <2>4, Zenon DEF g
<1>. HIDE DEF g
<1>8. g[n + 1] = 0 /\ g[n + 2] = 0
  <2>1. n + 1 \in 1 .. n + 2 /\ n + 2 \in 1 .. n + 2 /\ n + 1 > n /\ n + 2 > n
    BY <1>1
  <2>. HIDE DEF n
  <2>. QED BY <1>7, <2>1, Zenon
<1>9. ASSUME NEW i \in 1 .. n
      PROVE  g[i] = 1 + g[IF IsHigh(s[i]) THEN i + 2 ELSE i + 1]
  <2>1. i \in 1 .. n + 2 /\ ~(i > n)
    BY <1>1
  <2>. HIDE DEF n
  <2>. QED BY <1>7, <2>1, Zenon
<1>10. g \in [1 .. n + 2 -> Nat]
  <2>1. B(g) = C(g)
    BY <1>4, <1>8
  <2>. DEFINE m == n + 1
  <2>2. g = [i \in 1 .. m + 1 |-> IF i > m THEN 0 ELSE z[i] + g[i + u[i]]]
    <3>1. g = B(g)
      <4>. HIDE DEF B, C
      <4>. QED BY <1>7, <2>1, Zenon
    <3>. QED BY <3>1, Zenon
  <2>. HIDE DEF n, m, z, u
  <2>3. /\ m \in Nat /\ z \in [1 .. m -> Nat] /\ u \in [1 .. m -> Nat]
        /\ \A i \in 1 .. m : u[i] >= 1 /\ i + u[i] <= m + 1
    BY <1>1, <1>2 DEF m
  <2>4. g \in [1 .. m + 1 -> Nat]
    BY <2>2, <2>3, CountDown
  <2>5. m + 1 = n + 2
    BY <1>1 DEF m
  <2>. QED BY <2>4, <2>5
<1>. DEFINE c == [i \in 1 .. n + 1 |-> g[i]]
<1>11. /\ c \in [1 .. n + 1 -> Nat] /\ c[n + 1] = 0 /\ c[1] = g[1]
       /\ \A i \in 1 .. n + 1 : c[i] = g[i]
  BY <1>1, <1>8, <1>10
<1>12. ASSUME NEW i \in 1 .. n, Character("utf16", From(s, i), FALSE)[2] # Invalid
       PROVE  c[i] = 1 + c[i + Character("utf16", From(s, i), FALSE)[1]]
  <2>. DEFINE r == From(s, i)
              ch == Character("utf16", r, FALSE)
              pair == Len(r) > 1 /\ r[1] \in HighSurrogates /\ r[2] \in LowSurrogates
  <2>1. r \in Seq(Words) /\ r # <<>> /\ Len(r) = n + 1 - i /\ r[1] = s[i]
    BY RestOf
  <2>2. ch = Character16(r, FALSE)
    BY CharacterIs, Zenon
  <2>3. r[1] \in Nat
    <3>1. r[1] \in Words
      <4>. HIDE DEF r
      <4>. QED BY <2>1
    <3>. QED BY <3>1, WordsAreNat, Zenon
  <2>4. IsHigh(r[1]) <=> r[1] \in HighSurrogates
    BY <2>3, HighLowIs, Zenon
  <2>. HIDE DEF r, ch
  <2>5. CASE pair
    <3>1. ch[1] = 2
      <4>1. ch = <<2, Number16(r[1], r[2])>>
        BY <2>2, <2>5, Zenon DEF Character16
      <4>. QED BY <4>1
    <3>2. IsHigh(s[i]) /\ i + 2 \in 1 .. n + 1 /\ i \in 1 .. n + 1
      BY <1>1, <2>1, <2>4, <2>5
    <3>. HIDE DEF c, n
    <3>3. g[i] = 1 + g[i + 2]
      BY <1>9, <3>2, Zenon
    <3>. QED BY <1>11, <3>1, <3>2, <3>3 DEF ch, r
  <2>6. CASE ~pair
    <3>1. ch = <<1, IF r[1] \in Surrogates /\ ~FALSE THEN Invalid ELSE r[1]>>
      BY <2>2, <2>6, Zenon DEF Character16
    <3>2. ch[1] = 1 /\ r[1] \notin Surrogates
      <4>1. ch[2] # Invalid
        BY <1>12, Zenon DEF ch, r
      <4>. QED BY <3>1, <4>1
    <3>3. ~IsHigh(s[i]) /\ i + 1 \in 1 .. n + 1 /\ i \in 1 .. n + 1
      <4>1. r[1] \notin HighSurrogates
        BY <3>2, Zenon DEF Surrogates
      <4>. QED BY <1>1, <2>1, <2>4, <4>1
    <3>. HIDE DEF c, n
    <3>4. g[i] = 1 + g[i + 1]
      BY <1>9, <3>3, Zenon
    <3>. QED BY <1>11, <3>2, <3>3, <3>4 DEF ch, r
  <2>. QED BY <2>5, <2>6
<1>. HIDE DEF c
<1>13. CountsOne(c, "utf16", s, FALSE)
  BY <1>11, <1>12, Zenon DEF CountsOne
<1>. QED BY <1>6, <1>11, <1>13

(* UTF-32 and the single-byte encodings: every unit is a character.        *)
LEMMA FromOthers ==
  ASSUME NEW enc \in {"utf32"} \cup Charsets, NEW s \in Seq(Units(enc)), NEW lax \in BOOLEAN
  PROVE  \E c : CountsOne(c, enc, s, lax) /\ c[1] = Len(s)
<1>. DEFINE n == Len(s)
            c == [i \in 1 .. n + 1 |-> n + 1 - i]
<1>1. n \in Nat
  OBVIOUS
<1>2. c \in [1 .. n + 1 -> Nat] /\ c[n + 1] = 0 /\ c[1] = n
  BY <1>1
<1>3. \A x : Character(enc, x, lax)[1] = 1
  <2>1. \A x : Character("utf32", x, lax)[1] = 1
    <3>1. ASSUME NEW x PROVE Character32(x, lax)[1] = 1
      BY DEF Character32
    <3>2. \A x : Character("utf32", x, lax) = Character32(x[1], lax)
      BY CharacterIs
    <3>. QED BY <3>1, <3>2
  <2>2. ASSUME enc \in Charsets PROVE \A x : Character(enc, x, lax)[1] = 1
    <3>1. \A x : Character(enc, x, lax) = <<1, DecodeChar(enc, x[1])>>
      BY <2>2, CharacterIs
    <3>. QED BY <3>1
  <2>. QED BY <2>1, <2>2
<1>4. \A i \in 1 .. n : c[i] = 1 + c[i + 1]
  BY <1>1
<1>. HIDE DEF c
<1>5. CountsOne(c, enc, s, lax)
  BY <1>2, <1>3, <1>4, Zenon DEF CountsOne
<1>. QED BY <1>2, <1>5

(* The three together, for any limit of the count.                         *)
LEMMA CountIsLength ==
  ASSUME NEW enc \in Encodings, NEW s \in Seq(Units(enc)), NEW max,
         Valid(CharactersOf(enc, s, FALSE))
  PROVE  CodepointsCount(enc, s, max) = Lesser(max, Len(CharactersOf(enc, s, FALSE)))
<1>. DEFINE m == IF enc = "utf8" THEN CodepointsCount8(s)
                 ELSE IF enc = "utf16" THEN CodepointsCount16(s) ELSE Len(s)
<1>1. CodepointsCount(enc, s, max) = Lesser(max, m)
  <2>1. m = CASE enc = "utf8"  -> CodepointsCount8(s)
              [] enc = "utf16" -> CodepointsCount16(s)
              [] OTHER         -> Len(s)
    BY Zenon
  <2>. HIDE DEF m
  <2>. QED BY <2>1, Zenon DEF CodepointsCount
<1>2. \E c : CountsOne(c, enc, s, FALSE) /\ c[1] = m
  <2>1. CASE enc = "utf8"
    <3>1. Units(enc) = Bytes
      BY <2>1 DEF Units
    <3>. QED BY <2>1, <3>1, From8, Zenon
  <2>2. CASE enc = "utf16"
    <3>1. Units(enc) = Words
      BY <2>2 DEF Units
    <3>2. m = CodepointsCount16(s)
      BY <2>2
    <3>. HIDE DEF m
    <3>. QED BY <2>2, <3>1, <3>2, From16, Zenon
  <2>3. CASE enc \in {"utf32"} \cup Charsets
    <3>1. m = Len(s)
      BY <2>3 DEF Charsets
    <3>2. \E c : CountsOne(c, enc, s, FALSE) /\ c[1] = Len(s)
      BY <2>3, FromOthers, Zenon
    <3>. HIDE DEF m
    <3>. QED BY <3>1, <3>2, Zenon
  <2>. QED BY <2>1, <2>2, <2>3 DEF Encodings
<1>3. PICK c : CountsOne(c, enc, s, FALSE) /\ c[1] = m
  BY <1>2
<1>4. PICK f : Goes(f, enc, s, FALSE) /\ CharactersOf(enc, s, FALSE) = f[1]
  BY CharactersGo
<1>5. Len(f[1]) = c[1]
  <2>1. Valid(f[1])
    BY <1>4, Zenon
  <2>. QED BY <1>3, <1>4, <2>1, CountedSame, Zenon
<1>. QED BY <1>1, <1>3, <1>4, <1>5, Zenon

LEMMA CountRightFromInv == TextInv => CountRight
<1>. SUFFICES ASSUME TextInv, ~job.lax, \A i \in DOMAIN Characters : Characters[i] # Invalid,
                     NEW max \in 0 .. 3
              PROVE  CodepointsCount(job.from, job.src, max) = Lesser(max, Len(Characters))
  BY Zenon DEF CountRight
<1>1. JobOK
  BY Zenon DEF TextInv
<1>2. job.from \in Encodings /\ job.src \in Seq(Units(job.from)) /\ job.lax = FALSE
  BY <1>1, JobParts, Zenon
<1>3. Characters = CharactersOf(job.from, job.src, FALSE)
  BY <1>2, Zenon DEF Characters
<1>4. Valid(CharactersOf(job.from, job.src, FALSE))
  BY <1>3, Zenon DEF Valid
<1>. QED BY <1>2, <1>3, <1>4, CountIsLength, Zenon

-----------------------------------------------------------------------------
(* The two outbufs of decode_encode.                                       *)
USE MiniBufferAssumption

Decoded == Len(widths)    (* how many code points the decoder has read     *)
Handed == Len(encoded)    (* how many the encoder has given away           *)

EncoderTypeOK ==
  /\ stage \in {"idle", "decode", "encode", "resume", "finish", "done", "throw"}
  /\ mini \in [0 .. MiniSize - 1 -> Nat] /\ mpos \in 0 .. MiniSize /\ mgood \in BOOLEAN
  /\ batch \in Seq(Nat) /\ held \in Nat
  /\ widths \in Seq(1 .. MaxUnit) /\ units \in Nat /\ encoded \in Seq(Nat)

(* Which of the two loops runs, and what it may rely on: the encoder has   *)
(* something to encode only while the destination is good, or has just     *)
(* become bad in a recycle() that the encoder has not looked at yet.       *)
ControlState ==
  /\ pc \in IF Encoding THEN {"idle", "transcode", "recycle", "emit"} ELSE {"idle"}
  /\ pc = "recycle" => ret = "emit"
  /\ stage \in {"idle", "decode", "resume"} => mgood
  /\ stage \in {"idle", "decode", "resume", "done"} => batch = <<>>
  /\ stage \in {"encode", "resume"} => mpos = 0 /\ held = Decoded
  /\ Encoding /\ batch # <<>> /\ pc # "emit" => good

(* What is being encoded comes next after what was, in the source's order. *)
InOrder ==
  /\ encoded = Prefix(Handed)
  /\ batch = [i \in 1 .. Len(batch) |-> Handed + i]
  /\ Handed + Len(batch) <= Decoded
  /\ Len(batch) <= MiniSize

(* Where every code point is that was decoded, while the destination is    *)
(* good: handed over, in the mini buffer, in the batch, or held.           *)
Accounted ==
  good =>
    /\ stage \in {"idle", "decode"} =>
         /\ Decoded = Handed + mpos
         /\ \A i \in 0 .. mpos - 1 : mini[i] = Handed + i + 1
    /\ stage \in {"encode", "resume"} => Decoded = Handed + Len(batch) + 1
    /\ stage \in {"finish", "done"} => Decoded = Handed + Len(batch)
    /\ stage = "throw" => Decoded <= Handed + MiniSize + 1

(* u is the sum of the numbers of ws, and a that of the first k of them.   *)
Sums(ws, u, k, a) ==
  \E S \in [0 .. Len(ws) -> Nat] :
    /\ S[0] = 0
    /\ \A i \in 1 .. Len(ws) : S[i] = S[i - 1] + ws[i]
    /\ S[Len(ws)] = u
    /\ S[k] = a

(* The destination was asked for the code units of what was handed over.   *)
Summed == Sums(widths, units, Handed, asked)

(* The inductive invariant.                                                *)
EncoderInv ==
  IInv /\ EncoderTypeOK /\ ControlState /\ InOrder /\ Accounted /\ Summed

-----------------------------------------------------------------------------
(* Facts about the sequences.                                              *)
LEMMA AppendFacts ==
  ASSUME NEW T, NEW s \in Seq(T), NEW x \in T
  PROVE  /\ Append(s, x) \in Seq(T)
         /\ Len(Append(s, x)) = Len(s) + 1
         /\ \A i \in 1 .. Len(s) : Append(s, x)[i] = s[i]
         /\ Append(s, x)[Len(s) + 1] = x
  OBVIOUS

LEMMA CountFrom ==
  ASSUME NEW n \in Nat, NEW k \in Nat
  PROVE  /\ [i \in 1 .. k |-> n + i] \in Seq(Nat)
         /\ Len([i \in 1 .. k |-> n + i]) = k
<1>1. \A i \in 1 .. k : n + i \in Nat
  OBVIOUS
<1>2. [i \in 1 .. k |-> n + i] \in Seq(Nat)
  BY <1>1, IsASeq
<1>. QED BY <1>2

LEMMA EmptyRun ==
  ASSUME NEW n \in Nat
  PROVE  <<>> \in Seq(Nat) /\ Len(<<>>) = 0 /\ <<>> = [i \in 1 .. 0 |-> n + i]
<1>1. <<>> \in Seq(Nat) /\ Len(<<>>) = 0
  OBVIOUS
<1>. DEFINE r == [i \in 1 .. 0 |-> n + i]
            e == <<>>
<1>2. r \in Seq(Nat) /\ Len(r) = 0
  BY CountFrom
<1>3. e \in Seq(Nat) /\ Len(e) = 0
  BY <1>1
<1>4. r = e
  <2>. HIDE DEF r, e
  <2>. QED BY <1>2, <1>3, SeqEqual
<1>. QED BY <1>1, <1>4

LEMMA PrefixGrows ==
  ASSUME NEW n \in Nat
  PROVE  Append(Prefix(n), n + 1) = Prefix(n + 1)
<1>1. ASSUME NEW k \in Nat PROVE Prefix(k) \in Seq(Nat) /\ Len(Prefix(k)) = k
  <2>1. [i \in 1 .. k |-> 0 + i] = [i \in 1 .. k |-> i]
    OBVIOUS
  <2>. QED BY <2>1, CountFrom DEF Prefix
<1>. DEFINE p == Prefix(n)
            q == Prefix(n + 1)
<1>2. /\ p \in Seq(Nat) /\ Len(p) = n /\ q \in Seq(Nat) /\ Len(q) = n + 1
      /\ \A i \in 1 .. n : p[i] = i
      /\ \A i \in 1 .. n + 1 : q[i] = i
  BY <1>1 DEF Prefix
<1>. HIDE DEF p, q
<1>3. /\ Append(p, n + 1) \in Seq(Nat)
      /\ Len(Append(p, n + 1)) = n + 1
      /\ \A i \in 1 .. n : Append(p, n + 1)[i] = p[i]
      /\ Append(p, n + 1)[n + 1] = n + 1
  BY <1>2, AppendFacts
<1>4. \A i \in 1 .. n + 1 : Append(p, n + 1)[i] = q[i]
  <2>1. TAKE i \in 1 .. n + 1
  <2>2. i \in 1 .. n \/ i = n + 1
    OBVIOUS
  <2>. QED BY <1>2, <1>3, <2>2
<1>5. Append(p, n + 1) = q
  BY <1>2, <1>3, <1>4, SeqEqual
<1>. QED BY <1>5 DEF p, q

(* The first element of a run of consecutive numbers, and the rest of it.  *)
LEMMA RunShrinks ==
  ASSUME NEW n \in Nat, NEW b \in Seq(Nat), b # <<>>,
         b = [i \in 1 .. Len(b) |-> n + i]
  PROVE  /\ Head(b) = n + 1
         /\ Tail(b) \in Seq(Nat) /\ Len(Tail(b)) = Len(b) - 1 /\ Len(b) \in Nat \ {0}
         /\ Tail(b) = [i \in 1 .. Len(Tail(b)) |-> (n + 1) + i]
<1>1. Len(b) \in Nat \ {0} /\ \A i \in 1 .. Len(b) : b[i] = n + i
  OBVIOUS
<1>2. Head(b) = n + 1
  BY <1>1
<1>3. /\ Tail(b) \in Seq(Nat) /\ Len(Tail(b)) = Len(b) - 1
      /\ \A i \in 1 .. Len(b) - 1 : Tail(b)[i] = b[i + 1]
  BY <1>1
<1>. DEFINE t == Tail(b)
            c == [i \in 1 .. Len(b) - 1 |-> (n + 1) + i]
<1>4. c \in Seq(Nat) /\ Len(c) = Len(b) - 1
  BY <1>1, CountFrom
<1>5. \A i \in 1 .. Len(b) - 1 : c[i] = (n + 1) + i
  OBVIOUS
<1>6. \A i \in 1 .. Len(b) - 1 : t[i] = (n + 1) + i
  <2>1. TAKE i \in 1 .. Len(b) - 1
  <2>2. i + 1 \in 1 .. Len(b) /\ n + (i + 1) = (n + 1) + i
    BY <1>1
  <2>. QED BY <1>1, <1>3, <2>2
<1>7. t = c
  <2>. HIDE DEF t, c
  <2>1. t \in Seq(Nat) /\ Len(t) = Len(b) - 1
    BY <1>3 DEF t
  <2>. QED BY <1>4, <1>5, <1>6, <2>1, SeqEqual
<1>. QED BY <1>1, <1>2, <1>3, <1>7

(* One more number leaves the sum of the first ones alone ...              *)
LEMMA SumsGrow ==
  ASSUME NEW ws \in Seq(1 .. MaxUnit), NEW w \in 1 .. MaxUnit,
         NEW u \in Nat, NEW a \in Nat, NEW k \in 0 .. Len(ws), Sums(ws, u, k, a)
  PROVE  Sums(Append(ws, w), u + w, k, a)
<1>. DEFINE n == Len(ws)
            xs == Append(ws, w)
<1>1. /\ n \in Nat /\ Len(xs) = n + 1
      /\ \A i \in 1 .. n : xs[i] = ws[i]
      /\ xs[n + 1] = w
  BY AppendFacts
<1>2. PICK S \in [0 .. n -> Nat] : /\ S[0] = 0
                                   /\ \A i \in 1 .. n : S[i] = S[i - 1] + ws[i]
                                   /\ S[n] = u
                                   /\ S[k] = a
  BY DEF Sums
<1>. HIDE DEF n, xs
<1>. DEFINE R == [i \in 0 .. n + 1 |-> IF i = n + 1 THEN u + w ELSE S[i]]
<1>3. w \in Nat /\ k \in 0 .. n
  BY OutbufAssumption DEF n
<1>4. R \in [0 .. n + 1 -> Nat]
  BY <1>1, <1>2, <1>3
<1>5. R[n + 1] = u + w /\ \A i \in 0 .. n : R[i] = S[i]
  BY <1>1
<1>. HIDE DEF R
<1>6. ASSUME NEW i \in 1 .. n + 1 PROVE R[i] = R[i - 1] + xs[i]
  <2>1. CASE i = n + 1
    BY <1>1, <1>2, <1>5, <2>1
  <2>2. CASE i # n + 1
    <3>1. i \in 1 .. n /\ i \in 0 .. n /\ i - 1 \in 0 .. n
      BY <1>1, <2>2
    <3>. QED BY <1>1, <1>2, <1>5, <3>1
  <2>. QED BY <2>1, <2>2
<1>7. R[0] = 0 /\ R[k] = a
  BY <1>1, <1>2, <1>3, <1>5
<1>8. Sums(xs, u + w, k, a)
  BY <1>1, <1>4, <1>5, <1>6, <1>7 DEF Sums
<1>. QED BY <1>8 DEF xs

(* ... and the first ones may become one more.                             *)
LEMMA SumsAdvance ==
  ASSUME NEW ws \in Seq(1 .. MaxUnit),
         NEW u \in Nat, NEW a \in Nat, NEW k \in Nat, k + 1 <= Len(ws), Sums(ws, u, k, a)
  PROVE  Sums(ws, u, k + 1, a + ws[k + 1])
<1>1. k + 1 \in 1 .. Len(ws) /\ (k + 1) - 1 = k
  OBVIOUS
<1>. QED BY <1>1 DEF Sums

LEMMA SumsMeet ==
  ASSUME NEW ws \in Seq(1 .. MaxUnit), NEW u, NEW a, Sums(ws, u, Len(ws), a)
  PROVE  u = a
  BY DEF Sums

-----------------------------------------------------------------------------
LEMMA EncoderFacts ==
  ASSUME EncoderInv
  PROVE  /\ Decoded \in Nat /\ Handed \in Nat /\ Handed <= Decoded
         /\ mpos \in Nat /\ mpos <= MiniSize /\ Len(batch) \in Nat
         /\ asked \in Nat /\ units \in Nat /\ good \in BOOLEAN
         /\ MiniSize \in Nat \ {0}
<1>1. /\ batch \in Seq(Nat) /\ widths \in Seq(1 .. MaxUnit) /\ encoded \in Seq(Nat)
      /\ mpos \in 0 .. MiniSize /\ units \in Nat
  BY DEF EncoderInv, EncoderTypeOK
<1>2. Decoded \in Nat /\ Handed \in Nat /\ Len(batch) \in Nat
  BY <1>1 DEF Decoded, Handed
<1>3. Handed + Len(batch) <= Decoded
  BY DEF EncoderInv, InOrder
<1>4. Handed <= Decoded
  BY <1>2, <1>3
<1>5. asked \in Nat /\ good \in BOOLEAN
  BY DEF EncoderInv, IInv, TypeOK, ClientTypeOK
<1>. QED BY <1>1, <1>2, <1>4, <1>5, MiniBufferAssumption

(* The width of the next code point to be encoded is known.                *)
LEMMA NextWidth ==
  ASSUME EncoderInv, batch # <<>>
  PROVE  /\ Head(batch) = Handed + 1 /\ Handed + 1 <= Decoded
         /\ widths[Head(batch)] = widths[Handed + 1]
         /\ widths[Handed + 1] \in 1 .. MaxUnit
<1>1. /\ batch \in Seq(Nat) /\ widths \in Seq(1 .. MaxUnit) /\ Handed \in Nat
      /\ batch = [i \in 1 .. Len(batch) |-> Handed + i]
      /\ Handed + Len(batch) <= Decoded
  BY EncoderFacts DEF EncoderInv, EncoderTypeOK, InOrder
<1>2. Head(batch) = Handed + 1 /\ Len(batch) \in Nat \ {0}
  BY <1>1, RunShrinks
<1>3. Handed + 1 \in 1 .. Decoded
  BY <1>1, <1>2, EncoderFacts
<1>4. \A i \in 1 .. Decoded : widths[i] \in 1 .. MaxUnit
  BY <1>1, ElementOfSeq DEF Decoded
<1>5. widths[Handed + 1] \in 1 .. MaxUnit
  BY <1>3, <1>4
<1>6. Handed + 1 <= Decoded
  BY <1>1, <1>3
<1>. QED BY <1>2, <1>5, <1>6

(* What the destination sees of decode_encode are steps of a client that   *)
(* transcodes, and those of its own recycle() and finish().                *)
LEMMA EncoderStep ==
  ASSUME EncoderInv, [EncoderNext]_allVars
  PROVE  [AnyNext]_anyVars
<1>1. CASE Begin
  BY <1>1 DEF Begin
<1>2. ASSUME NEW w \in 1 .. MaxUnit, Decode(w) \/ DecodeIntoFull(w) PROVE UNCHANGED anyVars
  BY <1>2 DEF Decode, DecodeIntoFull
<1>3. CASE Resume \/ EncoderFinish \/ DecoderThrows \/ EncodeReturns
  BY <1>3 DEF Resume, EncoderFinish, DecoderThrows, EncodeReturns
<1>4. CASE BeginEncode
  BY <1>4 DEF BeginEncode, AnyNext, Client, Start
<1>5. CASE Encode
  <2>1. \E n \in 1 .. MaxUnit : Emit(n)
    BY <1>5, NextWidth DEF Encode
  <2>. QED BY <1>5, <2>1 DEF Encode, AnyNext, Client, Continue, flushing
<1>6. CASE EncodeContinue
  BY <1>6 DEF EncodeContinue, AnyNext, Client, Continue, flushing
<1>7. CASE EndEncode \/ EncoderThrows
  BY <1>7 DEF EndEncode, EncoderThrows, AnyNext, Client, Continue, flushing
<1>8. CASE AnyRecycle /\ UNCHANGED <<writer, encoder>>
  BY <1>8 DEF AnyNext
<1>9. CASE Close
  BY <1>9 DEF Close, AnyNext
<1>10. CASE UNCHANGED allVars
  BY <1>10 DEF allVars
<1>. QED BY <1>1, <1>2, <1>3, <1>4, <1>5, <1>6, <1>7, <1>8, <1>9, <1>10
         DEF EncoderNext, Step

-----------------------------------------------------------------------------
(* The invariant is preserved by each action.  What it says about the      *)
(* destination, IInv, is preserved by EncoderStep and NextKeepsInv.        *)
EncoderPart == EncoderTypeOK /\ ControlState /\ InOrder /\ Accounted /\ Summed

LEMMA BeginKeeps == ASSUME EncoderInv, Begin PROVE EncoderPart'
  BY DEF Begin, anyVars, vars, outbuf, client, EncoderInv, EncoderPart, EncoderTypeOK,
         ControlState, InOrder, Accounted, Summed, Encoding, Decoded, Handed, Prefix

(* One more code point is read.                                            *)
LEMMA ReadFacts ==
  ASSUME EncoderInv, NEW w \in 1 .. MaxUnit, Read(w), UNCHANGED <<encoded, asked>>
  PROVE  /\ widths' \in Seq(1 .. MaxUnit) /\ units' \in Nat
         /\ Decoded' = Decoded + 1 /\ Len(widths') = Decoded + 1
         /\ Handed' = Handed
         /\ Summed'
<1>1. widths \in Seq(1 .. MaxUnit) /\ widths' = Append(widths, w) /\ units' = units + w
  BY DEF Read, EncoderInv, EncoderTypeOK
<1>2. w \in Nat /\ Handed \in 0 .. Len(widths) /\ units \in Nat /\ asked \in Nat
  BY EncoderFacts, OutbufAssumption DEF Decoded
<1>3. Sums(widths, units, Handed, asked)
  BY DEF EncoderInv, Summed
<1>4. Sums(Append(widths, w), units + w, Handed, asked)
  BY <1>1, <1>2, <1>3, SumsGrow
<1>5. Handed' = Handed /\ asked' = asked
  BY DEF Handed
<1>6. Summed'
  BY <1>1, <1>4, <1>5, Zenon DEF Summed
<1>7. widths' \in Seq(1 .. MaxUnit) /\ Len(widths') = Len(widths) + 1
  BY <1>1, AppendFacts
<1>. QED BY <1>1, <1>2, <1>5, <1>6, <1>7 DEF Decoded

LEMMA DecodeKeeps ==
  ASSUME EncoderInv, NEW w \in 1 .. MaxUnit, Decode(w)
  PROVE  EncoderPart'
<1>1. /\ widths' \in Seq(1 .. MaxUnit) /\ units' \in Nat
      /\ Decoded' = Decoded + 1 /\ Len(widths') = Decoded + 1
      /\ Handed' = Handed /\ Summed'
  BY ReadFacts DEF Decode, anyVars, vars, client
<1>2. /\ stage = "decode" /\ mpos < MiniSize
      /\ mini' = [mini EXCEPT ![mpos] = Decoded + 1] /\ mpos' = mpos + 1
      /\ UNCHANGED <<stage, mgood, batch, held, encoded, good, pc, ret>>
  BY <1>1 DEF Decode, anyVars, vars, outbuf, client
<1>3. /\ Decoded \in Nat /\ Handed \in Nat /\ mpos \in 0 .. MiniSize - 1
      /\ mpos + 1 \in 0 .. MiniSize /\ mpos \in Nat
  BY <1>2, EncoderFacts
<1>4. EncoderTypeOK'
  BY <1>1, <1>2, <1>3 DEF EncoderInv, EncoderTypeOK
<1>5. ControlState'
  BY <1>2 DEF EncoderInv, ControlState, Encoding
<1>6. InOrder'
  <2>1. Len(batch) \in Nat /\ Handed + Len(batch) <= Decoded
    BY EncoderFacts DEF EncoderInv, InOrder
  <2>2. Handed' + Len(batch') <= Decoded'
    BY <1>1, <1>2, <1>3, <2>1
  <2>. QED BY <1>1, <1>2, <2>2 DEF EncoderInv, InOrder, Prefix
<1>7. Accounted'
  <2>1. ASSUME good
        PROVE  /\ Decoded' = Handed' + mpos'
               /\ \A i \in 0 .. mpos' - 1 : mini'[i] = Handed' + i + 1
    <3>1. /\ Decoded = Handed + mpos /\ mini \in [0 .. MiniSize - 1 -> Nat]
          /\ \A i \in 0 .. mpos - 1 : mini[i] = Handed + i + 1
      BY <1>2, <2>1 DEF EncoderInv, Accounted, EncoderTypeOK
    <3>2. ASSUME NEW i \in 0 .. mpos PROVE mini'[i] = Handed + i + 1
      <4>1. CASE i = mpos
        BY <1>2, <1>3, <3>1, <4>1
      <4>2. CASE i # mpos
        BY <1>2, <1>3, <3>1, <4>2
      <4>. QED BY <4>1, <4>2
    <3>3. mpos' - 1 = mpos
      BY <1>2, <1>3
    <3>. QED BY <1>1, <1>2, <1>3, <3>1, <3>2, <3>3
  <2>. QED BY <1>2, <2>1 DEF Accounted
<1>. QED BY <1>1, <1>4, <1>5, <1>6, <1>7 DEF EncoderPart

(* The mini buffer becomes the batch.                                      *)
LEMMA BatchFacts ==
  ASSUME EncoderInv, stage = "decode", good
  PROVE  LET b == [i \in 1 .. mpos |-> mini[i - 1]]
         IN  /\ b \in Seq(Nat) /\ Len(b) = mpos
             /\ b = [i \in 1 .. Len(b) |-> Handed + i]
             /\ Handed + mpos = Decoded
<1>1. /\ Decoded = Handed + mpos /\ mini \in [0 .. MiniSize - 1 -> Nat]
      /\ \A i \in 0 .. mpos - 1 : mini[i] = Handed + i + 1
      /\ mpos \in Nat /\ mpos <= MiniSize /\ Handed \in Nat
  BY EncoderFacts DEF EncoderInv, EncoderTypeOK, Accounted
<1>2. ASSUME NEW i \in 1 .. mpos PROVE mini[i - 1] = Handed + i
  <2>1. i - 1 \in 0 .. mpos - 1 /\ Handed + (i - 1) + 1 = Handed + i
    BY <1>1
  <2>. QED BY <1>1, <2>1
<1>3. [i \in 1 .. mpos |-> mini[i - 1]] = [i \in 1 .. mpos |-> Handed + i]
  BY <1>2
<1>4. /\ [i \in 1 .. mpos |-> Handed + i] \in Seq(Nat)
      /\ Len([i \in 1 .. mpos |-> Handed + i]) = mpos
  BY <1>1, CountFrom
<1>. QED BY <1>1, <1>3, <1>4

LEMMA DecodeIntoFullKeeps ==
  ASSUME EncoderInv, NEW w \in 1 .. MaxUnit, DecodeIntoFull(w)
  PROVE  EncoderPart'
<1>. DEFINE b == [i \in 1 .. mpos |-> mini[i - 1]]
<1>1. /\ widths' \in Seq(1 .. MaxUnit) /\ units' \in Nat
      /\ Decoded' = Decoded + 1 /\ Len(widths') = Decoded + 1
      /\ Handed' = Handed /\ Summed'
  BY ReadFacts DEF DecodeIntoFull, anyVars, vars, client
<1>2. /\ stage = "decode" /\ mpos = MiniSize /\ mpos # 0 /\ mpos' = 0 /\ held' = Decoded'
      /\ UNCHANGED <<mini, encoded, good, pc, ret>>
      /\ pc = "idle" /\ mgood = TRUE /\ batch = <<>>
  BY <1>1, EncoderFacts
     DEF DecodeIntoFull, EncoderRecycle, anyVars, vars, outbuf, client, EncoderInv,
         ControlState, EncoderTypeOK, Encoding
<1>3. Decoded \in Nat /\ Handed \in Nat /\ mpos \in Nat /\ mpos <= MiniSize /\ Handed <= Decoded
  BY EncoderFacts
<1>4. CASE good
  <2>1. stage' = "encode" /\ mgood' = FALSE /\ batch' = b
    BY <1>2, <1>4 DEF DecodeIntoFull, EncoderRecycle
  <2>2. b \in Seq(Nat) /\ Len(b) = mpos /\ b = [i \in 1 .. Len(b) |-> Handed + i]
        /\ Handed + mpos = Decoded
    BY <1>2, <1>4, BatchFacts
  <2>. HIDE DEF b
  <2>3. EncoderTypeOK'
    <3>1. batch' \in Seq(Nat) /\ mgood' \in BOOLEAN /\ stage' = "encode"
      BY <2>1, <2>2
    <3>2. mpos' \in 0 .. MiniSize /\ held' \in Nat
      BY <1>1, <1>2, <1>3
    <3>. QED BY <1>1, <1>2, <3>1, <3>2 DEF EncoderInv, EncoderTypeOK
  <2>4. ControlState'
    BY <1>2, <1>4, <2>1 DEF ControlState, Encoding
  <2>5. InOrder'
    <3>1. encoded' = Prefix(Handed')
      BY <1>1, <1>2 DEF EncoderInv, InOrder
    <3>2. Handed' + Len(batch') <= Decoded' /\ Len(batch') <= MiniSize
      BY <1>1, <1>3, <2>1, <2>2
    <3>3. batch' = [i \in 1 .. Len(batch') |-> Handed' + i]
      BY <1>1, <2>1, <2>2
    <3>. QED BY <3>1, <3>2, <3>3 DEF InOrder, Prefix
  <2>6. Accounted'
    <3>1. Decoded' = Handed' + Len(batch') + 1
      BY <1>1, <1>3, <2>1, <2>2
    <3>. QED BY <2>1, <3>1 DEF Accounted
  <2>. QED BY <1>1, <2>3, <2>4, <2>5, <2>6 DEF EncoderPart
<1>5. CASE ~good
  <2>1. stage' = "resume" /\ mgood' = mgood /\ batch' = batch
    BY <1>2, <1>5 DEF DecodeIntoFull, EncoderRecycle
  <2>2. EncoderTypeOK'
    BY <1>1, <1>2, <1>3, <2>1 DEF EncoderInv, EncoderTypeOK
  <2>3. ControlState'
    BY <1>2, <1>5, <2>1 DEF ControlState, Encoding
  <2>4. InOrder'
    <3>1. encoded' = Prefix(Handed')
      BY <1>1, <1>2 DEF EncoderInv, InOrder
    <3>2. Len(batch) \in Nat /\ Handed + Len(batch) <= Decoded
      BY EncoderFacts DEF EncoderInv, InOrder
    <3>3. Handed' + Len(batch') <= Decoded'
      BY <1>1, <1>3, <2>1, <3>2
    <3>. QED BY <1>1, <2>1, <3>1, <3>3 DEF EncoderInv, InOrder, Prefix
  <2>5. Accounted'
    BY <1>2, <1>5 DEF Accounted
  <2>. QED BY <1>1, <2>2, <2>3, <2>4, <2>5 DEF EncoderPart
<1>. QED BY <1>4, <1>5, EncoderFacts

LEMMA ResumeKeeps == ASSUME EncoderInv, Resume PROVE EncoderPart'
<1>1. /\ stage = "resume" /\ stage' = "decode" /\ mpos = 0 /\ mpos' = 1
      /\ held = Decoded /\ held' = 0 /\ batch = <<>> /\ mgood = TRUE
      /\ mini' = [mini EXCEPT ![0] = Decoded] /\ pc = "idle"
      /\ UNCHANGED <<mgood, batch, widths, units, encoded, good, pc, ret, asked>>
  BY DEF Resume, EncoderInv, ControlState, EncoderTypeOK, Encoding, anyVars, vars, outbuf,
         client
<1>2. Decoded \in Nat /\ Handed \in Nat /\ Decoded' = Decoded /\ Handed' = Handed
      /\ Len(batch) = 0
  BY <1>1, EncoderFacts DEF Decoded, Handed
<1>3. EncoderTypeOK'
  BY <1>1, <1>2 DEF EncoderInv, EncoderTypeOK
<1>4. ControlState'
  BY <1>1 DEF ControlState, Encoding
<1>5. InOrder'
  BY <1>1, <1>2 DEF EncoderInv, InOrder, Prefix
<1>6. Accounted'
  <2>1. ASSUME good PROVE Decoded = Handed + 1 /\ \A i \in 0 .. 0 : mini'[i] = Handed + i + 1
    <3>1. Decoded = Handed + 1
      BY <1>1, <1>2, <2>1 DEF EncoderInv, Accounted
    <3>2. mini \in [0 .. MiniSize - 1 -> Nat] /\ 0 \in 0 .. MiniSize - 1
      BY DEF EncoderInv, EncoderTypeOK
    <3>3. mini'[0] = Decoded
      BY <1>1, <3>2
    <3>. QED BY <1>2, <3>1, <3>3
  <2>. QED BY <1>1, <1>2, <2>1 DEF Accounted
<1>7. Summed'
  BY <1>1 DEF EncoderInv, Summed, Handed
<1>. QED BY <1>3, <1>4, <1>5, <1>6, <1>7 DEF EncoderPart

LEMMA EncoderFinishKeeps == ASSUME EncoderInv, EncoderFinish PROVE EncoderPart'
<1>. DEFINE b == [i \in 1 .. mpos |-> mini[i - 1]]
<1>1. /\ stage = "decode" /\ pc = "idle" /\ batch = <<>> /\ mgood = TRUE
      /\ UNCHANGED <<mini, mpos, held, widths, units, encoded, good, pc, ret, asked>>
      /\ Decoded' = Decoded /\ Handed' = Handed
  BY DEF EncoderFinish, EncoderInv, ControlState, EncoderTypeOK, Encoding, anyVars, vars,
         outbuf, client, Decoded, Handed
<1>2. Decoded \in Nat /\ Handed \in Nat /\ mpos \in Nat /\ mpos <= MiniSize
  BY EncoderFacts
<1>3. Summed'
  BY <1>1 DEF EncoderInv, Summed, Handed
<1>4. CASE mpos # 0 /\ good
  <2>1. stage' = "finish" /\ mgood' = mgood /\ batch' = b
    BY <1>4 DEF EncoderFinish
  <2>2. b \in Seq(Nat) /\ Len(b) = mpos /\ b = [i \in 1 .. Len(b) |-> Handed + i]
        /\ Handed + mpos = Decoded
    BY <1>1, <1>4, BatchFacts
  <2>. HIDE DEF b
  <2>3. EncoderTypeOK'
    <3>1. batch' \in Seq(Nat) /\ mgood' \in BOOLEAN
      BY <1>1, <2>1, <2>2
    <3>. QED BY <1>1, <2>1, <3>1 DEF EncoderInv, EncoderTypeOK
  <2>4. ControlState'
    BY <1>1, <1>4, <2>1 DEF ControlState, Encoding
  <2>5. InOrder'
    <3>1. encoded' = Prefix(Handed')
      BY <1>1 DEF EncoderInv, InOrder
    <3>2. Handed' + Len(batch') <= Decoded' /\ Len(batch') <= MiniSize
      BY <1>1, <1>2, <2>1, <2>2
    <3>3. batch' = [i \in 1 .. Len(batch') |-> Handed' + i]
      BY <1>1, <2>1, <2>2
    <3>. QED BY <3>1, <3>2, <3>3 DEF InOrder, Prefix
  <2>6. Accounted'
    BY <1>1, <1>2, <2>1, <2>2 DEF Accounted
  <2>. QED BY <1>3, <2>3, <2>4, <2>5, <2>6 DEF EncoderPart
<1>5. CASE ~(mpos # 0 /\ good)
  <2>1. stage' = "done" /\ mgood' = FALSE /\ batch' = batch
    BY <1>5 DEF EncoderFinish
  <2>2. EncoderTypeOK'
    BY <1>1, <2>1 DEF EncoderInv, EncoderTypeOK
  <2>3. ControlState'
    BY <1>1, <2>1 DEF ControlState, Encoding
  <2>4. InOrder'
    BY <1>1, <2>1 DEF EncoderInv, InOrder, Prefix
  <2>5. Accounted'
    <3>1. good => Decoded = Handed + Len(batch)
      BY <1>1, <1>2, <1>5 DEF EncoderInv, Accounted
    <3>. QED BY <1>1, <2>1, <3>1 DEF Accounted
  <2>. QED BY <1>3, <2>2, <2>3, <2>4, <2>5 DEF EncoderPart
<1>. QED BY <1>4, <1>5

LEMMA DecoderThrowsKeeps == ASSUME EncoderInv, DecoderThrows PROVE EncoderPart'
<1>1. /\ stage = "decode" /\ stage' = "throw" /\ pc = "idle"
      /\ UNCHANGED <<mini, mpos, mgood, batch, held, widths, units, encoded, good, pc, ret,
                     asked>>
      /\ Decoded' = Decoded /\ Handed' = Handed
  BY DEF DecoderThrows, EncoderInv, ControlState, Encoding, anyVars, vars, outbuf, client,
         Decoded, Handed
<1>2. Decoded \in Nat /\ Handed \in Nat /\ mpos \in Nat /\ mpos <= MiniSize
  BY EncoderFacts
<1>3. EncoderTypeOK' /\ ControlState' /\ InOrder' /\ Summed'
  BY <1>1 DEF EncoderInv, EncoderTypeOK, ControlState, Encoding, InOrder, Prefix, Summed
<1>4. Accounted'
  BY <1>1, <1>2 DEF EncoderInv, Accounted
<1>. QED BY <1>3, <1>4 DEF EncoderPart

(* Steps of transcode() that hand nothing over.                            *)
LEMMA BeginEncodeKeeps == ASSUME EncoderInv, BeginEncode PROVE EncoderPart'
<1>1. /\ Encoding /\ batch # <<>> /\ pc = "idle" /\ pc' = "transcode"
      /\ UNCHANGED <<encoder, good, ret, asked>>
  BY DEF BeginEncode, Transcode, outbuf
<1>. QED BY <1>1 DEF encoder, EncoderInv, EncoderPart, EncoderTypeOK, ControlState, Encoding,
                     InOrder, Accounted, Summed, Decoded, Handed, Prefix

LEMMA EndEncodeKeeps == ASSUME EncoderInv, EndEncode PROVE EncoderPart'
<1>1. /\ Encoding /\ batch = <<>> /\ pc' = "idle"
      /\ UNCHANGED <<encoder, good, ret, asked>>
  BY DEF EndEncode, EndTranscode
<1>. QED BY <1>1 DEF encoder, EncoderInv, EncoderPart, EncoderTypeOK, ControlState, Encoding,
                     InOrder, Accounted, Summed, Decoded, Handed, Prefix

LEMMA EncoderThrowsKeeps == ASSUME EncoderInv, EncoderThrows PROVE EncoderPart'
<1>1. /\ Encoding /\ pc' = "idle" /\ stage' = "throw"
      /\ UNCHANGED <<mini, mpos, mgood, batch, held, widths, units, encoded, good, ret, asked>>
      /\ Decoded' = Decoded /\ Handed' = Handed
  BY DEF EncoderThrows, EndTranscode, Decoded, Handed
<1>2. /\ Decoded \in Nat /\ Handed \in Nat /\ Len(batch) \in Nat /\ Len(batch) <= MiniSize
      /\ MiniSize \in Nat
  BY EncoderFacts DEF EncoderInv, InOrder
<1>3. EncoderTypeOK' /\ ControlState' /\ InOrder' /\ Summed'
  BY <1>1 DEF EncoderInv, EncoderTypeOK, ControlState, Encoding, InOrder, Prefix, Summed
<1>4. Accounted'
  BY <1>1, <1>2 DEF EncoderInv, Accounted, Encoding
<1>. QED BY <1>3, <1>4 DEF EncoderPart

LEMMA EncodeReturnsKeeps == ASSUME EncoderInv, EncodeReturns PROVE EncoderPart'
<1>1. /\ Encoding /\ batch = <<>> /\ pc = "idle"
      /\ \/ stage = "encode" /\ stage' = "resume" /\ mgood' = TRUE
         \/ stage = "finish" /\ stage' = "done" /\ mgood' = FALSE
      /\ UNCHANGED <<mini, mpos, batch, held, widths, units, encoded, good, pc, ret, asked>>
      /\ Decoded' = Decoded /\ Handed' = Handed
  BY DEF EncodeReturns, Encoding, Decoded, Handed, anyVars, vars, outbuf, client
<1>2. EncoderTypeOK' /\ ControlState' /\ InOrder' /\ Summed'
  BY <1>1 DEF EncoderInv, EncoderTypeOK, ControlState, Encoding, InOrder, Prefix, Summed
<1>3. Accounted'
  BY <1>1 DEF EncoderInv, Accounted
<1>. QED BY <1>2, <1>3 DEF EncoderPart

(* The next code point of the batch is handed over.                        *)
LEMMA EncodeKeeps == ASSUME EncoderInv, Encode PROVE EncoderPart'
<1>. DEFINE w == widths[Handed + 1]
<1>1. /\ Head(batch) = Handed + 1 /\ Handed + 1 <= Decoded
      /\ widths[Head(batch)] = w /\ w \in 1 .. MaxUnit /\ w \in Nat
  BY NextWidth, OutbufAssumption DEF Encode
<1>. HIDE DEF w
<1>2. /\ Encoding /\ batch # <<>> /\ Emit(w) /\ batch' = Tail(batch)
      /\ encoded' = Append(encoded, Handed + 1)
      /\ UNCHANGED <<stage, mini, mpos, mgood, held, widths, units>>
  BY <1>1 DEF Encode
<1>3. /\ asked' = asked + w /\ good' = good /\ pc = "transcode"
      /\ pc' = "transcode" \/ (pc' = "recycle" /\ ret' = "emit")
  BY <1>2 DEF Emit, CallRecycle
<1>4. good
  BY <1>2, <1>3 DEF EncoderInv, ControlState
<1>5. /\ Decoded \in Nat /\ Handed \in Nat /\ Decoded' = Decoded
      /\ asked \in Nat /\ units \in Nat
      /\ encoded \in Seq(Nat) /\ encoded = Prefix(Handed)
      /\ widths \in Seq(1 .. MaxUnit)
  BY <1>2, EncoderFacts DEF EncoderInv, EncoderTypeOK, InOrder, Decoded
<1>6. /\ batch \in Seq(Nat) /\ batch = [i \in 1 .. Len(batch) |-> Handed + i]
      /\ Handed + Len(batch) <= Decoded /\ Len(batch) <= MiniSize
  BY DEF EncoderInv, EncoderTypeOK, InOrder
<1>7. /\ batch' \in Seq(Nat) /\ Len(batch') = Len(batch) - 1 /\ Len(batch) \in Nat \ {0}
      /\ batch' = [i \in 1 .. Len(batch') |-> (Handed + 1) + i]
  <2>1. /\ Tail(batch) \in Seq(Nat) /\ Len(Tail(batch)) = Len(batch) - 1
        /\ Len(batch) \in Nat \ {0}
        /\ Tail(batch) = [i \in 1 .. Len(Tail(batch)) |-> (Handed + 1) + i]
    BY <1>2, <1>5, <1>6, RunShrinks
  <2>. QED BY <1>2, <2>1
<1>8. encoded' \in Seq(Nat) /\ Handed' = Handed + 1
  <2>1. Handed + 1 \in Nat
    BY <1>5
  <2>2. encoded' \in Seq(Nat) /\ Len(encoded') = Len(encoded) + 1
    BY <1>2, <1>5, <2>1, AppendFacts
  <2>. QED BY <2>2 DEF Handed
<1>9. EncoderTypeOK'
  BY <1>2, <1>7, <1>8 DEF EncoderInv, EncoderTypeOK
<1>10. ControlState'
  <2>1. Encoding'
    BY <1>2 DEF Encoding
  <2>2. stage \in {"encode", "resume"} => mpos' = 0 /\ held' = Decoded'
    BY <1>2, <1>5 DEF EncoderInv, ControlState
  <2>. QED BY <1>2, <1>3, <1>4, <2>1, <2>2 DEF ControlState, Encoding
<1>11. InOrder'
  <2>1. encoded' = Prefix(Handed + 1)
    BY <1>2, <1>5, PrefixGrows
  <2>2. Handed' + Len(batch') <= Decoded' /\ Len(batch') <= MiniSize
    BY <1>5, <1>6, <1>7, <1>8
  <2>. QED BY <1>7, <1>8, <2>1, <2>2 DEF InOrder, Prefix
<1>12. Accounted'
  <2>1. (Handed + 1) + (Len(batch) - 1) = Handed + Len(batch)
    BY <1>5, <1>7
  <2>2. Handed' + Len(batch') = Handed + Len(batch)
    BY <1>7, <1>8, <2>1
  <2>. QED BY <1>2, <1>4, <1>5, <2>2 DEF EncoderInv, Accounted, Encoding
<1>13. Summed'
  <2>1. Sums(widths, units, Handed, asked) /\ Handed + 1 <= Len(widths)
    BY <1>1 DEF EncoderInv, Summed, Decoded
  <2>2. Sums(widths, units, Handed + 1, asked + widths[Handed + 1])
    BY <1>5, <2>1, SumsAdvance
  <2>. QED BY <1>2, <1>3, <1>8, <2>2 DEF Summed, w
<1>. QED BY <1>9, <1>10, <1>11, <1>12, <1>13 DEF EncoderPart

(* The encoder's loop goes on after recycle(), or gives the batch up.      *)
LEMMA EncodeContinueKeeps == ASSUME EncoderInv, EncodeContinue PROVE EncoderPart'
<1>1. /\ Encoding /\ pc = "emit" /\ UNCHANGED <<good, asked, ret>>
      /\ \/ good /\ pc' = "transcode" /\ batch' = batch
         \/ ~good /\ pc' = "idle" /\ batch' = <<>>
      /\ UNCHANGED <<stage, mini, mpos, mgood, held, widths, units, encoded>>
      /\ Decoded' = Decoded /\ Handed' = Handed
  BY DEF EncodeContinue, EmitContinue, Return, Decoded, Handed
<1>2. /\ batch' \in Seq(Nat) /\ Len(batch') <= Len(batch)
      /\ Len(batch) \in Nat /\ Len(batch') \in Nat
  <2>1. batch \in Seq(Nat) /\ Len(batch) \in Nat
    BY EncoderFacts DEF EncoderInv, EncoderTypeOK
  <2>2. CASE good
    BY <1>1, <2>1, <2>2
  <2>3. CASE ~good
    <3>1. batch' = <<>> /\ Handed \in Nat
      BY <1>1, <2>3, EncoderFacts
    <3>2. batch' \in Seq(Nat) /\ Len(batch') = 0
      BY <3>1, EmptyRun
    <3>. QED BY <2>1, <3>2
  <2>. QED BY <2>2, <2>3
<1>3. EncoderTypeOK'
  BY <1>1, <1>2 DEF EncoderInv, EncoderTypeOK
<1>4. ControlState'
  BY <1>1 DEF EncoderInv, ControlState, Encoding
<1>5. InOrder'
  <2>1. batch' = [i \in 1 .. Len(batch') |-> Handed + i]
    <3>1. CASE good
      BY <1>1, <3>1 DEF EncoderInv, InOrder
    <3>2. CASE ~good
      <4>1. batch' = <<>>
        BY <1>1, <3>2
      <4>. QED BY <4>1, EmptyRun, EncoderFacts
    <3>. QED BY <3>1, <3>2
  <2>2. Handed + Len(batch') <= Decoded /\ Len(batch') <= MiniSize
    BY <1>2, EncoderFacts DEF EncoderInv, InOrder
  <2>. QED BY <1>1, <2>1, <2>2 DEF EncoderInv, InOrder, Prefix
<1>6. Accounted'
  BY <1>1 DEF EncoderInv, Accounted, Encoding
<1>7. Summed'
  BY <1>1 DEF EncoderInv, Summed
<1>. QED BY <1>3, <1>4, <1>5, <1>6, <1>7 DEF EncoderPart

(* The destination's recycle() and finish().                               *)
LEMMA RecycleKeeps ==
  ASSUME EncoderInv, AnyRecycle, UNCHANGED encoder
  PROVE  EncoderPart'
<1>1. /\ pc = "recycle" /\ pc' = ret /\ UNCHANGED <<ret, asked>>
      /\ good' = good \/ good
  BY RecycleFlushes DEF Flushes, RecycleReturns
<1>2. Encoding /\ pc' = "emit"
  BY <1>1 DEF EncoderInv, ControlState
<1>3. EncoderTypeOK' /\ InOrder' /\ Summed'
  BY <1>1 DEF encoder, EncoderInv, EncoderTypeOK, InOrder, Prefix, Summed, Decoded, Handed
<1>4. ControlState'
  BY <1>1, <1>2 DEF encoder, EncoderInv, ControlState, Encoding, Decoded
<1>5. Accounted'
  BY <1>1 DEF encoder, EncoderInv, Accounted, Decoded, Handed
<1>. QED BY <1>3, <1>4, <1>5 DEF EncoderPart

LEMMA CloseKeeps == ASSUME EncoderInv, Close PROVE EncoderPart'
<1>1. /\ stage \in {"done", "throw"} /\ UNCHANGED encoder
      /\ good' = FALSE /\ UNCHANGED <<pc, ret, asked>>
  BY FinishFinishes DEF Close, Finished, client
<1>2. EncoderTypeOK' /\ InOrder' /\ Summed' /\ Accounted'
  BY <1>1 DEF encoder, EncoderInv, EncoderTypeOK, InOrder, Prefix, Summed, Accounted,
              Decoded, Handed
<1>3. ControlState'
  BY <1>1 DEF encoder, EncoderInv, ControlState, Encoding, Decoded
<1>. QED BY <1>2, <1>3 DEF EncoderPart

LEMMA NextKeepsEncoderInv == EncoderInv /\ [EncoderNext]_allVars => EncoderInv'
<1>. SUFFICES ASSUME EncoderInv, [EncoderNext]_allVars PROVE EncoderInv'
  OBVIOUS
<1>1. IInv'
  BY EncoderStep, NextKeepsInv DEF EncoderInv
<1>. SUFFICES EncoderPart'
  BY <1>1 DEF EncoderInv, EncoderPart
<1>2. CASE Begin
  BY <1>2, BeginKeeps
<1>3. CASE \E w \in 1 .. MaxUnit : Decode(w) \/ DecodeIntoFull(w)
  BY <1>3, DecodeKeeps, DecodeIntoFullKeeps
<1>4. CASE Resume \/ EncoderFinish \/ DecoderThrows
  BY <1>4, ResumeKeeps, EncoderFinishKeeps, DecoderThrowsKeeps
<1>5. CASE BeginEncode \/ Encode \/ EncodeContinue \/ EndEncode
  BY <1>5, BeginEncodeKeeps, EncodeKeeps, EncodeContinueKeeps, EndEncodeKeeps
<1>6. CASE EncoderThrows \/ EncodeReturns
  BY <1>6, EncoderThrowsKeeps, EncodeReturnsKeeps
<1>7. CASE AnyRecycle /\ UNCHANGED <<writer, encoder>>
  BY <1>7, RecycleKeeps
<1>8. CASE Close
  BY <1>8, CloseKeeps
<1>9. CASE UNCHANGED allVars
  BY <1>9 DEF allVars, anyVars, vars, outbuf, client, encoder, EncoderInv, EncoderPart,
              EncoderTypeOK, ControlState, Encoding, InOrder, Accounted, Summed, Decoded,
              Handed, Prefix
<1>. QED BY <1>2, <1>3, <1>4, <1>5, <1>6, <1>7, <1>8, <1>9 DEF EncoderNext, Step

LEMMA InitEncoderInv == EncoderInit => EncoderInv
<1>. SUFFICES ASSUME EncoderInit PROVE EncoderInv
  OBVIOUS
<1>1. IInv /\ asked = 0 /\ pc = "idle" /\ ret = "idle"
  BY InitInv DEF EncoderInit, AnyInit, Init, ClientInit
<1>2. Decoded = 0 /\ Handed = 0 /\ Len(batch) = 0
  BY DEF EncoderInit, Decoded, Handed
<1>3. EncoderTypeOK
  BY DEF EncoderInit, EncoderTypeOK
<1>4. ControlState /\ Accounted
  BY <1>1, <1>2 DEF EncoderInit, ControlState, Accounted, Encoding
<1>5. InOrder
  BY <1>2 DEF EncoderInit, InOrder, Prefix
<1>6. Summed
  <2>. DEFINE S == [i \in 0 .. 0 |-> 0]
  <2>1. S \in [0 .. Len(widths) -> Nat] /\ S[0] = 0
    BY <1>2 DEF Decoded
  <2>. HIDE DEF S
  <2>. QED BY <1>1, <1>2, <2>1 DEF EncoderInit, Summed, Sums, Decoded
<1>. QED BY <1>1, <1>3, <1>4, <1>5, <1>6 DEF EncoderInv

LEMMA EncoderInvImplies ==
  EncoderInv => /\ MiniWindow /\ EncodedInOrder /\ NothingLeftBehind /\ LossAtThrow
                /\ WindowInMemory /\ NothingLostWhileGood /\ CountIsExact
                /\ SuccessMeansComplete
<1>. SUFFICES ASSUME EncoderInv
              PROVE  /\ MiniWindow /\ EncodedInOrder /\ NothingLeftBehind /\ LossAtThrow
                     /\ WindowInMemory /\ NothingLostWhileGood /\ CountIsExact
                     /\ SuccessMeansComplete
  OBVIOUS
<1>1. MiniWindow
  BY EncoderFacts DEF EncoderInv, ControlState, MiniWindow
<1>2. EncodedInOrder
  BY DEF EncoderInv, InOrder, EncodedInOrder, Handed
<1>3. NothingLeftBehind
  <2>. SUFFICES ASSUME stage = "done", good
                PROVE  Len(encoded) = Len(widths) /\ asked = units
    BY DEF NothingLeftBehind
  <2>1. batch = <<>> /\ Decoded = Handed + Len(batch)
    BY DEF EncoderInv, ControlState, Accounted
  <2>2. Handed = Decoded
    BY <2>1, EncoderFacts
  <2>3. Sums(widths, units, Len(widths), asked) /\ widths \in Seq(1 .. MaxUnit)
    BY <2>2 DEF EncoderInv, EncoderTypeOK, Summed, Decoded
  <2>4. units = asked
    BY <2>3, SumsMeet
  <2>. QED BY <2>2, <2>4 DEF Handed, Decoded
<1>4. LossAtThrow
  <2>1. stage = "throw" /\ good => Decoded <= Handed + MiniSize + 1
    BY DEF EncoderInv, Accounted
  <2>2. stage = "throw" /\ good => Decoded - Handed <= MiniSize + 1
    BY <2>1, EncoderFacts
  <2>. QED BY <2>2 DEF LossAtThrow, Decoded, Handed
<1>5. /\ WindowInMemory /\ NothingLostWhileGood /\ CountIsExact /\ SuccessMeansComplete
  BY InvImplies DEF EncoderInv
<1>. QED BY <1>1, <1>2, <1>3, <1>4, <1>5

-----------------------------------------------------------------------------
(* The invariant holds in every state.                                     *)
THEOREM EncoderInvariance == EncoderSpec => []EncoderInv
  BY InitEncoderInv, NextKeepsEncoderInv, PTL DEF EncoderSpec

(* For its destination decode_encode is a client like any other: with it   *)
(* the destination implements OrderedSink.                                 *)
THEOREM EncoderDelivers == EncoderSpec => DeliversInOrder
<1>1. EncoderInit => Sink!Init
  BY InitRefines DEF EncoderInit, AnyInit
<1>2. EncoderInv /\ [EncoderNext]_allVars => [Sink!Next]_Sink!vars
  <2>1. EncoderInv => IInv
    BY DEF EncoderInv
  <2>. QED BY <2>1, EncoderStep, NextRefines
<1>. QED BY <1>1, <1>2, EncoderInvariance, PTL DEF EncoderSpec, DeliversInOrder, Sink!Spec

(* decode_encode drives the writer it encodes into as any client does:     *)
(* every behaviour is one of that writer.                                  *)
THEOREM EncoderIsClient == EncoderSpec => AnyInit /\ [][AnyNext]_anyVars
<1>1. EncoderInit => AnyInit
  BY DEF EncoderInit
<1>2. EncoderInv /\ [EncoderNext]_allVars => [AnyNext]_anyVars
  BY EncoderStep
<1>. QED BY <1>1, <1>2, EncoderInvariance, PTL DEF EncoderSpec

-----------------------------------------------------------------------------
(* The part of a call that has windows takes a step of decode_encode, or   *)
(* none, and the part that has the text one of a transcoder, or none.      *)
LEMMA CallStep == [CallNext]_callVars => [EncoderNext]_allVars /\ [TextNext]_textVars
  BY DEF CallNext, callVars

LEMMA CallInitEncoder == CallInit => EncoderInit
  BY DEF CallInit, UnusedWindows

LEMMA CallIsEncoder == CallSpec => EncoderSpec
  BY CallStep, CallInitEncoder, PTL DEF CallSpec, EncoderSpec

LEMMA CallInitSize == CallInit => SizeInv
<1>. SUFFICES ASSUME CallInit PROVE SizeInv
  OBVIOUS
<1>1. CASE TextInit
  BY <1>1, SizeInit
<1>2. CASE UnusedText
  <2>1. 0 \in Words
    BY SMT DEF Words
  <2>2. "utf32" \in Encodings /\ <<>> \in Seq(Units("utf32"))
    BY DEF Encodings
  <2>3. <<>> \in UNION {Seq(Units(e)) : e \in Encodings}
    BY <2>2, Zenon
  <2>4. JobOK
    BY <1>2, <2>1, <2>2, <2>3 DEF UnusedText, JobOK, Job
  <2>. QED BY <1>2, <2>4, SizeBegins DEF UnusedText
<1>. QED BY <1>1, <1>2, Zenon DEF CallInit

LEMMA CallSizeInv == CallSpec => []SizeInv
  BY CallInitSize, CallStep, SizeNext, PTL DEF CallSpec

LEMMA CallInitFill == CallInit => FillInv
<1>. SUFFICES ASSUME CallInit PROVE FillInv
  OBVIOUS
<1>1. JobOK
  BY CallInitSize DEF SizeInv
<1>2. TextBegins
  BY Zenon DEF CallInit, TextInit, UnusedText
<1>. QED BY <1>1, <1>2, FillBegins

LEMMA CallFillInv == CallSpec => []FillInv
  BY CallInitFill, CallStep, FillNext, PTL DEF CallSpec

LEMMA CallInitText == CallInit => TextInv
<1>. SUFFICES ASSUME CallInit PROVE TextInv
  OBVIOUS
<1>1. JobOK
  BY CallInitSize DEF SizeInv
<1>2. TextBegins
  BY Zenon DEF CallInit, TextInit, UnusedText
<1>. QED BY <1>1, <1>2, TextBeginsInv

LEMMA CallTextInv == CallSpec => []TextInv
  BY CallInitText, CallStep, TextStep, PTL DEF CallSpec

(* In every call, no store of either loop is outside the memory of the     *)
(* destination's window.                                                   *)
THEOREM CallWindowSafe == CallSpec => []WindowInMemory
  BY CallIsEncoder, EncoderInvariance, EncoderInvImplies, PTL

(* The mini buffer is never overrun, and recycle() leaves it with room.    *)
THEOREM MiniWindowSafe == CallSpec => []MiniWindow
  BY CallIsEncoder, EncoderInvariance, EncoderInvImplies, PTL

(* Code points reach the destination in order, none twice, none skipped.   *)
THEOREM OrderKept == CallSpec => []EncodedInOrder
  BY CallIsEncoder, EncoderInvariance, EncoderInvImplies, PTL

(* A good destination has got everything when decode_encode returns.       *)
THEOREM AllHandedOver == CallSpec => []NothingLeftBehind
  BY CallIsEncoder, EncoderInvariance, EncoderInvImplies, PTL

(* An exception costs at most the mini buffer and one code point more.     *)
THEOREM LossBounded == CallSpec => []LossAtThrow
  BY CallIsEncoder, EncoderInvariance, EncoderInvImplies, PTL

(* The size announced for a text, in any encoding, is that of what is      *)
(* written when all of it has been: a string reserved by it is filled to   *)
(* its end and not beyond.                                                 *)
THEOREM SizeRight == CallSpec => []SizeExact
  BY CallSizeInv, SizeExactFromInv, PTL

(* A fill character, repeated, is what the transcoder writes for it, and   *)
(* as long as char_size says, in every encoding and for every code point.  *)
THEOREM FillIsRight == CallSpec => []FillRight
  BY CallFillInv, FillRightFromInv, PTL

(* Every transcoder, and every decode_encode, writes every character of    *)
(* its source and a replacement for every piece that is none: whoever      *)
(* reads what was written, in the destination's encoding, reads that.      *)
THEOREM TextIsRight == CallSpec => []TextRight
  BY CallTextInv, TextRightFromInv, PTL

(* With the policy to stop, an exception has a cause in the source, a call *)
(* that returns has met none, and what the destination has got until then  *)
(* are the first characters of the source, none of them replaced.          *)
THEOREM StopsInTime == CallSpec => []StopsAtInvalid
  BY CallTextInv, StopsFromInv, PTL

(* codepoints_count says how many characters a valid source has, up to the *)
(* limit: a precision and a width count the characters that are written.   *)
THEOREM CountIsRight == CallSpec => []CountRight
  BY CallTextInv, CountRightFromInv, PTL
=============================================================================
