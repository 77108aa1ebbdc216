----------------------- MODULE NumberPrinters_proofs -----------------------
(***************************************************************************)
(* The printers of integers keep to the window of their outbuf, write the  *)
(* right text and announce its size exactly.  Some of their loops store    *)
(* without asking for room; IntInv says what room each was left by the step*)
(* before.  IntTextInv says that what has been written, without what the   *)
(* running loop has written of its piece, and the pieces that print_to has *)
(* still to write make the whole text; and where the running loop is in the*)
(* groups of the number.  The sizes of the groups, their ends, the counted *)
(* separators and the two loops that write backwards are functions defined *)
(* by recursion: their results are found by induction on the digits.       *)
(***************************************************************************)
EXTENDS NumberPrinters, Integers, FiniteSets, SequenceTheorems, WellFoundedInduction, FiniteSetTheorems, TLAPS

(* The loops of the writers of digits, and everything else that print_to   *)
(* may call.                                                               *)
Loops == {"bits", "big_sep", "big_sep_room", "bits_little_sep", "little_sep",
          "bits_big_sep", "big_bit_sep"}
Calls == {"direct", "complement", "prefixed", "zeros", "digits", "grouped",
          "fill", "fill_half", "fill_rest"}

Args == PrintInt!Plain \cup PrintInt!Punct \cup PrintInt!Formatted

GroupsUpTo(n) == Seq(0 .. n) \ {<<>>}

(* A loop runs in front of what print_to has still to call.                *)
IntControl ==
  /\ todo \in Seq(Calls \cup Loops)
  /\ \A i \in 2 .. Len(todo) : todo[i] \in Calls
  /\ \A i \in 1 .. Len(todo) : todo[i] = "direct" => arg.printer # "format"

(* What a loop that stores without asking may rely on.                     *)
IntRoom ==
  /\ PrintInt!Call("big_sep") => room > 0
  /\ PrintInt!Call("bits_little_sep") =>
       /\ groups \in GroupsUpTo(MinSize) /\ Head(groups) <= room
       /\ Tail(groups) \in Seq(0 .. MinSize - 1)
  /\ PrintInt!Call("little_sep") => groups \in GroupsUpTo(MinSize - 1)
  /\ PrintInt!Call("bits_big_sep") \/ PrintInt!Call("big_bit_sep") =>
       groups \in GroupsUpTo(MinSize)

IntInv ==
  /\ arg \in Args
  /\ room \in Nat
  /\ IntControl /\ IntRoom

-----------------------------------------------------------------------------
(* Recursion over a set whose elements have a rank, which goes down.       *)
LEMMA Smallest ==
  ASSUME NEW T, T \subseteq Nat, T # {}
  PROVE  \E x \in T : \A y \in T : x <= y
<1>. DEFINE R == {p \in Nat \X Nat : p[1] < p[2]}
<1>1. R = OpToRel(<, Nat)
  BY DEF OpToRel
<1>2. IsWellFoundedOn(R, Nat)
  BY <1>1, NatLessThanWellFounded, ZenonT(60)
<1>. HIDE DEF R
<1>3. PICK x \in T : \A y \in T : ~(<<y, x>> \in R)
  BY <1>2, WFMin
<1>4. ASSUME NEW y \in T PROVE x <= y
  <2>1. x \in Nat /\ y \in Nat
    OBVIOUS
  <2>2. y < x => <<y, x>> \in R
    BY <2>1 DEF R
  <2>. QED BY <1>3, <2>1, <2>2
<1>. QED BY <1>4

LEMMA Induct ==
  ASSUME NEW S, 0 \in S, \A n \in Nat : n \in S => n + 1 \in S
  PROVE  \A n \in Nat : n \in S
<1>. DEFINE T == {n \in Nat : n \notin S}
<1>1. ASSUME T # {} PROVE FALSE
  <2>1. PICK x \in T : \A y \in T : x <= y
    BY <1>1, Smallest
  <2>2. x # 0 /\ x \in Nat
    OBVIOUS
  <2>3. x - 1 \in Nat /\ x - 1 \notin T
    BY <2>1, <2>2
  <2>4. (x - 1) + 1 \in S
    BY <2>3
  <2>. QED BY <2>2, <2>4
<1>. QED BY <1>1

(* The ways a result is made of the one before: z is added to it, put in   *)
(* front of it, multiplied with it, or put behind it, as one or several.   *)
Onto(how, z, v) ==
  IF how = "add" THEN z + v ELSE IF how = "sum" THEN v + z
  ELSE IF how = "front" THEN z \o v ELSE IF how = "times" THEN z * v
  ELSE IF how = "append" THEN Append(v, z) ELSE v \o z

(* nx leads from every element outside Stop to one of a lower rank.        *)
Descends(D, Stop, nx, rank, top) ==
  /\ nx \in [D -> D] /\ rank \in [D -> Nat]
  /\ top \in Nat /\ \A x \in D : rank[x] <= top
  /\ \A x \in D : x \notin Stop => rank[nx[x]] < rank[x]

(* There is a function that is defined by recursion along nx.              *)
Recursive(D, Stop, nx, b, z, how) ==
  \E f : f = [x \in D |-> IF x \in Stop THEN b[x] ELSE Onto(how, z[x], f[nx[x]])]

LEMMA RecursionExists ==
  ASSUME NEW D, NEW Stop, NEW nx, NEW rank, NEW top, Descends(D, Stop, nx, rank, top),
         NEW b, NEW z, NEW how
  PROVE  Recursive(D, Stop, nx, b, z, how)
<1>. USE DEF Descends
<1>. DEFINE V(f, x) == IF x \in Stop THEN b[x] ELSE Onto(how, z[x], f[nx[x]])
            Good(k, f) == /\ f = [x \in D |-> f[x]]
                          /\ \A x \in D : rank[x] < k => f[x] = V(f, x)
            S == {k \in Nat : \E f : Good(k, f)}
<1>1. 0 \in S
  <2>. DEFINE f == [x \in D |-> {}]
  <2>1. \A x \in D : ~(rank[x] < 0)
    OBVIOUS
  <2>2. f = [x \in D |-> f[x]]
    OBVIOUS
  <2>. HIDE DEF f, V
  <2>3. Good(0, f)
    BY <2>1, <2>2, Zenon
  <2>. HIDE DEF Good
  <2>. QED BY <2>3
<1>2. ASSUME NEW k \in Nat, k \in S PROVE k + 1 \in S
  <2>1. PICK f : Good(k, f)
    BY <1>2
  <2>. DEFINE g == [x \in D |-> IF rank[x] < k THEN f[x] ELSE V(f, x)]
  <2>2. g = [x \in D |-> g[x]] /\ \A x \in D : g[x] = IF rank[x] < k THEN f[x] ELSE V(f, x)
    <3>. HIDE DEF V
    <3>. QED OBVIOUS
  <2>. HIDE DEF g
  <2>3. ASSUME NEW x \in D, rank[x] < k + 1 PROVE g[x] = V(g, x)
    <3>1. g[x] = V(f, x)
      <4>1. CASE rank[x] < k
        <5>1. f[x] = V(f, x)
          BY <2>1, <4>1, Zenon
        <5>. HIDE DEF V
        <5>. QED BY <2>2, <4>1, <5>1, Zenon
      <4>2. CASE ~(rank[x] < k)
        <5>. HIDE DEF V
        <5>. QED BY <2>2, <4>2, Zenon
      <4>. QED BY <4>1, <4>2
    <3>2. ASSUME x \notin Stop PROVE g[nx[x]] = f[nx[x]]
      <4>1. nx[x] \in D /\ rank[nx[x]] < rank[x]
        BY <3>2
      <4>2. \A i, j, l \in Nat : i < j /\ j < l + 1 => i < l
        OBVIOUS
      <4>3. rank[nx[x]] \in Nat /\ rank[x] \in Nat
        BY <4>1
      <4>4. rank[nx[x]] < k
        BY <2>3, <4>1, <4>2, <4>3, Zenon
      <4>. HIDE DEF V
      <4>. QED BY <2>2, <4>1, <4>4, Zenon
    <3>. QED BY <3>1, <3>2, Zenon
  <2>4. Good(k + 1, g)
    <3>. HIDE DEF V
    <3>. QED BY <2>2, <2>3, Zenon
  <2>. HIDE DEF Good
  <2>5. k + 1 \in Nat
    OBVIOUS
  <2>. QED BY <2>4, <2>5, Zenon
<1>. HIDE DEF S
<1>3. top + 1 \in S
  <2>1. \A k \in Nat : k \in S
    BY <1>1, <1>2, Induct
  <2>. QED BY <2>1
<1>4. PICK f : Good(top + 1, f)
  BY <1>3 DEF S
<1>5. \A x \in D : f[x] = V(f, x)
  <2>1. \A x \in D : rank[x] < top + 1
    OBVIOUS
  <2>. HIDE DEF V
  <2>. QED BY <1>4, <2>1, Zenon
<1>6. f = [x \in D |-> V(f, x)]
  <2>. HIDE DEF V
  <2>. QED BY <1>4, <1>5, Zenon
<1>. QED BY <1>6, Zenon DEF Recursive

(* What holds of the results where the recursion stops, and of one when it *)
(* holds of the one before, holds of all.                                  *)
KeptUpwards(D, Stop, nx, T) ==
  /\ \A x \in D : x \in Stop => x \in T
  /\ \A x \in D : x \notin Stop /\ nx[x] \in T => x \in T

LEMMA ByRank ==
  ASSUME NEW D, NEW Stop, NEW nx, NEW rank, NEW top, Descends(D, Stop, nx, rank, top),
         NEW T, KeptUpwards(D, Stop, nx, T)
  PROVE  \A x \in D : x \in T
<1>. USE DEF Descends, KeptUpwards
<1>. DEFINE S == {k \in Nat : \A x \in D : rank[x] < k => x \in T}
<1>1. 0 \in S
  OBVIOUS
<1>2. ASSUME NEW k \in Nat, k \in S PROVE k + 1 \in S
  <2>1. ASSUME NEW x \in D, rank[x] < k + 1 PROVE x \in T
    <3>1. CASE x \in Stop
      BY <3>1
    <3>2. CASE x \notin Stop
      <4>1. nx[x] \in D /\ rank[nx[x]] < rank[x] /\ rank[nx[x]] \in Nat /\ rank[x] \in Nat
        BY <3>2
      <4>2. rank[nx[x]] < k
        BY <2>1, <4>1
      <4>. QED BY <1>2, <3>2, <4>1, <4>2
    <3>. QED BY <3>1, <3>2
  <2>. QED BY <2>1
<1>. HIDE DEF S
<1>3. \A k \in Nat : k \in S
  BY <1>1, <1>2, Induct
<1>4. ASSUME NEW x \in D PROVE x \in T
  <2>1. rank[x] \in Nat /\ rank[x] + 1 \in Nat /\ rank[x] < rank[x] + 1
    OBVIOUS
  <2>2. rank[x] + 1 \in S
    BY <1>3, <2>1
  <2>. QED BY <2>1, <2>2 DEF S
<1>. QED BY <1>4

-----------------------------------------------------------------------------
(* The loop of GroupSizes: where it stops, and where it goes on.           *)
SizesDomain(g, n) == (1 .. Len(g)) \X (0 .. n)
SizesStop(g, n) == {x \in SizesDomain(g, n) : g[x[1]] = 0 \/ g[x[1]] >= x[2]}
SizesNext(g, n) ==
  [x \in SizesDomain(g, n) |->
     IF x \in SizesStop(g, n) THEN x
     ELSE <<IF x[1] < Len(g) THEN x[1] + 1 ELSE x[1], x[2] - g[x[1]]>>]

LEMMA SizesLoop ==
  ASSUME NEW g \in Seq(Nat) \ {<<>>}, NEW n \in Nat
  PROVE  /\ SizesNext(g, n) \in [SizesDomain(g, n) -> SizesDomain(g, n)]
         /\ \A x \in SizesDomain(g, n) : x \notin SizesStop(g, n) =>
              /\ SizesNext(g, n)[x][2] = x[2] - g[x[1]]
              /\ SizesNext(g, n)[x][2] < x[2]
         /\ <<1, n>> \in SizesDomain(g, n)
<1>. DEFINE D == SizesDomain(g, n)  nx == SizesNext(g, n)
<1>1. Len(g) \in Nat /\ Len(g) >= 1 /\ \A i \in 1 .. Len(g) : g[i] \in Nat
  OBVIOUS
<1>2. ASSUME NEW x \in D, x \notin SizesStop(g, n)
      PROVE  nx[x] \in D /\ nx[x][2] = x[2] - g[x[1]] /\ nx[x][2] < x[2]
  <2>. DEFINE i == x[1]  k == x[2]
  <2>1. i \in 1 .. Len(g) /\ k \in 0 .. n /\ g[i] \in Nat
    BY <1>1 DEF SizesDomain
  <2>2. g[i] # 0 /\ ~(g[i] >= k)
    BY <1>2 DEF SizesStop
  <2>3. nx[x] = <<IF i < Len(g) THEN i + 1 ELSE i, k - g[i]>>
    BY <1>2 DEF SizesNext
  <2>4. (IF i < Len(g) THEN i + 1 ELSE i) \in 1 .. Len(g)
    BY <1>1, <2>1
  <2>5. k - g[i] \in 0 .. n /\ k - g[i] < k
    BY <2>1, <2>2
  <2>. QED BY <2>3, <2>4, <2>5 DEF SizesDomain
<1>3. \A x \in D : nx[x] \in D
  BY <1>2 DEF SizesNext
<1>4. <<1, n>> \in D
  BY <1>1 DEF SizesDomain
<1>. QED BY <1>2, <1>3, <1>4 DEF SizesNext

(* The sizes of groups are a sequence, none is larger than the number of   *)
(* digits, there are no more of them than digits, and if there are several *)
(* none has all digits.                                                    *)
Bounded(r, n) ==
  /\ r \in GroupsUpTo(n)
  /\ Len(r) <= 1 \/ Len(r) <= n
  /\ Len(r) > 1 => r \in Seq(0 .. n - 1)

LEMMA LastGroup == \A n \in Nat : Bounded(<<n>>, n)
<1>1. \A n \in Nat : <<n>> \in Seq(0 .. n) /\ Len(<<n>>) = 1
  OBVIOUS
<1>. QED BY <1>1 DEF Bounded, GroupsUpTo

LEMMA OneMoreGroup ==
  ASSUME NEW n \in Nat, NEW size \in Nat, size # 0, size < n, NEW r, Bounded(r, n - size)
  PROVE  Bounded(<<size>> \o r, n)
<1>1. r \in Seq(0 .. n - size) /\ r # <<>> /\ Len(r) \in Nat
  BY DEF Bounded, GroupsUpTo
<1>2. r \in Seq(0 .. n - 1)
  <2>1. 0 .. n - size \subseteq 0 .. n - 1
    OBVIOUS
  <2>. QED BY <1>1, <2>1
<1>3. <<size>> \o r \in Seq(0 .. n - 1) /\ Len(<<size>> \o r) = 1 + Len(r)
  BY <1>2
<1>4. <<size>> \o r \in Seq(0 .. n)
  <2>1. 0 .. n - 1 \subseteq 0 .. n
    OBVIOUS
  <2>. QED BY <1>3, <2>1
<1>5. 1 + Len(r) <= n
  BY <1>1 DEF Bounded
<1>. QED BY <1>1, <1>3, <1>4, <1>5 DEF Bounded, GroupsUpTo

(* The results of the loop, one from the next.                             *)
SizesFrom(g, n) ==
  LET from[p \in (1 .. Len(g)) \X (0 .. n)] ==
        LET i == p[1]  k == p[2]  size == g[i] IN
        IF size = 0 \/ size >= k THEN <<k>>
        ELSE <<size>> \o from[<<IF i < Len(g) THEN i + 1 ELSE i, k - size>>]
  IN from

LEMMA SizesSteps ==
  ASSUME NEW g \in Seq(Nat) \ {<<>>}, NEW n \in Nat
  PROVE  /\ Descends(SizesDomain(g, n), SizesStop(g, n), SizesNext(g, n),
                     [x \in SizesDomain(g, n) |-> x[2]], n)
         /\ PrintInt!GroupSizes(g, n) = SizesFrom(g, n)[<<1, n>>]
         /\ \A x \in SizesDomain(g, n) :
              SizesFrom(g, n)[x] = IF x \in SizesStop(g, n) THEN <<x[2]>>
                                   ELSE <<g[x[1]]>> \o SizesFrom(g, n)[SizesNext(g, n)[x]]
<1>. DEFINE D == SizesDomain(g, n)  Stop == SizesStop(g, n)  nx == SizesNext(g, n)
            b == [x \in D |-> <<x[2]>>]  z == [x \in D |-> <<g[x[1]]>>]
            rank == [x \in D |-> x[2]]
            V(f, p) ==
              LET i == p[1]  k == p[2]  size == g[i] IN
              IF size = 0 \/ size >= k THEN <<k>>
              ELSE <<size>> \o f[<<IF i < Len(g) THEN i + 1 ELSE i, k - size>>]
            from == SizesFrom(g, n)
<1>1. PrintInt!GroupSizes(g, n) = from[<<1, n>>]
  BY DEF PrintInt!GroupSizes, SizesFrom
<1>2. ASSUME NEW f, NEW x \in D
      PROVE  V(f, x) = IF x \in Stop THEN b[x] ELSE Onto("front", z[x], f[nx[x]])
  BY Zenon DEF SizesStop, SizesNext, Onto
<1>3. Descends(D, Stop, nx, rank, n)
  <2>1. \A x \in D : x[2] \in Nat /\ x[2] <= n
    BY DEF SizesDomain
  <2>. QED BY <2>1, SizesLoop DEF Descends
<1>. HIDE DEF D, Stop, nx, b, z, rank
<1>4. Recursive(D, Stop, nx, b, z, "front")
  BY <1>3, RecursionExists, Zenon
<1>5. PICK f : f = [x \in D |-> V(f, x)]
  <2>. HIDE DEF V
  <2>1. PICK f : f = [x \in D |-> IF x \in Stop THEN b[x] ELSE Onto("front", z[x], f[nx[x]])]
    BY <1>4 DEF Recursive
  <2>2. [x \in D |-> IF x \in Stop THEN b[x] ELSE Onto("front", z[x], f[nx[x]])]
         = [x \in D |-> V(f, x)]
    BY <1>2, Zenon
  <2>. QED BY <2>1, <2>2, Zenon
<1>6. from = [x \in D |-> V(from, x)]
  BY <1>5, Zenon DEF D, SizesDomain, SizesFrom
<1>. HIDE DEF from
<1>7. \A x \in D : from[x] = IF x \in Stop THEN b[x] ELSE Onto("front", z[x], from[nx[x]])
  <2>. HIDE DEF V
  <2>. QED BY <1>2, <1>6, Zenon
<1>8. \A x \in D : from[x] = IF x \in Stop THEN <<x[2]>> ELSE <<g[x[1]]>> \o from[nx[x]]
  BY <1>7, Zenon DEF Onto, b, z
<1>. QED BY <1>1, <1>3, <1>8, Zenon DEF D, Stop, nx, rank, from

LEMMA SizesBounded ==
  ASSUME NEW g \in Seq(Nat) \ {<<>>}, NEW n \in Nat
  PROVE  /\ Bounded(PrintInt!GroupSizes(g, n), n)
         /\ \A x \in SizesDomain(g, n) : Bounded(SizesFrom(g, n)[x], x[2])
<1>. DEFINE D == SizesDomain(g, n)  Stop == SizesStop(g, n)  nx == SizesNext(g, n)
            rank == [x \in D |-> x[2]]  from == SizesFrom(g, n)
<1>1. /\ PrintInt!GroupSizes(g, n) = from[<<1, n>>]
      /\ \A x \in D : from[x] = IF x \in Stop THEN <<x[2]>> ELSE <<g[x[1]]>> \o from[nx[x]]
  BY SizesSteps
<1>. DEFINE T == {x \in D : Bounded(from[x], x[2])}
<1>2. ASSUME NEW x \in D, x \in Stop PROVE x \in T
  <2>1. from[x] = <<x[2]>>
    BY <1>1, <1>2
  <2>2. x[2] \in Nat
    BY DEF SizesDomain
  <2>. QED BY <2>1, <2>2, LastGroup
<1>3. ASSUME NEW x \in D, x \notin Stop, nx[x] \in T PROVE x \in T
  <2>. DEFINE size == g[x[1]]  k == x[2]
  <2>1. k \in Nat /\ size \in Nat /\ size # 0 /\ size < k
    BY <1>3 DEF SizesStop, SizesDomain
  <2>2. from[x] = <<size>> \o from[nx[x]]
    BY <1>1, <1>3
  <2>3. nx[x][2] = k - size
    BY <1>3, SizesLoop
  <2>4. Bounded(from[nx[x]], k - size)
    BY <1>3, <2>3
  <2>. HIDE DEF size, k, T
  <2>5. Bounded(from[x], k)
    BY <2>1, <2>2, <2>4, OneMoreGroup
  <2>. QED BY <2>5 DEF T, k
<1>4. \A x \in D : x \in T
  <2>1. Descends(D, Stop, nx, rank, n)
    BY SizesSteps
  <2>. HIDE DEF T, D, Stop, nx, rank
  <2>2. KeptUpwards(D, Stop, nx, T)
    BY <1>2, <1>3, Zenon DEF KeptUpwards
  <2>. QED BY <2>1, <2>2, ByRank, Zenon
<1>5. <<1, n>> \in T
  BY <1>4, SizesLoop
<1>. QED BY <1>1, <1>4, <1>5

(* The loop of ThousandsSepCount, likewise.                                *)
CountDomain(g, n) == (1 .. Len(g) + 1) \X (0 .. n)
CountStop(g, n) ==
  {x \in CountDomain(g, n) : x[1] > Len(g) \/ g[x[1]] = 0 \/ g[x[1]] >= x[2]}
CountNext(g, n) ==
  [x \in CountDomain(g, n) |->
     IF x \in CountStop(g, n) THEN x ELSE <<x[1] + 1, x[2] - g[x[1]]>>]

LEMMA CountLoop ==
  ASSUME NEW g \in Seq(Nat) \ {<<>>}, NEW n \in Nat
  PROVE  /\ CountNext(g, n) \in [CountDomain(g, n) -> CountDomain(g, n)]
         /\ \A x \in CountDomain(g, n) : x \notin CountStop(g, n) =>
              /\ CountNext(g, n)[x] = <<x[1] + 1, x[2] - g[x[1]]>>
              /\ x[1] \in 1 .. Len(g) /\ g[x[1]] # 0
              /\ CountNext(g, n)[x][2] < x[2]
         /\ <<1, n>> \in CountDomain(g, n)
<1>. DEFINE D == CountDomain(g, n)  nx == CountNext(g, n)
<1>1. Len(g) \in Nat /\ Len(g) >= 1 /\ \A i \in 1 .. Len(g) : g[i] \in Nat
  OBVIOUS
<1>2. ASSUME NEW x \in D, x \notin CountStop(g, n)
      PROVE  /\ nx[x] \in D /\ nx[x] = <<x[1] + 1, x[2] - g[x[1]]>>
             /\ x[1] \in 1 .. Len(g) /\ g[x[1]] # 0 /\ nx[x][2] < x[2]
  <2>. DEFINE i == x[1]  k == x[2]
  <2>1. i \in 1 .. Len(g) + 1 /\ k \in 0 .. n
    BY <1>1 DEF CountDomain
  <2>2. ~(i > Len(g)) /\ g[i] # 0 /\ ~(g[i] >= k)
    BY <1>2 DEF CountStop
  <2>3. nx[x] = <<i + 1, k - g[i]>>
    BY <1>2 DEF CountNext
  <2>4. i \in 1 .. Len(g) /\ i + 1 \in 1 .. Len(g) + 1 /\ g[i] \in Nat
    BY <1>1, <2>1, <2>2
  <2>5. k - g[i] \in 0 .. n /\ k - g[i] < k
    BY <2>1, <2>2, <2>4, SMTT(60)
  <2>. QED BY <2>2, <2>3, <2>4, <2>5 DEF CountDomain
<1>3. \A x \in D : nx[x] \in D
  BY <1>2 DEF CountNext
<1>4. <<1, n>> \in D
  BY <1>1 DEF CountDomain
<1>. QED BY <1>2, <1>3, <1>4 DEF CountNext

CountFrom(g, n) ==
  LET from[p \in (1 .. Len(g) + 1) \X (0 .. n)] ==
        LET i == p[1]  k == p[2]  size == g[i] IN
        IF i > Len(g) THEN PrintInt!Repeated(k, PrintInt!Last(g))
        ELSE IF size = 0 \/ size >= k THEN 0
        ELSE 1 + from[<<i + 1, k - size>>]
  IN from

LEMMA CountSteps ==
  ASSUME NEW g \in Seq(Nat) \ {<<>>}, NEW n \in Nat
  PROVE  /\ Descends(CountDomain(g, n), CountStop(g, n), CountNext(g, n),
                     [x \in CountDomain(g, n) |-> x[2]], n)
         /\ PrintInt!ThousandsSepCount(g, n) = CountFrom(g, n)[<<1, n>>]
         /\ \A x \in CountDomain(g, n) :
              CountFrom(g, n)[x] = IF x[1] > Len(g) THEN PrintInt!Repeated(x[2], PrintInt!Last(g))
                                   ELSE IF x \in CountStop(g, n) THEN 0
                                   ELSE 1 + CountFrom(g, n)[CountNext(g, n)[x]]
<1>. DEFINE D == CountDomain(g, n)  Stop == CountStop(g, n)  nx == CountNext(g, n)
            b == [x \in D |-> IF x[1] > Len(g) THEN PrintInt!Repeated(x[2], PrintInt!Last(g)) ELSE 0]
            z == [x \in D |-> 1]
            rank == [x \in D |-> x[2]]
            V(f, p) ==
              LET i == p[1]  k == p[2]  size == g[i] IN
              IF i > Len(g) THEN PrintInt!Repeated(k, PrintInt!Last(g))
              ELSE IF size = 0 \/ size >= k THEN 0
              ELSE 1 + f[<<i + 1, k - size>>]
            from == CountFrom(g, n)
<1>1. PrintInt!ThousandsSepCount(g, n) = from[<<1, n>>]
  BY DEF PrintInt!ThousandsSepCount, CountFrom
<1>2. ASSUME NEW f, NEW x \in D
      PROVE  V(f, x) = IF x \in Stop THEN b[x] ELSE Onto("add", z[x], f[nx[x]])
  BY Zenon DEF CountStop, CountNext, Onto
<1>3. Descends(D, Stop, nx, rank, n)
  <2>1. \A x \in D : x[2] \in Nat /\ x[2] <= n
    BY DEF CountDomain
  <2>. QED BY <2>1, CountLoop DEF Descends
<1>4. \A x \in D : x[1] > Len(g) => x \in Stop
  BY DEF CountStop
<1>. HIDE DEF D, Stop, nx, b, z, rank
<1>5. Recursive(D, Stop, nx, b, z, "add")
  BY <1>3, RecursionExists, Zenon
<1>6. PICK f : f = [x \in D |-> V(f, x)]
  <2>. HIDE DEF V
  <2>1. PICK f : f = [x \in D |-> IF x \in Stop THEN b[x] ELSE Onto("add", z[x], f[nx[x]])]
    BY <1>5 DEF Recursive
  <2>2. [x \in D |-> IF x \in Stop THEN b[x] ELSE Onto("add", z[x], f[nx[x]])]
         = [x \in D |-> V(f, x)]
    BY <1>2, Zenon
  <2>. QED BY <2>1, <2>2, Zenon
<1>7. from = [x \in D |-> V(from, x)]
  BY <1>6, Zenon DEF D, CountDomain, CountFrom
<1>. HIDE DEF from
<1>8. \A x \in D : from[x] = IF x \in Stop THEN b[x] ELSE Onto("add", z[x], from[nx[x]])
  <2>. HIDE DEF V
  <2>. QED BY <1>2, <1>7, Zenon
<1>9. \A x \in D : from[x] = IF x[1] > Len(g) THEN PrintInt!Repeated(x[2], PrintInt!Last(g))
                             ELSE IF x \in Stop THEN 0 ELSE 1 + from[nx[x]]
  BY <1>4, <1>8, Zenon DEF Onto, b, z
<1>. QED BY <1>1, <1>3, <1>9, Zenon DEF D, Stop, nx, rank, from

(* The repeated last group: one more for every size more.                  *)
LEMMA Division ==
  ASSUME NEW k \in Nat, NEW size \in Nat, size # 0, k # 0
  PROVE  /\ (k - 1) \div size \in Nat
         /\ k <= size => (k - 1) \div size = 0
         /\ k > size => (k - 1) \div size = 1 + (k - size - 1) \div size
<1>1. (k - 1) \div size \in Nat
  OBVIOUS
<1>2. ASSUME k <= size PROVE (k - 1) \div size = 0
  BY <1>2
<1>3. ASSUME k > size PROVE (k - 1) \div size = 1 + (k - size - 1) \div size
  BY <1>3
<1>. QED BY <1>1, <1>2, <1>3

(* From the last group of the grouping on, the groups are all of its size. *)
LEMMA RepeatedGroups ==
  ASSUME NEW g \in Seq(Nat) \ {<<>>}, NEW n \in Nat, g[Len(g)] # 0
  PROVE  \A x \in SizesDomain(g, n) :
           x[1] = Len(g) /\ x[2] # 0 =>
             Len(SizesFrom(g, n)[x]) = 1 + PrintInt!Repeated(x[2], PrintInt!Last(g))
<1>. DEFINE D == SizesDomain(g, n)  Stop == SizesStop(g, n)  nx == SizesNext(g, n)
            rank == [x \in D |-> x[2]]  from == SizesFrom(g, n)
            size == g[Len(g)]
            T == {x \in D : x[1] = Len(g) /\ x[2] # 0 => Len(from[x]) = 1 + (x[2] - 1) \div size}
<1>1. size \in Nat /\ size # 0 /\ Len(g) \in Nat /\ Len(g) >= 1
  OBVIOUS
<1>2. ASSUME NEW x \in D, x \in Stop PROVE x \in T
  <2>1. from[x] = <<x[2]>>
    BY <1>2, SizesSteps
  <2>2. ASSUME x[1] = Len(g), x[2] # 0 PROVE (x[2] - 1) \div size = 0
    <3>1. x[2] \in Nat /\ x[2] <= size
      BY <1>2, <2>2 DEF SizesStop, SizesDomain
    <3>. HIDE DEF size
    <3>. QED BY <1>1, <2>2, <3>1, Division
  <2>3. ASSUME x[1] = Len(g), x[2] # 0 PROVE Len(from[x]) = 1 + (x[2] - 1) \div size
    <3>1. (x[2] - 1) \div size = 0
      BY <2>2, <2>3
    <3>2. Len(from[x]) = 1
      BY <2>1
    <3>. QED BY <3>1, <3>2
  <2>. QED BY <2>3
<1>3. ASSUME NEW x \in D, x \notin Stop, nx[x] \in T PROVE x \in T
  <2>. SUFFICES ASSUME x[1] = Len(g), x[2] # 0
                PROVE  Len(from[x]) = 1 + (x[2] - 1) \div size
    OBVIOUS
  <2>1. x[2] \in Nat /\ size < x[2]
    BY <1>3 DEF SizesStop, SizesDomain
  <2>2. nx[x] = <<Len(g), x[2] - size>>
    BY <1>1, <1>3 DEF SizesNext
  <2>3. x[2] - size \in Nat /\ x[2] - size # 0
    BY <1>1, <2>1
  <2>4. Len(from[nx[x]]) = 1 + (x[2] - size - 1) \div size
    BY <1>3, <2>2, <2>3
  <2>5. from[x] = <<size>> \o from[nx[x]]
    BY <1>3, SizesSteps
  <2>6. from[nx[x]] \in Seq(0 .. x[2] - size)
    <3>1. nx[x] \in D
      BY SizesLoop
    <3>2. Bounded(from[nx[x]], nx[x][2])
      BY <3>1, SizesBounded
    <3>. QED BY <2>2, <3>2 DEF Bounded, GroupsUpTo
  <2>7. (x[2] - 1) \div size = 1 + (x[2] - size - 1) \div size
    <3>. HIDE DEF size
    <3>. QED BY <1>1, <2>1, Division
  <2>8. Len(from[x]) = 1 + Len(from[nx[x]])
    <3>. HIDE DEF from, nx
    <3>. QED BY <2>5, <2>6
  <2>. QED BY <2>4, <2>7, <2>8
<1>4. \A x \in D : x \in T
  <2>1. Descends(D, Stop, nx, rank, n)
    BY SizesSteps
  <2>. HIDE DEF T, D, Stop, nx, rank
  <2>2. KeptUpwards(D, Stop, nx, T)
    BY <1>2, <1>3, Zenon DEF KeptUpwards
  <2>. QED BY <2>1, <2>2, ByRank, Zenon
<1>. QED BY <1>4 DEF PrintInt!Repeated, PrintInt!Last

(* The two loops of numpunct_base agree: the separators that are counted   *)
(* for the size of the text are those that get_groups leaves room for, one *)
(* between any two groups; for every grouping and number of digits.        *)
THEOREM SeparatorsMatchGroups ==
  ASSUME NEW g \in Seq(Nat) \ {<<>>}, NEW n \in Nat
  PROVE  PrintInt!ThousandsSepCount(g, n) = Len(PrintInt!GroupSizes(g, n)) - 1
<1>. DEFINE D == CountDomain(g, n)  Stop == CountStop(g, n)  nx == CountNext(g, n)
            rank == [x \in D |-> x[2]]  count == CountFrom(g, n)  from == SizesFrom(g, n)
            at(x) == <<IF x[1] > Len(g) THEN Len(g) ELSE x[1], x[2]>>
            Within(x) == x[1] > Len(g) => g[Len(g)] # 0 /\ x[2] # 0
            T == {x \in D : Within(x) => count[x] = Len(from[at(x)]) - 1}
<1>1. Len(g) \in Nat /\ Len(g) >= 1 /\ \A i \in 1 .. Len(g) : g[i] \in Nat
  OBVIOUS
<1>2. \A x \in D : at(x) \in SizesDomain(g, n) /\ x[1] \in 1 .. Len(g) + 1 /\ x[2] \in 0 .. n
  BY <1>1 DEF SizesDomain, CountDomain
<1>c. \A x \in D : x[1] \in 1 .. Len(g) + 1 /\ x[2] \in Nat
  BY <1>1 DEF CountDomain
<1>a. \A x \in D : count[x] = IF x[1] > Len(g) THEN PrintInt!Repeated(x[2], PrintInt!Last(g))
                              ELSE IF x \in Stop THEN 0 ELSE 1 + count[nx[x]]
  BY CountSteps
<1>b. \A y \in SizesDomain(g, n) :
        from[y] = IF y \in SizesStop(g, n) THEN <<y[2]>>
                  ELSE <<g[y[1]]>> \o from[SizesNext(g, n)[y]]
  BY SizesSteps, ZenonT(60)
<1>3. ASSUME NEW x \in D, x \in Stop PROVE x \in T
  <2>1. ASSUME x[1] > Len(g), Within(x) PROVE count[x] = Len(from[at(x)]) - 1
    <3>1. count[x] = PrintInt!Repeated(x[2], PrintInt!Last(g))
      BY <2>1, CountSteps
    <3>2. Len(from[at(x)]) = 1 + PrintInt!Repeated(x[2], PrintInt!Last(g))
      BY <1>2, <2>1, RepeatedGroups
    <3>3. PrintInt!Repeated(x[2], PrintInt!Last(g)) \in Nat
      <4>. DEFINE size == g[Len(g)]  k == x[2]
      <4>1. size \in Nat /\ size # 0 /\ k \in Nat /\ k # 0
        BY <1>1, <1>c, <2>1
      <4>. HIDE DEF size, k
      <4>2. (k - 1) \div size \in Nat
        BY <4>1, Division
      <4>. QED BY <4>2 DEF size, k, PrintInt!Repeated, PrintInt!Last
    <3>. QED BY <3>1, <3>2, <3>3
  <2>2. ASSUME ~(x[1] > Len(g)) PROVE count[x] = Len(from[at(x)]) - 1
    <3>1. count[x] = 0
      BY <1>3, <2>2, CountSteps
    <3>2. at(x) \in SizesStop(g, n)
      BY <1>2, <1>3, <2>2 DEF CountStop, SizesStop
    <3>3. from[at(x)] = <<x[2]>>
      BY <1>2, <3>2, SizesSteps
    <3>. QED BY <3>1, <3>3
  <2>. QED BY <2>1, <2>2
<1>4. ASSUME NEW x \in D, x \notin Stop, nx[x] \in T PROVE x \in T
  <2>. DEFINE i == x[1]  k == x[2]
  <2>1. i \in 1 .. Len(g) /\ g[i] # 0 /\ g[i] < k /\ k \in Nat
    <3>1. i \in 1 .. Len(g) + 1 /\ k \in Nat
      BY <1>c
    <3>2. ~(i > Len(g)) /\ g[i] # 0 /\ ~(g[i] >= k)
      BY <1>4 DEF CountStop
    <3>3. i \in 1 .. Len(g)
      BY <1>1, <3>1, <3>2
    <3>. QED BY <1>1, <3>1, <3>2, <3>3
  <2>2. nx[x] = <<i + 1, k - g[i]>> /\ nx[x] \in D
    BY <1>4, CountLoop
  <2>3. Within(nx[x])
    BY <1>1, <2>1, <2>2
  <2>4. count[nx[x]] = Len(from[at(nx[x])]) - 1
    BY <1>4, <2>3
  <2>5. count[x] = 1 + count[nx[x]]
    <3>1. ~(x[1] > Len(g))
      BY <1>1, <2>1
    <3>. HIDE DEF D, Stop, nx, count
    <3>. QED BY <1>4, <1>a, <3>1
  <2>6. at(x) = <<i, k>> /\ at(x) \in SizesDomain(g, n) /\ at(x) \notin SizesStop(g, n)
    BY <1>1, <1>2, <2>1 DEF SizesStop
  <2>7. SizesNext(g, n)[at(x)] = at(nx[x])
    BY <1>1, <2>1, <2>2, <2>6, SMTT(60) DEF SizesNext
  <2>8. from[at(x)] = <<g[i]>> \o from[at(nx[x])]
    <3>1. at(x)[1] = i
      BY <2>6
    <3>. HIDE DEF at, from, nx
    <3>. QED BY <2>6, <2>7, <3>1, <1>b
  <2>9. from[at(nx[x])] \in Seq(0 .. at(nx[x])[2])
    BY <1>2, <2>2, SizesBounded DEF Bounded, GroupsUpTo
  <2>10. Len(from[at(x)]) = 1 + Len(from[at(nx[x])]) /\ Len(from[at(nx[x])]) \in Nat
    <3>. HIDE DEF from, nx, at
    <3>. QED BY <2>8, <2>9
  <2>. QED BY <2>4, <2>5, <2>10, SMTT(60)
<1>5. \A x \in D : x \in T
  <2>1. Descends(D, Stop, nx, rank, n)
    BY CountSteps
  <2>. HIDE DEF T, D, Stop, nx, rank
  <2>2. KeptUpwards(D, Stop, nx, T)
    BY <1>3, <1>4, Zenon DEF KeptUpwards
  <2>. QED BY <2>1, <2>2, ByRank, Zenon
<1>6. <<1, n>> \in T
  BY <1>5, CountLoop
<1>7. Within(<<1, n>>) /\ at(<<1, n>>) = <<1, n>>
  BY <1>1
<1>8. count[<<1, n>>] = Len(from[<<1, n>>]) - 1
  BY <1>6, <1>7
<1>. QED BY <1>8, SizesSteps, CountSteps

-----------------------------------------------------------------------------
LEMMA IntAssumption == PrintInt!IntPrinterAssumption
BY NumberPrintersAssumption

LEMMA ConstantsInNat ==
  /\ MinSize \in Nat /\ MaxBits \in Nat /\ MaxDigits \in Nat
  /\ 2 <= MinSize /\ MaxBits <= MinSize /\ MaxDigits < MinSize /\ 2 * MaxDigits - 1 <= MinSize
  /\ Int16 \in Nat /\ Int16 # 0
  /\ \A r \in Rooms : r \in Nat
  /\ \A w \in Windows : w \in Nat /\ w >= MinSize
  /\ \A u \in SepSizes : u \in Nat /\ u < MinSize
  /\ \A g \in Groupings : g \in Seq(Nat) \ {<<>>}
  /\ \A p \in Precisions : p \in Nat
  /\ \A w \in Widths : w \in Nat
BY IntAssumption DEF PrintInt!IntPrinterAssumption

(* What the arguments of all printers have in common.                      *)
LEMMA ArgFacts ==
  ASSUME NEW a \in Args
  PROVE  /\ a.printer \in {"int", "punct", "format"}
         /\ a.base \in {"bin", "dec", "oct", "hex"}
         /\ a.align \in {"left", "split", "center", "right"}
         /\ a.digits \in Nat /\ a.digits >= 1 /\ a.digits <= MinSize
         /\ a.base # "bin" => a.digits <= MaxDigits
         /\ a.printer # "format" => a.base = "dec" /\ a.prefix <= 1
         /\ a.prefix \in 0 .. 2
         /\ a.zero \in BOOLEAN
         /\ a.precision \in Nat /\ a.width \in Nat
         /\ a.grouping \in Seq(Nat) \ {<<>>}
         /\ a.sep \in Nat /\ a.sep < MinSize
<1>0. <<0>> \in Seq(Nat) \ {<<>>}
  OBVIOUS
<1>1. CASE a \in PrintInt!Plain
  <2>1. /\ a.printer = "int" /\ a.base = "dec" /\ a.digits \in 1 .. MaxDigits
        /\ a.zero \in BOOLEAN /\ a.prefix \in 0 .. 1 /\ a.precision = 0 /\ a.width = 0
        /\ a.align = "right" /\ a.grouping = <<0>> /\ a.sep = 1
    BY <1>1 DEF PrintInt!Plain
  <2>2. a.digits \in Nat /\ a.digits >= 1 /\ a.digits <= MaxDigits /\ a.digits <= MinSize
    BY <2>1, ConstantsInNat
  <2>3. a.prefix <= 1 /\ a.prefix \in 0 .. 2 /\ 1 < MinSize
    BY <2>1, ConstantsInNat
  <2>. QED BY <1>0, <2>1, <2>2, <2>3
<1>2. CASE a \in PrintInt!Punct
  <2>1. /\ a.printer = "punct" /\ a.base = "dec" /\ a.digits \in 1 .. MaxDigits
        /\ a.zero \in BOOLEAN /\ a.prefix \in 0 .. 1 /\ a.precision = 0 /\ a.width = 0
        /\ a.align = "right" /\ a.grouping \in Groupings /\ a.sep \in SepSizes
    BY <1>2 DEF PrintInt!Punct
  <2>2. a.digits \in Nat /\ a.digits >= 1 /\ a.digits <= MaxDigits /\ a.digits <= MinSize
    BY <2>1, ConstantsInNat
  <2>3. a.prefix <= 1 /\ a.prefix \in 0 .. 2
    BY <2>1
  <2>4. a.grouping \in Seq(Nat) \ {<<>>} /\ a.sep \in Nat /\ a.sep < MinSize
    BY <2>1, ConstantsInNat
  <2>. QED BY <2>1, <2>2, <2>3, <2>4
<1>3. CASE a \in PrintInt!Formatted
  <2>1. a \in [printer: {"format"}, base: {"bin", "dec", "oct", "hex"},
               digits: 1 .. MaxBits, zero: BOOLEAN,
               prefix: 0 .. 2, precision: Precisions, width: Widths,
               align: {"left", "split", "center", "right"},
               grouping: Groupings \cup {<<0>>}, sep: SepSizes]
        /\ (a.base # "bin" => a.digits <= MaxDigits)
    BY <1>3 DEF PrintInt!Formatted
  <2>2. /\ a.printer = "format" /\ a.base \in {"bin", "dec", "oct", "hex"}
        /\ a.digits \in 1 .. MaxBits /\ a.zero \in BOOLEAN /\ a.prefix \in 0 .. 2
        /\ a.precision \in Precisions /\ a.width \in Widths
        /\ a.align \in {"left", "split", "center", "right"}
        /\ a.grouping \in Groupings \cup {<<0>>} /\ a.sep \in SepSizes
    BY <2>1
  <2>3. a.digits \in Nat /\ a.digits >= 1 /\ a.digits <= MinSize
    BY <2>2, ConstantsInNat
  <2>4. a.grouping \in Seq(Nat) \ {<<>>} /\ a.sep \in Nat /\ a.sep < MinSize
    BY <1>0, <2>2, ConstantsInNat
  <2>5. a.precision \in Nat /\ a.width \in Nat
    BY <2>2, ConstantsInNat
  <2>. QED BY <2>1, <2>2, <2>3, <2>4, <2>5
<1>. QED BY <1>1, <1>2, <1>3 DEF Args

(* DigCount, what the separators and the fill characters count.            *)
LEMMA CountFacts ==
  ASSUME NEW a \in Args
  PROVE  /\ PrintInt!DigCount(a) \in 0 .. a.digits
         /\ PrintInt!SepCount(a) \in Int
         /\ PrintInt!FillCount(a) \in Nat
<1>1. PrintInt!DigCount(a) \in 0 .. a.digits
  BY ArgFacts DEF PrintInt!DigCount
<1>2. PrintInt!SepCount(a) \in Int
  <2>. DEFINE n == PrintInt!DigCount(a)
  <2>1. n \in Nat /\ a.grouping \in Seq(Nat) \ {<<>>}
    BY <1>1, ArgFacts
  <2>. HIDE DEF n
  <2>2. PrintInt!GroupSizes(a.grouping, n) \in Seq(0 .. n)
    BY <2>1, SizesBounded DEF Bounded, GroupsUpTo
  <2>3. PrintInt!ThousandsSepCount(a.grouping, n) = Len(PrintInt!GroupSizes(a.grouping, n)) - 1
    BY <2>1, SeparatorsMatchGroups
  <2>4. PrintInt!ThousandsSepCount(a.grouping, n) \in Int
    BY <2>2, <2>3
  <2>. QED BY <2>4 DEF PrintInt!SepCount, n
<1>3. PrintInt!ContentWidth(a) \in Int
  <2>. DEFINE n == PrintInt!Larger(a.precision, PrintInt!DigCount(a)) + a.prefix + PrintInt!SepCount(a)
  <2>1. PrintInt!Larger(a.precision, PrintInt!DigCount(a)) \in Int
    BY <1>1, ArgFacts DEF PrintInt!Larger
  <2>2. n \in Int
    BY <1>2, <2>1, ArgFacts
  <2>3. \A i \in Int : ((i + Int16) % (2 * Int16)) - Int16 \in Int
    <3>1. 2 * Int16 \in Int /\ 2 * Int16 > 0
      BY ConstantsInNat
    <3>2. \A i, j \in Int : j > 0 => i % j \in Int
      OBVIOUS
    <3>. QED BY <3>1, <3>2, ConstantsInNat
  <2>. HIDE DEF n
  <2>4. PrintInt!ToInt16(n) \in Int
    BY <2>2, <2>3 DEF PrintInt!ToInt16
  <2>. QED BY <2>4 DEF n, PrintInt!ContentWidth
<1>4. PrintInt!FillCount(a) \in Nat
  BY <1>3, ArgFacts DEF PrintInt!FillCount
<1>. QED BY <1>1, <1>2, <1>4

-----------------------------------------------------------------------------
(* The room that ensure() leaves.                                          *)
LEMMA EnsuredFacts ==
  ASSUME room \in Nat, NEW n \in Nat, NEW r \in PrintInt!Ensured(n)
  PROVE  r \in Nat /\ (r >= n \/ r >= MinSize)
BY ConstantsInNat DEF PrintInt!Ensured

(* When a call returns, the next one is no loop.                           *)
LEMMA Returned ==
  ASSUME IntControl, todo # <<>>, PrintInt!Return, arg' = arg
  PROVE  IntControl' /\ IntRoom'
<1>1. todo \in Seq(Calls \cup Loops) /\ todo' = Tail(todo)
  BY DEF IntControl, PrintInt!Return
<1>2. todo' \in Seq(Calls \cup Loops) /\ Len(todo) \in Nat /\ Len(todo') = Len(todo) - 1
  BY <1>1
<1>3. \A i \in 1 .. Len(todo') : todo'[i] = todo[i + 1] /\ i + 1 \in 2 .. Len(todo)
  BY <1>1, <1>2
<1>4. \A i \in 1 .. Len(todo') : todo'[i] \in Calls
  BY <1>3 DEF IntControl
<1>5. IntControl'
  <2>1. \A i \in 2 .. Len(todo') : todo'[i] \in Calls
    BY <1>2, <1>4
  <2>2. \A i \in 1 .. Len(todo') : todo'[i] = "direct" => arg'.printer # "format"
    BY <1>2, <1>3 DEF IntControl
  <2>. QED BY <1>2, <2>1, <2>2 DEF IntControl
<1>6. ASSUME todo' # <<>> PROVE Head(todo') \notin Loops
  <2>1. Head(todo') = todo'[1] /\ 1 \in 1 .. Len(todo')
    BY <1>2, <1>6
  <2>2. Head(todo') \in Calls
    BY <1>4, <2>1
  <2>. QED BY <2>2 DEF Calls, Loops
<1>. QED BY <1>5, <1>6 DEF IntRoom, PrintInt!Call, Loops

LEMMA Entered ==
  ASSUME IntControl, todo # <<>>, NEW loop \in Loops, PrintInt!Enter(loop), arg' = arg
  PROVE  IntControl' /\ \A name : PrintInt!Call(name)' <=> name = loop
<1>1. todo \in Seq(Calls \cup Loops) /\ todo' = <<loop>> \o Tail(todo)
  BY DEF IntControl, PrintInt!Enter
<1>2. /\ todo' \in Seq(Calls \cup Loops) /\ Len(todo) \in Nat /\ Len(todo') = Len(todo)
      /\ todo' # <<>> /\ Head(todo') = loop /\ todo'[1] = loop
  BY <1>1
<1>3. \A i \in 2 .. Len(todo') : todo'[i] = todo[i]
  BY <1>1, <1>2
<1>4. loop # "direct"
  BY DEF Loops
<1>5. IntControl'
  <2>1. \A i \in 2 .. Len(todo') : todo'[i] \in Calls
    BY <1>2, <1>3 DEF IntControl
  <2>2. ASSUME NEW i \in 1 .. Len(todo'), todo'[i] = "direct" PROVE arg'.printer # "format"
    <3>1. i \in 2 .. Len(todo')
      BY <1>2, <1>4, <2>2
    <3>2. i \in 1 .. Len(todo) /\ todo[i] = "direct"
      BY <1>2, <1>3, <2>2, <3>1
    <3>. QED BY <3>2 DEF IntControl
  <2>. QED BY <1>2, <2>1, <2>2 DEF IntControl
<1>. QED BY <1>2, <1>5 DEF PrintInt!Call

-----------------------------------------------------------------------------
(* The pieces that are put at once.                                        *)
LEMMA PutFillKeeps ==
  ASSUME IntInv, todo # <<>>, NEW n \in Nat, NEW x, PrintInt!PutFill(n, x)
  PROVE  IntInv'
<1>1. room' \in Nat
  BY ConstantsInNat DEF IntInv, PrintInt!PutFill
<1>2. PrintInt!Return /\ arg' = arg
  BY DEF PrintInt!PutFill
<1>. QED BY <1>1, <1>2, Returned DEF IntInv

LEMMA FillKeeps == ASSUME IntInv, PrintInt!Fill PROVE IntInv'
<1>. DEFINE n == PrintInt!FillCount(arg)
<1>1. n \in Nat
  BY CountFacts DEF IntInv
<1>. HIDE DEF n
<1>2. n \div 2 \in Nat /\ n - n \div 2 \in Nat
  BY <1>1
<1>3. todo # <<>> /\ \E k \in Nat : PrintInt!PutFill(k, PrintInt!FillChar)
  BY <1>1, <1>2 DEF PrintInt!Fill, PrintInt!Call, n
<1>. QED BY <1>3, PutFillKeeps

LEMMA ZerosKeeps == ASSUME IntInv, PrintInt!Zeros PROVE IntInv'
<1>. DEFINE k == IF arg.precision > PrintInt!DigCount(arg)
                 THEN arg.precision - PrintInt!DigCount(arg) ELSE 0
<1>1. k \in Nat
  BY ArgFacts, CountFacts DEF IntInv
<1>2. todo # <<>> /\ PrintInt!PutFill(k, PrintInt!Zero)
  BY DEF PrintInt!Zeros, PrintInt!Call
<1>. HIDE DEF k
<1>. QED BY <1>1, <1>2, PutFillKeeps

LEMMA PrefixedKeeps == ASSUME IntInv, PrintInt!Prefixed PROVE IntInv'
<1>. DEFINE n == arg.prefix + PrintInt!DigCount(arg)
<1>1. arg.prefix \in 0 .. 2 /\ n \in Nat /\ n >= arg.prefix
  BY ArgFacts, CountFacts DEF IntInv
<1>2. PICK r \in PrintInt!Ensured(n) : room' = r - arg.prefix
  BY DEF PrintInt!Prefixed, PrintInt!Put
<1>3. todo # <<>> /\ PrintInt!Return /\ arg' = arg
  BY DEF PrintInt!Prefixed, PrintInt!Call
<1>. HIDE DEF n
<1>4. r \in Nat /\ (r >= n \/ r >= MinSize)
  BY <1>1, EnsuredFacts DEF IntInv
<1>5. room' \in Nat
  BY <1>1, <1>2, <1>4, ConstantsInNat
<1>. QED BY <1>3, <1>5, Returned DEF IntInv

LEMMA ComplementKeeps == ASSUME IntInv, PrintInt!Complement PROVE IntInv'
<1>1. arg.prefix \in 0 .. 2
  BY ArgFacts DEF IntInv
<1>2. room' \in Nat
  <2>1. CASE arg.prefix = 0
    BY <2>1 DEF IntInv, PrintInt!Complement
  <2>2. CASE arg.prefix # 0
    <3>1. PICK r \in PrintInt!Ensured(arg.prefix) : room' = r - arg.prefix
      BY <2>2 DEF PrintInt!Complement, PrintInt!Put
    <3>2. r \in Nat /\ (r >= arg.prefix \/ r >= MinSize)
      BY <1>1, EnsuredFacts DEF IntInv
    <3>. QED BY <1>1, <3>1, <3>2, ConstantsInNat
  <2>. QED BY <2>1, <2>2
<1>3. todo # <<>> /\ PrintInt!Return /\ arg' = arg
  BY DEF PrintInt!Complement, PrintInt!Call
<1>. QED BY <1>2, <1>3, Returned DEF IntInv

LEMMA DirectKeeps == ASSUME IntInv, PrintInt!Direct PROVE IntInv'
<1>. DEFINE n == arg.prefix + arg.digits
<1>1. todo # <<>> /\ PrintInt!Return /\ arg' = arg /\ Head(todo) = "direct"
  BY DEF PrintInt!Direct, PrintInt!Call
<1>2. arg.printer # "format"
  <2>1. 1 \in 1 .. Len(todo) /\ todo[1] = "direct"
    BY <1>1 DEF IntInv, IntControl
  <2>. QED BY <2>1 DEF IntInv, IntControl
<1>3. n \in Nat /\ n <= MinSize
  BY <1>2, ArgFacts, ConstantsInNat DEF IntInv
<1>4. PICK r \in PrintInt!Ensured(n) : room' = r - n
  BY DEF PrintInt!Direct, PrintInt!Put
<1>. HIDE DEF n
<1>5. r \in Nat /\ (r >= n \/ r >= MinSize)
  BY <1>3, EnsuredFacts DEF IntInv
<1>6. room' \in Nat
  BY <1>3, <1>4, <1>5, ConstantsInNat
<1>. QED BY <1>1, <1>6, Returned DEF IntInv

-----------------------------------------------------------------------------
(* The digits without separators.                                          *)
LEMMA PutsWhatItAsked ==
  ASSUME room \in Nat, NEW n \in Nat, n <= MinSize,
         NEW r \in PrintInt!Ensured(n), room' = r - n
  PROVE  room' \in Nat
BY EnsuredFacts, ConstantsInNat

LEMMA UngroupedKeeps ==
  ASSUME IntInv, NEW name, PrintInt!Ungrouped(name)
  PROVE  IntInv'
<1>1. todo # <<>> /\ arg' = arg /\ room \in Nat /\ IntControl
  BY DEF PrintInt!Ungrouped, PrintInt!Call, IntInv
<1>2. CASE PrintInt!Backwards /\ PrintInt!Return
  <2>. DEFINE n == PrintInt!DigCount(arg)
  <2>1. n \in Nat /\ n <= MinSize
    BY ArgFacts, CountFacts, ConstantsInNat DEF IntInv
  <2>2. PICK r \in PrintInt!Ensured(n) : room' = r - n
    BY <1>2 DEF PrintInt!Backwards
  <2>. HIDE DEF n
  <2>3. room' \in Nat
    BY <1>1, <2>1, <2>2, PutsWhatItAsked
  <2>. QED BY <1>1, <1>2, <2>3, Returned DEF IntInv
<1>3. CASE PrintInt!PutBit /\ PrintInt!Return
  <2>1. PICK r \in PrintInt!Ensured(1) : room' = r - 1
    BY <1>3 DEF PrintInt!PutBit, PrintInt!Put
  <2>2. room' \in Nat
    BY <1>1, <2>1, PutsWhatItAsked, ConstantsInNat
  <2>. QED BY <1>1, <1>3, <2>2, Returned DEF IntInv
<1>4. CASE PrintInt!Enter("bits") /\ room' = room
  <2>1. IntControl' /\ \A call : PrintInt!Call(call)' <=> call = "bits"
    BY <1>1, <1>4, Entered DEF Loops
  <2>2. IntRoom'
    BY <2>1 DEF IntRoom
  <2>. QED BY <1>1, <1>4, <2>1, <2>2 DEF IntInv
<1>. QED BY <1>2, <1>3, <1>4 DEF PrintInt!Ungrouped

LEMMA BitKeeps == ASSUME IntInv, PrintInt!Bit PROVE IntInv'
<1>1. todo # <<>> /\ Head(todo) = "bits" /\ arg' = arg /\ room \in Nat /\ IntControl
  BY DEF PrintInt!Bit, PrintInt!Call, IntInv
<1>2. PICK r \in PrintInt!Ensured(1) : room' = r - 1
  BY DEF PrintInt!Bit, PrintInt!Put
<1>3. room' \in Nat
  BY <1>1, <1>2, PutsWhatItAsked, ConstantsInNat
<1>4. CASE PrintInt!Return
  BY <1>1, <1>3, <1>4, Returned DEF IntInv
<1>5. CASE todo' = todo
  <2>1. IntControl' /\ IntRoom'
    BY <1>1, <1>5 DEF IntControl, IntRoom, PrintInt!Call
  <2>. QED BY <1>1, <1>3, <2>1 DEF IntInv
<1>. QED BY <1>4, <1>5 DEF PrintInt!Bit

LEMMA SeqOfMore ==
  ASSUME NEW S, NEW T, \A x \in S : x \in T, NEW s \in Seq(S)
  PROVE  s \in Seq(T)
OBVIOUS

(* The sizes that the loops with separators go through.                    *)
LEMMA SizesFacts ==
  ASSUME IntInv
  PROVE  /\ PrintInt!Sizes \in GroupsUpTo(MinSize)
         /\ Len(PrintInt!Sizes) <= arg.digits
         /\ Len(PrintInt!Sizes) > 1 => PrintInt!Sizes \in Seq(0 .. MinSize - 1)
<1>. DEFINE n == PrintInt!DigCount(arg)  s == PrintInt!Sizes
<1>1. n \in Nat /\ n <= arg.digits /\ arg.digits \in Nat /\ arg.digits >= 1 /\ n <= MinSize
  BY ArgFacts, CountFacts, ConstantsInNat DEF IntInv
<1>2. Bounded(s, n)
  BY <1>1, ArgFacts, SizesBounded DEF IntInv, PrintInt!Sizes
<1>. HIDE DEF n, s
<1>3. /\ \A x \in 0 .. n : x \in 0 .. MinSize
      /\ \A x \in 0 .. n - 1 : x \in 0 .. MinSize - 1
  BY <1>1, ConstantsInNat
<1>4. s \in Seq(0 .. MinSize) \ {<<>>}
  <2>1. s \in Seq(0 .. n) /\ s # <<>>
    BY <1>2 DEF Bounded, GroupsUpTo
  <2>2. s \in Seq(0 .. MinSize)
    BY <1>3, <2>1, SeqOfMore, Zenon
  <2>. QED BY <2>1, <2>2
<1>5. ASSUME Len(s) > 1 PROVE s \in Seq(0 .. MinSize - 1)
  <2>1. s \in Seq(0 .. n - 1)
    BY <1>2, <1>5 DEF Bounded
  <2>. QED BY <1>3, <2>1, SeqOfMore, Zenon
<1>6. Len(s) <= arg.digits
  BY <1>1, <1>2, <1>4 DEF Bounded
<1>. QED BY <1>4, <1>5, <1>6 DEF s, GroupsUpTo

LEMMA Reversed ==
  ASSUME NEW S, NEW s \in Seq(S)
  PROVE  /\ PrintInt!Reverse(s) \in Seq(S) /\ Len(PrintInt!Reverse(s)) = Len(s)
         /\ s # <<>> => Head(PrintInt!Reverse(s)) = PrintInt!Last(s)
<1>1. PrintInt!Reverse(s) = [i \in 1 .. Len(s) |-> s[(Len(s) - i) + 1]]
  BY DEF PrintInt!Reverse
<1>2. \A i \in 1 .. Len(s) : (Len(s) - i) + 1 \in 1 .. Len(s)
  OBVIOUS
<1>3. PrintInt!Reverse(s) \in Seq(S) /\ Len(PrintInt!Reverse(s)) = Len(s)
  BY <1>1, <1>2
<1>4. ASSUME s # <<>> PROVE PrintInt!Reverse(s)[1] = PrintInt!Last(s)
  BY <1>1, <1>4 DEF PrintInt!Last
<1>. QED BY <1>3, <1>4

(* The separators are put in front of every group but the first, in loops  *)
(* that start with the most significant group.                             *)
LEMMA LittleSepKeeps ==
  ASSUME IntInv, todo # <<>>, arg.base # "bin", PrintInt!LittleSep, PrintInt!Return, arg' = arg
  PROVE  IntInv'
<1>. DEFINE n == arg.digits + Len(PrintInt!Sizes) - 1
<1>1. PrintInt!Sizes \in Seq(0 .. MinSize) /\ PrintInt!Sizes # <<>>
  BY SizesFacts DEF GroupsUpTo
<1>2. Len(PrintInt!Sizes) \in Nat /\ Len(PrintInt!Sizes) >= 1
  BY <1>1
<1>3. n \in Nat /\ n <= MinSize
  BY <1>2, SizesFacts, ArgFacts, ConstantsInNat DEF IntInv
<1>4. PICK r \in PrintInt!Ensured(n) : room' = r - n
  BY DEF PrintInt!LittleSep, PrintInt!Put
<1>. HIDE DEF n
<1>5. room' \in Nat
  BY <1>3, <1>4, PutsWhatItAsked DEF IntInv
<1>. QED BY <1>5, Returned DEF IntInv

LEMMA TailOfOne ==
  ASSUME NEW S, NEW T, NEW s \in Seq(S), Len(s) = 1
  PROVE  Tail(s) \in Seq(T)
<1>1. Tail(s) \in Seq(S) /\ Len(Tail(s)) = 0
  OBVIOUS
<1>2. Tail(s) = <<>>
  BY <1>1, EmptySeq, Zenon
<1>3. <<>> \in Seq(T)
  OBVIOUS
<1>. QED BY <1>2, <1>3

LEMMA TailWithin ==
  ASSUME NEW S, NEW s \in Seq(S), s # <<>>
  PROVE  Head(s) \in S /\ Tail(s) \in Seq(S)
OBVIOUS

LEMMA LoopEntered ==
  ASSUME IntInv, NEW loop \in Loops, PrintInt!EnterLoop(loop)
  PROVE  /\ groups' \in GroupsUpTo(MinSize)
         /\ Head(groups') = PrintInt!Last(PrintInt!Sizes)
         /\ Tail(groups') \in Seq(0 .. MinSize - 1)
<1>. DEFINE s == PrintInt!Sizes
<1>1. s \in Seq(0 .. MinSize) /\ s # <<>> /\ (Len(s) > 1 => s \in Seq(0 .. MinSize - 1))
  BY SizesFacts DEF GroupsUpTo
<1>2. groups' = PrintInt!Reverse(s)
  BY DEF PrintInt!EnterLoop
<1>. HIDE DEF s
<1>3. groups' \in Seq(0 .. MinSize) /\ Len(groups') = Len(s) /\ Head(groups') = PrintInt!Last(s)
  BY <1>1, <1>2, Reversed
<1>4. groups' # <<>>
  BY <1>1, <1>3
<1>5. Tail(groups') \in Seq(0 .. MinSize - 1)
  <2>1. CASE Len(s) > 1
    <3>1. groups' \in Seq(0 .. MinSize - 1)
      BY <1>1, <1>2, <2>1, Reversed
    <3>. QED BY <1>4, <3>1, TailWithin
  <2>2. CASE ~(Len(s) > 1)
    <3>1. Len(groups') = 1
      BY <1>1, <1>3, <2>2
    <3>. QED BY <1>3, <3>1, TailOfOne
  <2>. QED BY <2>1, <2>2
<1>. QED BY <1>3, <1>4, <1>5 DEF s, GroupsUpTo

LEMMA WriteGroupedKeeps == ASSUME IntInv, PrintInt!WriteGrouped PROVE IntInv'
<1>1. CASE PrintInt!Ungrouped("grouped")
  BY <1>1, UngroupedKeeps
<1>2. ASSUME PrintInt!Call("grouped"), arg' = arg,
             arg.base # "bin", PrintInt!LittleSep, PrintInt!Return
      PROVE  IntInv'
  BY <1>2, LittleSepKeeps DEF PrintInt!Call
<1>3. ASSUME PrintInt!Call("grouped"), arg' = arg, NEW loop \in Loops,
             PrintInt!EnterLoop(loop), room' \in Nat,
             loop = "big_sep" => room' > 0,
             loop = "bits_little_sep" => PrintInt!Last(PrintInt!Sizes) <= room',
             loop \in {"big_sep", "bits_little_sep", "bits_big_sep"}
      PROVE  IntInv'
  <2>1. IntControl' /\ \A call : PrintInt!Call(call)' <=> call = loop
    <3>1. todo # <<>> /\ PrintInt!Enter(loop)
      BY <1>3 DEF PrintInt!Call, PrintInt!EnterLoop
    <3>. QED BY <1>3, <3>1, Entered DEF IntInv
  <2>2. /\ groups' \in GroupsUpTo(MinSize)
        /\ Head(groups') = PrintInt!Last(PrintInt!Sizes)
        /\ Tail(groups') \in Seq(0 .. MinSize - 1)
    BY <1>3, LoopEntered
  <2>3. IntRoom'
    BY <1>3, <2>1, <2>2 DEF IntRoom
  <2>. QED BY <1>3, <2>1, <2>3 DEF IntInv
<1>4. ASSUME PrintInt!EnterLoop("big_sep"), room' \in PrintInt!Ensured(1)
      PROVE  room' \in Nat /\ room' > 0
  BY <1>4, EnsuredFacts, ConstantsInNat DEF IntInv
<1>5. ASSUME room' \in PrintInt!Ensured(PrintInt!Last(PrintInt!Sizes))
      PROVE  room' \in Nat /\ PrintInt!Last(PrintInt!Sizes) <= room'
  <2>. DEFINE n == PrintInt!Last(PrintInt!Sizes)
  <2>1. n \in 0 .. MinSize
    BY SizesFacts, ConstantsInNat DEF GroupsUpTo, PrintInt!Last
  <2>. HIDE DEF n
  <2>2. room' \in Nat /\ (room' >= n \/ room' >= MinSize)
    BY <1>5, <2>1, EnsuredFacts DEF IntInv, n
  <2>3. n <= room'
    BY <2>1, <2>2, ConstantsInNat
  <2>. QED BY <2>2, <2>3 DEF n
<1>6. ASSUME PrintInt!Call("grouped"), arg' = arg,
             PrintInt!EnterLoop("big_sep"), room' \in PrintInt!Ensured(1)
      PROVE  IntInv'
  BY <1>3, <1>4, <1>6 DEF Loops
<1>7. ASSUME PrintInt!Call("grouped"), arg' = arg, PrintInt!EnterLoop("bits_little_sep"),
             room' \in PrintInt!Ensured(PrintInt!Last(PrintInt!Sizes))
      PROVE  IntInv'
  BY <1>3, <1>5, <1>7 DEF Loops
<1>8. ASSUME PrintInt!Call("grouped"), arg' = arg,
             PrintInt!EnterLoop("bits_big_sep"), room' = room
      PROVE  IntInv'
  BY <1>3, <1>8 DEF Loops, IntInv
<1>. QED BY <1>1, <1>2, <1>6, <1>7, <1>8 DEF PrintInt!WriteGrouped

-----------------------------------------------------------------------------
(* The loop of write_digits_big_sep.                                       *)
LEMMA BigSepDigitKeeps == ASSUME IntInv, PrintInt!BigSepDigit PROVE IntInv'
<1>1. PrintInt!Call("big_sep") /\ todo # <<>> /\ arg' = arg /\ room' = room - 1
  BY DEF PrintInt!BigSepDigit, PrintInt!Call, PrintInt!Put
<1>2. room' \in Nat
  BY <1>1 DEF IntInv, IntRoom
<1>3. CASE PrintInt!Return
  BY <1>1, <1>2, <1>3, Returned DEF IntInv
<1>4. CASE PrintInt!Enter("big_sep_room")
  <2>1. IntControl' /\ \A call : PrintInt!Call(call)' <=> call = "big_sep_room"
    BY <1>1, <1>4, Entered DEF IntInv, Loops
  <2>2. IntRoom'
    BY <2>1 DEF IntRoom
  <2>. QED BY <1>1, <1>2, <2>1, <2>2 DEF IntInv
<1>. QED BY <1>3, <1>4 DEF PrintInt!BigSepDigit

LEMMA BigSepRoomKeeps == ASSUME IntInv, PrintInt!BigSepRoom PROVE IntInv'
<1>1. /\ todo # <<>> /\ arg' = arg /\ PrintInt!Enter("big_sep") /\ room \in Nat
      /\ arg.sep \in Nat /\ arg.sep < MinSize
  BY ArgFacts DEF PrintInt!BigSepRoom, PrintInt!Call, IntInv
<1>2. PICK r \in IF PrintInt!NeedsRecycle THEN Windows ELSE {room} :
        room' = IF groups[1] = 0 THEN r - arg.sep ELSE r - 0
  BY DEF PrintInt!BigSepRoom, PrintInt!Put
<1>3. room' \in Nat /\ room' > 0
  <2>1. CASE PrintInt!NeedsRecycle
    <3>1. r \in Nat /\ r >= MinSize
      BY <1>2, <2>1, ConstantsInNat
    <3>. QED BY <1>1, <1>2, <3>1, ConstantsInNat
  <2>2. CASE ~PrintInt!NeedsRecycle
    <3>1. r = room /\ room # 0 /\ (groups[1] = 0 => ~(room <= arg.sep))
      BY <1>2, <2>2 DEF PrintInt!NeedsRecycle
    <3>. QED BY <1>1, <1>2, <3>1
  <2>. QED BY <2>1, <2>2
<1>4. IntControl' /\ \A call : PrintInt!Call(call)' <=> call = "big_sep"
  BY <1>1, Entered DEF IntInv, Loops
<1>5. IntRoom'
  BY <1>3, <1>4 DEF IntRoom
<1>. QED BY <1>1, <1>3, <1>4, <1>5 DEF IntInv

-----------------------------------------------------------------------------
(* The loops of intdigits_writer<2>.                                       *)
LEMMA BitGroupKeeps == ASSUME IntInv, PrintInt!BitGroup PROVE IntInv'
<1>1. /\ todo # <<>> /\ arg' = arg /\ room \in Nat /\ groups' = Tail(groups)
      /\ PrintInt!Call("bits_little_sep") \/ PrintInt!Call("bits_big_sep")
  BY DEF PrintInt!BitGroup, PrintInt!Call, IntInv
<1>2. groups \in Seq(0 .. MinSize) /\ groups # <<>>
  BY <1>1 DEF IntInv, IntRoom, GroupsUpTo
<1>3. Head(groups) \in 0 .. MinSize /\ Tail(groups) \in Seq(0 .. MinSize)
  BY <1>2, TailWithin
<1>4. room' \in Nat
  <2>1. CASE PrintInt!Call("bits_little_sep")
    <3>1. room' = room - Head(groups)
      BY <2>1 DEF PrintInt!BitGroup, PrintInt!Put, PrintInt!Call
    <3>2. Head(groups) <= room
      BY <2>1 DEF IntInv, IntRoom
    <3>. QED BY <1>1, <1>3, <3>1, <3>2
  <2>2. CASE ~PrintInt!Call("bits_little_sep")
    <3>. DEFINE n == Head(groups)
    <3>1. PICK r \in PrintInt!Ensured(n) : room' = r - n
      BY <2>2 DEF PrintInt!BitGroup, PrintInt!Put
    <3>2. n \in Nat /\ n <= MinSize
      BY <1>3, ConstantsInNat
    <3>. HIDE DEF n
    <3>. QED BY <1>1, <3>1, <3>2, PutsWhatItAsked
  <2>. QED BY <2>1, <2>2
<1>5. CASE groups' = <<>>
  <2>1. PrintInt!Return
    BY <1>5 DEF PrintInt!BitGroup
  <2>. QED BY <1>1, <1>4, <2>1, Returned DEF IntInv
<1>6. CASE groups' # <<>> /\ PrintInt!Call("bits_little_sep")
  <2>1. PrintInt!Enter("little_sep")
    BY <1>6 DEF PrintInt!BitGroup
  <2>2. IntControl' /\ \A call : PrintInt!Call(call)' <=> call = "little_sep"
    BY <1>1, <2>1, Entered DEF IntInv, Loops
  <2>3. groups' \in GroupsUpTo(MinSize - 1)
    BY <1>1, <1>6 DEF IntInv, IntRoom, GroupsUpTo
  <2>4. IntRoom'
    BY <2>2, <2>3 DEF IntRoom
  <2>. QED BY <1>1, <1>4, <2>2, <2>4 DEF IntInv
<1>7. CASE groups' # <<>> /\ ~PrintInt!Call("bits_little_sep")
  <2>1. PrintInt!Enter("big_bit_sep")
    BY <1>7 DEF PrintInt!BitGroup
  <2>2. IntControl' /\ \A call : PrintInt!Call(call)' <=> call = "big_bit_sep"
    BY <1>1, <2>1, Entered DEF IntInv, Loops
  <2>3. groups' \in GroupsUpTo(MinSize)
    BY <1>1, <1>3, <1>7 DEF GroupsUpTo
  <2>4. IntRoom'
    BY <2>2, <2>3 DEF IntRoom
  <2>. QED BY <1>1, <1>4, <2>2, <2>4 DEF IntInv
<1>. QED BY <1>5, <1>6, <1>7

(* The separator and the group behind it are asked for together.           *)
LEMMA BitSepKeeps == ASSUME IntInv, PrintInt!BitSep PROVE IntInv'
<1>1. /\ todo # <<>> /\ arg' = arg /\ room \in Nat /\ groups' = groups
      /\ arg.sep \in Nat /\ arg.sep < MinSize
  BY ArgFacts DEF PrintInt!BitSep, PrintInt!Call, IntInv
<1>2. CASE PrintInt!Call("little_sep") /\ PrintInt!Enter("bits_little_sep")
           /\ \E r \in PrintInt!Ensured(Head(groups) + 1) : PrintInt!Put(r, <<PrintInt!Separator>>, 1)
  <2>1. groups \in Seq(0 .. MinSize - 1) /\ groups # <<>>
    BY <1>2 DEF IntInv, IntRoom, GroupsUpTo
  <2>2. Head(groups) \in 0 .. MinSize - 1 /\ Tail(groups) \in Seq(0 .. MinSize - 1)
    BY <2>1, TailWithin
  <2>3. groups \in GroupsUpTo(MinSize)
    <3>1. \A x \in 0 .. MinSize - 1 : x \in 0 .. MinSize
      BY ConstantsInNat
    <3>2. groups \in Seq(0 .. MinSize)
      BY <2>1, <3>1, SeqOfMore, Zenon
    <3>. QED BY <2>1, <3>2 DEF GroupsUpTo
  <2>. DEFINE n == Head(groups) + 1
  <2>4. PICK r \in PrintInt!Ensured(n) : room' = r - 1
    BY <1>2 DEF PrintInt!Put
  <2>5. n \in Nat /\ n <= MinSize /\ n >= 1 /\ Head(groups) = n - 1
    BY <2>2, ConstantsInNat
  <2>. HIDE DEF n
  <2>6. r \in Nat /\ (r >= n \/ r >= MinSize)
    BY <1>1, <2>5, EnsuredFacts
  <2>7. room' \in Nat /\ Head(groups) <= room'
    BY <2>4, <2>5, <2>6, ConstantsInNat
  <2>8. IntControl' /\ \A call : PrintInt!Call(call)' <=> call = "bits_little_sep"
    BY <1>1, <1>2, Entered DEF IntInv, Loops
  <2>9. IntRoom'
    BY <1>1, <2>2, <2>3, <2>7, <2>8 DEF IntRoom
  <2>. QED BY <1>1, <2>7, <2>8, <2>9 DEF IntInv
<1>3. CASE PrintInt!Call("big_bit_sep") /\ PrintInt!Enter("bits_big_sep")
           /\ \E r \in PrintInt!Ensured(Head(groups) + arg.sep) :
                PrintInt!Put(r, <<PrintInt!Separator>>, arg.sep)
  <2>1. groups \in GroupsUpTo(MinSize)
    BY <1>3 DEF IntInv, IntRoom
  <2>2. Head(groups) \in Nat
    <3>1. groups \in Seq(0 .. MinSize) /\ groups # <<>>
      BY <2>1 DEF GroupsUpTo
    <3>2. Head(groups) \in 0 .. MinSize
      BY <3>1, TailWithin
    <3>. QED BY <3>2, ConstantsInNat
  <2>. DEFINE n == Head(groups) + arg.sep
  <2>3. PICK r \in PrintInt!Ensured(n) : room' = r - arg.sep
    BY <1>3 DEF PrintInt!Put
  <2>4. n \in Nat /\ n >= arg.sep
    BY <1>1, <2>2
  <2>. HIDE DEF n
  <2>5. r \in Nat /\ (r >= n \/ r >= MinSize)
    BY <1>1, <2>4, EnsuredFacts
  <2>6. room' \in Nat
    BY <1>1, <2>3, <2>4, <2>5, ConstantsInNat
  <2>7. IntControl' /\ \A call : PrintInt!Call(call)' <=> call = "bits_big_sep"
    BY <1>1, <1>3, Entered DEF IntInv, Loops
  <2>8. IntRoom'
    BY <1>1, <2>1, <2>7 DEF IntRoom
  <2>. QED BY <1>1, <2>6, <2>7, <2>8 DEF IntInv
<1>. QED BY <1>2, <1>3 DEF PrintInt!BitSep

-----------------------------------------------------------------------------
(* What print_to calls at first.                                           *)
LEMMA IntStarts == ASSUME PrintInt!Init PROVE IntInv
<1>1. arg \in Args /\ room \in Nat /\ todo = PrintInt!Calls(arg)
  BY ConstantsInNat DEF PrintInt!Init, Args
<1>2. arg.printer \in {"int", "punct", "format"} /\ arg.align \in {"left", "split", "center", "right"}
  BY <1>1, ArgFacts
<1>. DEFINE Others == Calls \ {"direct"}
            Plan(s) == /\ s \in Seq(Calls)
                       /\ \A i \in 1 .. Len(s) : s[i] = "direct" => arg.printer # "format"
<1>3. Plan(PrintInt!Calls(arg))
  <2>1. CASE arg.printer = "int" \/ arg.printer = "punct"
    <3>1. PrintInt!Calls(arg) = <<"direct">> \/ PrintInt!Calls(arg) = <<"complement", "grouped">>
      BY <2>1 DEF PrintInt!Calls
    <3>2. <<"direct">> \in Seq(Calls) /\ <<"complement", "grouped">> \in Seq(Calls)
      BY DEF Calls
    <3>3. arg.printer # "format"
      BY <2>1
    <3>. QED BY <3>1, <3>2, <3>3
  <2>2. CASE arg.printer = "format"
    <3>. DEFINE c == PrintInt!Content(arg)  w == PrintInt!WriteDigits(arg)
    <3>1. c \in Seq(Others) /\ w \in Seq(Others)
      <4>1. /\ <<"prefixed", "zeros", "digits">> \in Seq(Others)
            /\ <<"complement", "zeros", "grouped">> \in Seq(Others)
            /\ <<"zeros", "digits">> \in Seq(Others) /\ <<"zeros", "grouped">> \in Seq(Others)
        BY DEF Calls
      <4>. HIDE DEF Others
      <4>. QED BY <4>1, Zenon DEF PrintInt!Content, PrintInt!WriteDigits
    <3>2. /\ <<"fill">> \in Seq(Others) /\ <<"fill_half">> \in Seq(Others)
          /\ <<"fill_rest">> \in Seq(Others) /\ <<"complement", "fill">> \in Seq(Others)
      BY DEF Calls
    <3>3. \/ PrintInt!Calls(arg) = c
          \/ PrintInt!Calls(arg) = c \o <<"fill">>
          \/ PrintInt!Calls(arg) = <<"complement", "fill">> \o w
          \/ PrintInt!Calls(arg) = <<"fill_half">> \o c \o <<"fill_rest">>
          \/ PrintInt!Calls(arg) = <<"fill">> \o c
      <4>. HIDE DEF c, w
      <4>1. PrintInt!Content(arg) = c /\ PrintInt!WriteDigits(arg) = w
        BY DEF c, w
      <4>2. CASE PrintInt!FillCount(arg) = 0
        BY <2>2, <4>1, <4>2 DEF PrintInt!Calls
      <4>3. CASE PrintInt!FillCount(arg) # 0
        BY <1>2, <2>2, <4>1, <4>3 DEF PrintInt!Calls
      <4>. QED BY <4>2, <4>3
    <3>. HIDE DEF c, w, Others
    <3>4. PrintInt!Calls(arg) \in Seq(Others)
      <4>1. \A s, t \in Seq(Others) : s \o t \in Seq(Others)
        OBVIOUS
      <4>2. /\ c \o <<"fill">> \in Seq(Others) /\ <<"complement", "fill">> \o w \in Seq(Others)
            /\ <<"fill_half">> \o c \in Seq(Others) /\ <<"fill">> \o c \in Seq(Others)
        BY <3>1, <3>2, <4>1, Zenon
      <4>3. <<"fill_half">> \o c \o <<"fill_rest">> \in Seq(Others)
        BY <3>2, <4>1, <4>2, Zenon
      <4>. QED BY <3>1, <3>3, <4>2, <4>3, Zenon
    <3>5. \A s \in Seq(Others) : Plan(s)
      BY DEF Others
    <3>. HIDE DEF Plan
    <3>. QED BY <3>4, <3>5
  <2>. QED BY <1>2, <2>1, <2>2
<1>4. IntControl
  BY <1>1, <1>3 DEF IntControl
<1>5. ASSUME todo # <<>> PROVE Head(todo) \notin Loops
  BY <1>1, <1>3, <1>5 DEF Calls, Loops
<1>. QED BY <1>1, <1>4, <1>5 DEF IntInv, IntRoom, PrintInt!Call, Loops

(* Every step keeps what the loops rely on.                                *)
LEMMA IntStep == ASSUME IntInv, [PrintInt!Next]_(PrintInt!vars) PROVE IntInv'
<1>1. CASE PrintInt!Next
  <2>1. CASE todo = <<>> /\ UNCHANGED PrintInt!vars
    BY <2>1 DEF IntInv, IntControl, IntRoom, PrintInt!vars, PrintInt!Call
  <2>. QED BY <1>1, <2>1, FillKeeps, ZerosKeeps, PrefixedKeeps, ComplementKeeps, DirectKeeps,
              UngroupedKeeps, BitKeeps, WriteGroupedKeeps, BigSepDigitKeeps, BigSepRoomKeeps,
              BitGroupKeeps, BitSepKeeps DEF PrintInt!Next, PrintInt!WriteDigitsOnly
<1>2. CASE UNCHANGED PrintInt!vars
  BY <1>2 DEF IntInv, IntControl, IntRoom, PrintInt!vars, PrintInt!Call
<1>. QED BY <1>1, <1>2

(* The invariant of the printers of integers.                              *)
IntInvariant == type \in {"int", "float"} /\ (type = "int" => IntInv)

THEOREM IntInvariance == Spec => []IntInvariant
<1>1. Init => IntInvariant
  BY IntStarts DEF Init, IntInvariant
<1>2. IntInvariant /\ [Next]_vars => IntInvariant'
  <2>. SUFFICES ASSUME IntInvariant, [Next]_vars PROVE IntInvariant'
    OBVIOUS
  <2>1. CASE type = "int" /\ [PrintInt!Next]_(PrintInt!vars) /\ type' = type
    BY <2>1, IntStep DEF IntInvariant
  <2>2. CASE type # "int" /\ type' = type
    BY <2>2 DEF IntInvariant
  <2>. QED BY <2>1, <2>2 DEF Next, vars, ofInt, PrintInt!vars
<1>. QED BY <1>1, <1>2, PTL DEF Spec

(* No loop of a printer of integers stores beyond the end of its window,   *)
(* for all groupings, separators, precisions and widths, and whatever room *)
(* recycle() leaves: with the 64 units that the code counts on, a number of*)
(* 64 bits has 64 digits and a number in base 8 has 22.                    *)
THEOREM IntPrintsInWindow == Spec => []IntWindowSafe
<1>1. IntInvariant => IntWindowSafe
  BY DEF IntInvariant, IntInv, IntWindowSafe, PrintInt!WindowSafe
<1>. QED BY <1>1, IntInvariance, PTL

-----------------------------------------------------------------------------
(* What the sizes of groups have to do with the grouping: but for the last *)
(* one they are its sizes, from the i-th on; together they are k; and how  *)
(* many digits are left before each of them is a sequence of its own.      *)
NthSize(g, i) == IF i <= Len(g) THEN g[i] ELSE g[Len(g)]

Follows(s, g, i) ==
  \A j \in 1 .. Len(s) :
    LET size == NthSize(g, i + j - 1) IN
    IF j < Len(s) THEN s[j] = size ELSE size = 0 \/ size >= s[j]

AddsUp(left, s, k) ==
  /\ left \in [1 .. Len(s) + 1 -> Nat]
  /\ left[1] = k /\ left[Len(s) + 1] = 0
  /\ \A j \in 1 .. Len(s) : left[j] = s[j] + left[j + 1]

Shape(s, g, i, k) ==
  /\ s \in Seq(Nat) \ {<<>>} /\ \A j \in 1 .. Len(s) : s[j] # 0
  /\ Follows(s, g, i)
  /\ \E left : AddsUp(left, s, k)

LEMMA LastShape ==
  ASSUME NEW g \in Seq(Nat) \ {<<>>}, NEW i \in Nat \ {0}, NEW k \in Nat, k # 0,
         NthSize(g, i) = 0 \/ NthSize(g, i) >= k
  PROVE  Shape(<<k>>, g, i, k)
<1>. DEFINE s == <<k>>  left == [j \in 1 .. 2 |-> IF j = 1 THEN k ELSE 0]
<1>1. s \in Seq(Nat) \ {<<>>} /\ Len(s) = 1 /\ s[1] = k
  OBVIOUS
<1>2. \A j \in 1 .. Len(s) : j = 1
  BY <1>1
<1>3. Follows(s, g, i)
  <2>1. i + 1 - 1 = i
    OBVIOUS
  <2>. HIDE DEF s
  <2>. QED BY <1>1, <1>2, <2>1 DEF Follows
<1>4. AddsUp(left, s, k)
  <2>1. left \in [1 .. Len(s) + 1 -> Nat] /\ left[1] = k /\ left[Len(s) + 1] = 0
    BY <1>1
  <2>. HIDE DEF left, s
  <2>2. \A j \in 1 .. Len(s) : left[j] = s[j] + left[j + 1]
    BY <1>1, <1>2, <2>1
  <2>. QED BY <2>1, <2>2 DEF AddsUp
<1>. HIDE DEF s, left
<1>5. Shape(s, g, i, k)
  BY <1>1, <1>2, <1>3, <1>4 DEF Shape
<1>. QED BY <1>5 DEF s

(* The elements of a sequence that something is put in front of.           *)
LEMMA InFront ==
  ASSUME NEW S, NEW x \in S, NEW r \in Seq(S)
  PROVE  /\ <<x>> \o r \in Seq(S) \ {<<>>} /\ Len(<<x>> \o r) = 1 + Len(r)
         /\ (<<x>> \o r)[1] = x
         /\ \A j \in 2 .. 1 + Len(r) : (<<x>> \o r)[j] = r[j - 1]
OBVIOUS

LEMMA MoreShape ==
  ASSUME NEW g \in Seq(Nat) \ {<<>>}, NEW i \in Nat \ {0}, NEW k \in Nat,
         NEW size \in Nat, size = NthSize(g, i), size # 0, size < k,
         NEW r, Shape(r, g, i + 1, k - size)
  PROVE  Shape(<<size>> \o r, g, i, k)
<1>. DEFINE s == <<size>> \o r
<1>1. r \in Seq(Nat) /\ r # <<>> /\ Len(r) \in Nat /\ Len(r) >= 1
  BY DEF Shape
<1>2. /\ s \in Seq(Nat) \ {<<>>} /\ Len(s) = 1 + Len(r) /\ s[1] = size
      /\ \A j \in 2 .. 1 + Len(r) : s[j] = r[j - 1]
  BY <1>1, InFront
<1>3. PICK before : AddsUp(before, r, k - size)
  BY DEF Shape
<1>. DEFINE left == [j \in 1 .. Len(r) + 2 |-> IF j = 1 THEN k ELSE before[j - 1]]
<1>. HIDE DEF s
<1>4. \A j \in 2 .. Len(s) : j - 1 \in 1 .. Len(r) /\ s[j] = r[j - 1]
  BY <1>1, <1>2
<1>5. \A j \in 1 .. Len(s) : s[j] # 0
  <2>1. \A j \in 1 .. Len(s) : j = 1 \/ j \in 2 .. Len(s)
    BY <1>1, <1>2
  <2>. QED BY <1>2, <1>4, <2>1 DEF Shape
<1>6. Follows(s, g, i)
  <2>. SUFFICES ASSUME NEW j \in 1 .. Len(s)
                PROVE  LET z == NthSize(g, i + j - 1) IN
                       IF j < Len(s) THEN s[j] = z ELSE z = 0 \/ z >= s[j]
    BY DEF Follows
  <2>1. CASE j = 1
    <3>1. i + j - 1 = i /\ j < Len(s)
      BY <1>1, <1>2, <2>1
    <3>. QED BY <1>2, <2>1, <3>1
  <2>2. CASE j # 1
    <3>1. j \in 2 .. Len(s) /\ j - 1 \in 1 .. Len(r) /\ s[j] = r[j - 1]
      BY <1>2, <1>4, <2>2, SMTT(60)
    <3>a. i \in Nat /\ j \in Nat /\ Len(s) = 1 + Len(r)
      BY <1>2, <3>1
    <3>2. (i + 1) + (j - 1) - 1 = i + j - 1 /\ (j - 1 < Len(r) <=> j < Len(s))
      <4>. HIDE DEF Shape
      <4>. QED BY <1>1, <3>a
    <3>3. LET z == NthSize(g, (i + 1) + (j - 1) - 1) IN
          IF j - 1 < Len(r) THEN r[j - 1] = z ELSE z = 0 \/ z >= r[j - 1]
      BY <3>1 DEF Shape, Follows
    <3>. QED BY <3>1, <3>2, <3>3
  <2>. QED BY <2>1, <2>2
<1>7. AddsUp(left, s, k)
  <2>1. /\ before \in [1 .. Len(r) + 1 -> Nat] /\ before[1] = k - size
        /\ before[Len(r) + 1] = 0
        /\ \A j \in 1 .. Len(r) : before[j] = r[j] + before[j + 1]
    BY <1>3 DEF AddsUp
  <2>a. Len(s) + 1 = Len(r) + 2 /\ 1 \in 1 .. Len(s) + 1
    BY <1>1, <1>2
  <2>b. \A j \in 1 .. Len(r) + 2 : j = 1 \/ j - 1 \in 1 .. Len(r) + 1
    BY <1>1
  <2>c. left \in [1 .. Len(r) + 2 -> Nat] /\ left[1] = k
    BY <2>1, <2>a, <2>b
  <2>2. /\ left \in [1 .. Len(s) + 1 -> Nat] /\ left[1] = k
        /\ \A j \in 2 .. Len(s) + 1 : left[j] = before[j - 1]
    <3>1. \A j \in 2 .. Len(s) + 1 : j \in 1 .. Len(r) + 2 /\ j # 1
      BY <1>1, <2>a
    <3>2. \A j \in 2 .. Len(s) + 1 : left[j] = before[j - 1]
      BY <3>1
    <3>. HIDE DEF left
    <3>. QED BY <2>a, <2>c, <3>2
  <2>. HIDE DEF left
  <2>3. left[Len(s) + 1] = 0
    <3>1. Len(s) + 1 \in 2 .. Len(s) + 1 /\ (Len(s) + 1) - 1 = Len(r) + 1
      BY <1>1, <2>a
    <3>. QED BY <2>1, <2>2, <3>1
  <2>4. ASSUME NEW j \in 1 .. Len(s) PROVE left[j] = s[j] + left[j + 1]
    <3>1. CASE j = 1
      BY <1>1, <1>2, <2>1, <2>2, <3>1
    <3>2. CASE j # 1
      <4>1. j \in 2 .. Len(s) /\ j + 1 \in 2 .. Len(s) + 1 /\ j \in 2 .. Len(s) + 1
        BY <1>1, <1>2, <3>2, SMTT(60)
      <4>2. left[j] = before[j - 1] /\ left[j + 1] = before[(j - 1) + 1]
        BY <2>2, <4>1
      <4>. QED BY <1>4, <2>1, <4>1, <4>2
    <3>. QED BY <3>1, <3>2
  <2>. QED BY <2>2, <2>3, <2>4 DEF AddsUp
<1>8. Shape(s, g, i, k)
  BY <1>2, <1>5, <1>6, <1>7 DEF Shape
<1>. QED BY <1>8 DEF s

(* The last size is repeated.                                              *)
LEMMA RepeatedShape ==
  ASSUME NEW g \in Seq(Nat) \ {<<>>}, NEW s, NEW k, Shape(s, g, Len(g), k)
  PROVE  Shape(s, g, Len(g) + 1, k)
<1>1. Len(g) \in Nat /\ s \in Seq(Nat) /\ Len(s) \in Nat
  BY DEF Shape
<1>2. \A j \in 1 .. Len(s) : NthSize(g, Len(g) + 1 + j - 1) = NthSize(g, Len(g) + j - 1)
  BY <1>1 DEF NthSize
<1>3. Follows(s, g, Len(g) + 1)
  BY <1>2 DEF Shape, Follows
<1>. QED BY <1>3 DEF Shape

LEMMA SizesShape ==
  ASSUME NEW g \in Seq(Nat) \ {<<>>}, NEW n \in Nat, n # 0
  PROVE  Shape(PrintInt!GroupSizes(g, n), g, 1, n)
<1>. DEFINE D == SizesDomain(g, n)  Stop == SizesStop(g, n)  nx == SizesNext(g, n)
            rank == [x \in D |-> x[2]]  from == SizesFrom(g, n)
            T == {x \in D : x[2] # 0 => Shape(from[x], g, x[1], x[2])}
<1>1. Len(g) \in Nat /\ Len(g) >= 1 /\ \A i \in 1 .. Len(g) : g[i] \in Nat
  OBVIOUS
<1>2. \A x \in D : x[1] \in 1 .. Len(g) /\ x[2] \in Nat
  BY <1>1 DEF SizesDomain
<1>3. \A x \in D : from[x] = IF x \in Stop THEN <<x[2]>> ELSE <<g[x[1]]>> \o from[nx[x]]
  BY SizesSteps, ZenonT(60)
<1>4. ASSUME NEW x \in D, x \in Stop PROVE x \in T
  <2>. SUFFICES ASSUME x[2] # 0 PROVE Shape(from[x], g, x[1], x[2])
    OBVIOUS
  <2>1. from[x] = <<x[2]>>
    BY <1>3, <1>4
  <2>2. g[x[1]] = 0 \/ g[x[1]] >= x[2]
    BY <1>4 DEF SizesStop
  <2>3. NthSize(g, x[1]) = g[x[1]] /\ x[1] \in Nat \ {0} /\ x[2] \in Nat
    BY <1>1, <1>2 DEF NthSize
  <2>. HIDE DEF from, D
  <2>. QED BY <2>1, <2>2, <2>3, LastShape
<1>5. ASSUME NEW x \in D, x \notin Stop, nx[x] \in T PROVE x \in T
  <2>. SUFFICES ASSUME x[2] # 0 PROVE Shape(from[x], g, x[1], x[2])
    OBVIOUS
  <2>. DEFINE i == x[1]  k == x[2]  size == g[x[1]]
  <2>1. i \in 1 .. Len(g) /\ k \in Nat /\ size \in Nat
    BY <1>1, <1>2
  <2>2. size # 0 /\ size < k
    BY <1>5, <2>1 DEF SizesStop
  <2>3. nx[x] = <<IF i < Len(g) THEN i + 1 ELSE i, k - size>>
    BY <1>5 DEF SizesNext
  <2>4. Shape(from[nx[x]], g, IF i < Len(g) THEN i + 1 ELSE i, k - size)
    <3>1. nx[x][2] # 0 /\ nx[x][2] = k - size /\ nx[x][1] = IF i < Len(g) THEN i + 1 ELSE i
      BY <2>1, <2>2, <2>3
    <3>2. Shape(from[nx[x]], g, nx[x][1], nx[x][2])
      BY <1>5, <3>1
    <3>. QED BY <3>1, <3>2
  <2>5. Shape(from[nx[x]], g, i + 1, k - size)
    <3>1. CASE i < Len(g)
      BY <2>4, <3>1
    <3>2. CASE ~(i < Len(g))
      <4>1. i = Len(g)
        BY <1>1, <2>1, <3>2
      <4>2. Shape(from[nx[x]], g, Len(g), k - size)
        BY <2>4, <4>1
      <4>. HIDE DEF from, nx, i, k, size
      <4>. QED BY <4>1, <4>2, RepeatedShape
    <3>. QED BY <3>1, <3>2
  <2>6. from[x] = <<size>> \o from[nx[x]]
    BY <1>3, <1>5
  <2>7. size = NthSize(g, i) /\ i \in Nat \ {0}
    BY <1>1, <2>1 DEF NthSize
  <2>8. Shape(from[x], g, i, k)
    <3>. HIDE DEF from, nx, i, k, size
    <3>. QED BY <2>1, <2>2, <2>5, <2>6, <2>7, MoreShape
  <2>. QED BY <2>8
<1>6. \A x \in D : x \in T
  <2>1. Descends(D, Stop, nx, rank, n)
    BY SizesSteps
  <2>. HIDE DEF T, D, Stop, nx, rank
  <2>2. KeptUpwards(D, Stop, nx, T)
    BY <1>4, <1>5, Zenon DEF KeptUpwards
  <2>. QED BY <2>1, <2>2, ByRank, Zenon
<1>7. <<1, n>> \in T
  BY <1>6, SizesLoop
<1>8. Shape(from[<<1, n>>], g, 1, n)
  BY <1>7
<1>. QED BY <1>8, SizesSteps

(* Before every group fewer digits are left.                               *)
LEMMA LeftFalls ==
  ASSUME NEW s \in Seq(Nat), \A j \in 1 .. Len(s) : s[j] # 0,
         NEW n, NEW left, AddsUp(left, s, n)
  PROVE  \A i, j \in 1 .. Len(s) + 1 : i <= j => left[j] + (j - i) <= left[i]
<1>. DEFINE m == Len(s) + 1
            P(d) == \A i \in 1 .. m : i + d \in 1 .. m => left[i + d] + d <= left[i]
            S == {d \in Nat : P(d)}
<1>1. /\ m \in Nat /\ left \in [1 .. m -> Nat]
      /\ \A j \in 1 .. Len(s) : left[j] = s[j] + left[j + 1] /\ s[j] \in Nat /\ s[j] # 0
  BY DEF AddsUp
<1>2. 0 \in S
  <2>1. \A i \in 1 .. m : i + 0 = i /\ left[i] \in Nat
    BY <1>1
  <2>. QED BY <2>1
<1>3. ASSUME NEW d \in Nat, d \in S PROVE d + 1 \in S
  <2>1. ASSUME NEW i \in 1 .. m, i + (d + 1) \in 1 .. m
        PROVE  left[i + (d + 1)] + (d + 1) <= left[i]
    <3>1. i + d \in 1 .. Len(s) /\ i + d \in 1 .. m /\ (i + d) + 1 = i + (d + 1)
      BY <1>1, <2>1
    <3>2. left[i + d] + d <= left[i]
      BY <1>3, <3>1
    <3>3. left[i + d] = s[i + d] + left[i + (d + 1)] /\ s[i + d] \in Nat /\ s[i + d] # 0
      BY <1>1, <3>1
    <3>4. left[i + d] \in Nat /\ left[i + (d + 1)] \in Nat /\ left[i] \in Nat
      BY <1>1, <2>1, <3>1
    <3>. HIDE DEF S, m
    <3>. QED BY <3>2, <3>3, <3>4, SMTT(60)
  <2>. QED BY <2>1
<1>4. \A d \in Nat : d \in S
  <2>. HIDE DEF S
  <2>. QED BY <1>2, <1>3, Induct
<1>5. ASSUME NEW i \in 1 .. m, NEW j \in 1 .. m, i <= j
      PROVE  left[j] + (j - i) <= left[i]
  <2>1. j - i \in Nat /\ i + (j - i) = j
    BY <1>1, <1>5
  <2>2. P(j - i)
    BY <1>4, <2>1
  <2>. QED BY <2>1, <2>2
<1>. QED BY <1>5

(* The sums in the definition of GroupEnds.                                *)
TogetherFrom(g, n) ==
  LET nth(i) == IF i <= Len(g) THEN g[i] ELSE PrintInt!Last(g)
      together[m \in 0 .. n] == IF m = 0 THEN 0 ELSE nth(m) + together[m - 1]
  IN together

LEMMA TogetherSteps ==
  ASSUME NEW g \in Seq(Nat) \ {<<>>}, NEW n \in Nat
  PROVE  /\ PrintInt!GroupEnds(g, n) =
              {j \in 1 .. n - 1 : \E m \in 1 .. n :
                 (\A i \in 1 .. m : NthSize(g, i) # 0) /\ TogetherFrom(g, n)[m] = j}
         /\ TogetherFrom(g, n)[0] = 0
         /\ \A m \in 1 .. n :
              TogetherFrom(g, n)[m] = NthSize(g, m) + TogetherFrom(g, n)[m - 1]
<1>. DEFINE D == 0 .. n  Stop == {0}
            nx == [m \in D |-> IF m = 0 THEN 0 ELSE m - 1]
            rank == [m \in D |-> m]  b == [m \in D |-> 0]  z == [m \in D |-> NthSize(g, m)]
            V(f, m) == IF m = 0 THEN 0
                       ELSE (IF m <= Len(g) THEN g[m] ELSE PrintInt!Last(g)) + f[m - 1]
            from == TogetherFrom(g, n)
<1>1. PrintInt!GroupEnds(g, n) =
        {j \in 1 .. n - 1 : \E m \in 1 .. n :
           (\A i \in 1 .. m : NthSize(g, i) # 0) /\ from[m] = j}
  BY DEF PrintInt!GroupEnds, TogetherFrom, NthSize, PrintInt!Last
<1>2. Descends(D, Stop, nx, rank, n)
  BY DEF Descends
<1>3. ASSUME NEW f, NEW m \in D
      PROVE  V(f, m) = IF m \in Stop THEN b[m] ELSE Onto("add", z[m], f[nx[m]])
  BY DEF Onto, NthSize, PrintInt!Last
<1>. HIDE DEF D, Stop, nx, b, z, rank
<1>4. Recursive(D, Stop, nx, b, z, "add")
  BY <1>2, RecursionExists, Zenon
<1>5. PICK f : f = [m \in D |-> V(f, m)]
  <2>. HIDE DEF V
  <2>1. PICK f : f = [m \in D |-> IF m \in Stop THEN b[m] ELSE Onto("add", z[m], f[nx[m]])]
    BY <1>4 DEF Recursive
  <2>2. [m \in D |-> IF m \in Stop THEN b[m] ELSE Onto("add", z[m], f[nx[m]])]
         = [m \in D |-> V(f, m)]
    BY <1>3, Zenon
  <2>. QED BY <2>1, <2>2, Zenon
<1>6. from = [m \in D |-> V(from, m)]
  BY <1>5, Zenon DEF D, TogetherFrom
<1>. HIDE DEF from
<1>7. \A m \in D : from[m] = IF m = 0 THEN 0 ELSE NthSize(g, m) + from[m - 1]
  <2>1. \A m \in D : from[m] = V(from, m)
    <3>. HIDE DEF V
    <3>. QED BY <1>6, Zenon
  <2>. QED BY <2>1 DEF NthSize, PrintInt!Last
<1>8. from[0] = 0 /\ \A m \in 1 .. n : from[m] = NthSize(g, m) + from[m - 1]
  BY <1>7 DEF D
<1>. QED BY <1>1, <1>8 DEF from

(* The groups end where GroupEnds says that they do: the sizes that the    *)
(* loop makes are those that the grouping means.                           *)
LEMMA SizesEnd ==
  ASSUME NEW g \in Seq(Nat) \ {<<>>}, NEW n \in Nat, NEW s, Shape(s, g, 1, n),
         NEW left, AddsUp(left, s, n)
  PROVE  PrintInt!GroupEnds(g, n) = {n - left[i] : i \in 2 .. Len(s)}
<1>. DEFINE from == TogetherFrom(g, n)  l == Len(s)
<1>1. s \in Seq(Nat) /\ l \in Nat /\ l >= 1 /\ \A j \in 1 .. l : s[j] \in Nat /\ s[j] # 0
  BY DEF Shape
<1>2. /\ left \in [1 .. l + 1 -> Nat] /\ left[1] = n /\ left[l + 1] = 0
      /\ \A j \in 1 .. l : left[j] = s[j] + left[j + 1]
  BY DEF AddsUp
<1>3. \A i, j \in 1 .. l + 1 : i <= j => left[j] + (j - i) <= left[i]
  BY <1>1, LeftFalls
<1>4. l <= n
  <2>1. left[l + 1] + ((l + 1) - 1) <= left[1]
    BY <1>1, <1>3, SMTT(60)
  <2>. QED BY <1>1, <1>2, <2>1
<1>5. \A i \in Nat : NthSize(g, i + 1) \in Nat
  BY DEF NthSize
<1>6. \A j \in 1 .. l : NthSize(g, 1 + j - 1) = NthSize(g, j)
  BY <1>1
<1>7. \A j \in 1 .. l : IF j < l THEN s[j] = NthSize(g, j)
                        ELSE NthSize(g, j) = 0 \/ NthSize(g, j) >= s[j]
  BY <1>6 DEF Shape, Follows
<1>8. from[0] = 0 /\ \A m \in 1 .. n : from[m] = NthSize(g, m) + from[m - 1]
  BY TogetherSteps
<1>9. PrintInt!GroupEnds(g, n) =
        {j \in 1 .. n - 1 : \E m \in 1 .. n :
           (\A i \in 1 .. m : NthSize(g, i) # 0) /\ from[m] = j}
  BY TogetherSteps
<1>. HIDE DEF from, l
(* Up to the last group.                                                   *)
<1>10. \A m \in Nat : m < l => from[m] = n - left[m + 1]
  <2>. DEFINE S == {m \in Nat : m < l => from[m] = n - left[m + 1]}
  <2>1. 0 \in S
    BY <1>2, <1>8
  <2>2. ASSUME NEW m \in Nat, m \in S PROVE m + 1 \in S
    <3>. SUFFICES ASSUME m + 1 < l PROVE from[m + 1] = n - left[(m + 1) + 1]
      OBVIOUS
    <3>1. m + 1 \in 1 .. l /\ m + 1 \in 1 .. n /\ m < l /\ (m + 1) - 1 = m
      BY <1>1, <1>4
    <3>2. from[m + 1] = NthSize(g, m + 1) + from[m] /\ from[m] = n - left[m + 1]
      BY <1>8, <2>2, <3>1
    <3>3. NthSize(g, m + 1) = s[m + 1] /\ s[m + 1] \in Nat
      BY <1>1, <1>7, <3>1
    <3>4. left[m + 1] = s[m + 1] + left[(m + 1) + 1]
      BY <1>2, <3>1
    <3>5. left[m + 1] \in Nat /\ left[(m + 1) + 1] \in Nat
      BY <1>1, <1>2, <3>1
    <3>. QED BY <3>2, <3>3, <3>4, <3>5, SMTT(60)
  <2>. HIDE DEF S
  <2>3. \A m \in Nat : m \in S
    BY <2>1, <2>2, Induct
  <2>. QED BY <2>3 DEF S
(* And from it on.                                                         *)
<1>11. \A m \in Nat : m >= l /\ m <= n /\ (\A i \in 1 .. m : NthSize(g, i) # 0) => from[m] >= n
  <2>. DEFINE S == {m \in Nat : m >= l /\ m <= n /\ (\A i \in 1 .. m : NthSize(g, i) # 0)
                                => from[m] \in Nat /\ from[m] >= n}
  <2>1. 0 \in S
    BY <1>1
  <2>2. ASSUME NEW m \in Nat, m \in S PROVE m + 1 \in S
    <3>. SUFFICES ASSUME m + 1 >= l, m + 1 <= n, \A i \in 1 .. m + 1 : NthSize(g, i) # 0
                  PROVE  from[m + 1] \in Nat /\ from[m + 1] >= n
      OBVIOUS
    <3>1. m + 1 \in 1 .. n /\ (m + 1) - 1 = m /\ NthSize(g, m + 1) \in Nat
      BY <1>5
    <3>2. from[m + 1] = NthSize(g, m + 1) + from[m]
      BY <1>8, <3>1
    <3>3. CASE m >= l
      <4>1. \A i \in 1 .. m : i \in 1 .. m + 1
        OBVIOUS
      <4>2. from[m] \in Nat /\ from[m] >= n
        BY <2>2, <3>3, <4>1
      <4>. QED BY <3>1, <3>2, <4>2
    <3>4. CASE ~(m >= l)
      <4>1. m + 1 = l /\ m < l /\ l \in 1 .. l
        BY <1>1, <3>4
      <4>2. from[m] = n - left[l]
        BY <1>10, <4>1
      <4>3. left[l] = s[l] /\ s[l] \in Nat
        BY <1>1, <1>2, <4>1
      <4>4. NthSize(g, l) >= s[l]
        BY <1>7, <4>1
      <4>. QED BY <3>1, <3>2, <4>1, <4>2, <4>3, <4>4
    <3>. QED BY <3>3, <3>4
  <2>. HIDE DEF S
  <2>3. \A m \in Nat : m \in S
    BY <2>1, <2>2, Induct
  <2>. QED BY <2>3 DEF S
<1>12. ASSUME NEW j \in PrintInt!GroupEnds(g, n) PROVE \E i \in 2 .. l : j = n - left[i]
  <2>1. PICK m \in 1 .. n : (\A i \in 1 .. m : NthSize(g, i) # 0) /\ from[m] = j
    BY <1>9
  <2>2. j \in 1 .. n - 1
    BY <1>9
  <2>3. m < l
    BY <1>1, <1>11, <2>1, <2>2
  <2>4. m + 1 \in 2 .. l /\ j = n - left[m + 1]
    BY <1>1, <1>10, <2>1, <2>3
  <2>. QED BY <2>4
<1>13. ASSUME NEW i \in 2 .. l PROVE n - left[i] \in PrintInt!GroupEnds(g, n)
  <2>. DEFINE m == i - 1
  <2>1. m \in Nat /\ m \in 1 .. n /\ m < l /\ m + 1 = i /\ i \in 1 .. l + 1
    BY <1>1, <1>4
  <2>2. from[m] = n - left[i]
    BY <1>10, <2>1
  <2>3. \A k \in 1 .. m : NthSize(g, k) # 0
    <3>1. \A k \in 1 .. m : k \in 1 .. l /\ k < l
      BY <1>1, <2>1
    <3>. QED BY <1>1, <1>7, <3>1
  <2>4. left[i] \in Nat /\ left[i] + (i - 1) <= n
    <3>1. 1 \in 1 .. l + 1 /\ 1 <= i
      BY <1>1
    <3>2. left[i] + (i - 1) <= left[1]
      BY <1>3, <2>1, <3>1
    <3>. QED BY <1>2, <2>1, <3>2
  <2>5. left[l + 1] + ((l + 1) - i) <= left[i]
    BY <1>1, <1>3, <2>1
  <2>6. n - left[i] \in 1 .. n - 1
    <3>1. i \in Nat /\ i >= 2 /\ i <= l
      BY <1>1
    <3>a. left[l + 1] = 0
      BY <1>2
    <3>b. (l + 1) - i <= left[i] /\ l \in Nat
      BY <1>1, <2>5, <3>a, <3>1
    <3>2. left[i] \in Nat /\ left[i] >= 1 /\ left[i] <= n - 1
      BY <2>4, <3>1, <3>b
    <3>. QED BY <3>2
  <2>. QED BY <1>9, <2>1, <2>2, <2>3, <2>6
<1>. QED BY <1>12, <1>13 DEF l

(* The first k digits with the separators in front of some of them (gaps), *)
(* and what stands in front of the digit k.                                *)
Ahead(F, gaps, k) == F[k - 1] \o (IF k \in gaps THEN <<PrintInt!Separator>> ELSE <<>>)

Laid(F, gaps, n) ==
  /\ n \in Nat
  /\ F[0] = <<>>
  /\ \A k \in 0 .. n : F[k] \in Seq(Int)
  /\ \A k \in 1 .. n : F[k] = Ahead(F, gaps, k) \o <<k>>

(* The function in the definition of Grouped, and the digits that have a   *)
(* separator in front of them.                                             *)
FirstDigits(a) ==
  LET first[k \in 0 .. a.digits] ==
        IF k = 0 THEN <<>>
        ELSE first[k - 1] \o (IF a.digits - k + 1 \in PrintInt!Ends(a)
                              THEN <<PrintInt!Separator, k>> ELSE <<k>>)
  IN first
GapsOf(a) == {k \in 1 .. a.digits : a.digits - k + 1 \in PrintInt!Ends(a)}

LEMMA PutTwo ==
  ASSUME NEW r \in Seq(Int), NEW x \in Int, NEW y \in Int
  PROVE  (r \o <<x>>) \o <<y>> = r \o <<x, y>> /\ (r \o <<>>) \o <<y>> = r \o <<y>>
<1>1. <<x>> \o <<y>> = <<x, y>>
  <2>. DEFINE s == <<x>> \o <<y>>  t == <<x, y>>
  <2>1. s \in Seq(Int) /\ Len(s) = 2 /\ s[1] = x /\ s[2] = y
    OBVIOUS
  <2>2. t \in Seq(Int) /\ Len(t) = 2 /\ t[1] = x /\ t[2] = y
    OBVIOUS
  <2>. HIDE DEF s, t
  <2>3. \A i \in 1 .. Len(s) : i = 1 \/ i = 2
    BY <2>1
  <2>4. \A i \in 1 .. Len(s) : s[i] = t[i]
    BY <2>1, <2>2, <2>3
  <2>5. s = t
    BY <2>1, <2>2, <2>4, SeqEqual
  <2>. QED BY <2>5 DEF s, t
<1>2. <<x>> \in Seq(Int) /\ <<y>> \in Seq(Int)
  OBVIOUS
<1>3. (r \o <<x>>) \o <<y>> = r \o (<<x>> \o <<y>>)
  BY <1>2, ConcatAssociative
<1>4. r \o <<>> = r
  OBVIOUS
<1>. QED BY <1>1, <1>3, <1>4

LEMMA FirstSteps ==
  ASSUME NEW a, a.digits \in Nat
  PROVE  /\ PrintInt!Grouped(a) = FirstDigits(a)[a.digits]
         /\ Laid(FirstDigits(a), GapsOf(a), a.digits)
<1>. DEFINE n == a.digits  D == 0 .. n  Stop == {0}  E == PrintInt!Ends(a)
            nx == [k \in D |-> IF k = 0 THEN 0 ELSE k - 1]
            rank == [k \in D |-> k]  b == [k \in D |-> <<>>]
            z == [k \in D |-> IF n - k + 1 \in E THEN <<PrintInt!Separator, k>> ELSE <<k>>]
            V(f, k) == IF k = 0 THEN <<>>
                       ELSE f[k - 1] \o (IF n - k + 1 \in E THEN <<PrintInt!Separator, k>> ELSE <<k>>)
            F == FirstDigits(a)
<1>1. PrintInt!Grouped(a) = F[n]
  BY DEF PrintInt!Grouped, FirstDigits
<1>2. Descends(D, Stop, nx, rank, n)
  BY DEF Descends
<1>3. ASSUME NEW f, NEW k \in D
      PROVE  V(f, k) = IF k \in Stop THEN b[k] ELSE Onto("back", z[k], f[nx[k]])
  <2>1. k \in Stop <=> k = 0
    OBVIOUS
  <2>2. b[k] = <<>> /\ (k # 0 => nx[k] = k - 1)
        /\ z[k] = IF n - k + 1 \in E THEN <<PrintInt!Separator, k>> ELSE <<k>>
    OBVIOUS
  <2>3. "back" # "add" /\ "back" # "front"
    OBVIOUS
  <2>. HIDE DEF Stop, nx, b, z, D, n, E
  <2>. QED BY <2>1, <2>2, <2>3, Zenon DEF Onto
<1>. HIDE DEF D, Stop, nx, b, z, rank
<1>4. Recursive(D, Stop, nx, b, z, "back")
  BY <1>2, RecursionExists, Zenon
<1>5. PICK f : f = [k \in D |-> V(f, k)]
  <2>. HIDE DEF V
  <2>1. PICK f : f = [k \in D |-> IF k \in Stop THEN b[k] ELSE Onto("back", z[k], f[nx[k]])]
    BY <1>4 DEF Recursive
  <2>2. [k \in D |-> IF k \in Stop THEN b[k] ELSE Onto("back", z[k], f[nx[k]])]
         = [k \in D |-> V(f, k)]
    BY <1>3, Zenon
  <2>. QED BY <2>1, <2>2, Zenon
<1>6. F = [k \in D |-> V(F, k)]
  BY <1>5, Zenon DEF D, FirstDigits
<1>. HIDE DEF F
<1>7. \A k \in D : F[k] = V(F, k)
  <2>. HIDE DEF V
  <2>. QED BY <1>6, Zenon
<1>8. F[0] = <<>>
  <2>1. 0 \in D
    BY DEF D
  <2>. QED BY <1>7, <2>1, Zenon
<1>9. \A k \in 1 .. n :
        F[k] = F[k - 1] \o (IF n - k + 1 \in E THEN <<PrintInt!Separator, k>> ELSE <<k>>)
  <2>1. \A k \in 1 .. n : k \in D /\ k # 0
    BY DEF D
  <2>. HIDE DEF D, n, E
  <2>. QED BY <1>7, <2>1, ZenonT(60)
<1>10. \A k \in Nat : k \in D => F[k] \in Seq(Int)
  <2>. DEFINE S == {k \in Nat : k \in D => F[k] \in Seq(Int)}
  <2>1. 0 \in S
    <3>1. <<>> \in Seq(Int) /\ 0 \in Nat
      OBVIOUS
    <3>. QED BY <1>8, <3>1, Zenon
  <2>2. ASSUME NEW k \in Nat, k \in S PROVE k + 1 \in S
    <3>. SUFFICES ASSUME k + 1 \in D PROVE F[k + 1] \in Seq(Int)
      OBVIOUS
    <3>1. k \in D /\ k + 1 \in 1 .. n /\ (k + 1) - 1 = k
      BY DEF D
    <3>2. F[k + 1] = F[k] \o (IF n - (k + 1) + 1 \in E THEN <<PrintInt!Separator, k + 1>> ELSE <<k + 1>>)
      BY <1>9, <3>1
    <3>3. F[k] \in Seq(Int)
      BY <2>2, <3>1
    <3>4. <<PrintInt!Separator, k + 1>> \in Seq(Int) /\ <<k + 1>> \in Seq(Int)
      BY DEF PrintInt!Separator
    <3>. HIDE DEF n, E
    <3>. QED BY <3>2, <3>3, <3>4
  <2>. HIDE DEF S
  <2>3. \A k \in Nat : k \in S
    BY <2>1, <2>2, Induct
  <2>. QED BY <2>3 DEF S
<1>11. ASSUME NEW k \in 1 .. n PROVE F[k] = Ahead(F, GapsOf(a), k) \o <<k>>
  <2>1. k \in GapsOf(a) <=> n - k + 1 \in E
    BY DEF GapsOf
  <2>2. F[k - 1] \in Seq(Int)
    BY <1>10 DEF D
  <2>3. F[k] = F[k - 1] \o (IF n - k + 1 \in E THEN <<PrintInt!Separator, k>> ELSE <<k>>)
    BY <1>9
  <2>4. k \in Int /\ PrintInt!Separator \in Int
    BY DEF PrintInt!Separator
  <2>5. \A r \in Seq(Int) : r \o <<>> = r
    OBVIOUS
  <2>. HIDE DEF n, E
  <2>. QED BY <2>1, <2>2, <2>3, <2>4, <2>5, PutTwo DEF Ahead
<1>12. \A k \in 0 .. n : F[k] \in Seq(Int)
  BY <1>10 DEF D
<1>. QED BY <1>1, <1>8, <1>11, <1>12 DEF Laid, F

(* What has been written when one more run of digits without separators    *)
(* between them is.                                                        *)
LEMMA RunOfDigits ==
  ASSUME NEW F, NEW gaps, NEW n, Laid(F, gaps, n),
         NEW k \in 1 .. n, NEW h \in Nat, k + h <= n,
         \A j \in k + 1 .. k + h : j \notin gaps
  PROVE  /\ F[k + h] = Ahead(F, gaps, k) \o PrintInt!Digits(k, h + 1)
         /\ Ahead(F, gaps, k) \in Seq(Int)
<1>1. n \in Nat /\ k \in Nat
  BY DEF Laid
<1>2. Ahead(F, gaps, k) \in Seq(Int)
  <2>1. F[k - 1] \in Seq(Int)
    BY <1>1 DEF Laid
  <2>2. <<PrintInt!Separator>> \in Seq(Int) /\ <<>> \in Seq(Int)
    BY DEF PrintInt!Separator
  <2>. QED BY <2>1, <2>2 DEF Ahead
<1>. DEFINE A == Ahead(F, gaps, k)
            S == {j \in Nat : j <= h => F[k + j] = A \o PrintInt!Digits(k, j + 1)}
<1>3. 0 \in S
  <2>1. F[k] = A \o <<k>>
    BY DEF Laid
  <2>2. PrintInt!Digits(k, 0 + 1) = <<k>>
    BY <1>1 DEF PrintInt!Digits
  <2>3. k + 0 = k
    BY <1>1
  <2>4. F[k + 0] = A \o PrintInt!Digits(k, 0 + 1)
    BY <2>1, <2>2, <2>3
  <2>. QED BY <2>4
<1>4. ASSUME NEW j \in Nat, j \in S PROVE j + 1 \in S
  <2>. SUFFICES ASSUME j + 1 <= h PROVE F[k + (j + 1)] = A \o PrintInt!Digits(k, (j + 1) + 1)
    OBVIOUS
  <2>1. k + (j + 1) \in 1 .. n /\ k + (j + 1) \in k + 1 .. k + h /\ (k + (j + 1)) - 1 = k + j /\ j <= h
    BY <1>1
  <2>2. F[k + (j + 1)] = Ahead(F, gaps, k + (j + 1)) \o <<k + (j + 1)>>
    BY <2>1 DEF Laid
  <2>3. F[k + j] = A \o PrintInt!Digits(k, j + 1)
    BY <1>4, <2>1
  <2>4. F[k + j] \in Seq(Int)
    BY <1>1, <2>1 DEF Laid
  <2>5. Ahead(F, gaps, k + (j + 1)) = F[k + j]
    <3>1. Ahead(F, gaps, k + (j + 1)) = F[k + j] \o <<>>
      BY <2>1 DEF Ahead
    <3>. QED BY <2>4, <3>1
  <2>6. PrintInt!Digits(k, (j + 1) + 1) = PrintInt!Digits(k, j + 1) \o <<k + (j + 1)>>
    BY <1>1 DEF PrintInt!Digits
  <2>7. PrintInt!Digits(k, j + 1) \in Seq(Int) /\ <<k + (j + 1)>> \in Seq(Int)
    BY <1>1 DEF PrintInt!Digits
  <2>8. \A r, s, t \in Seq(Int) : (r \o s) \o t = r \o (s \o t)
    BY SMTT(60)
  <2>. HIDE DEF A
  <2>9. F[k + (j + 1)] = (A \o PrintInt!Digits(k, j + 1)) \o <<k + (j + 1)>>
    BY <2>2, <2>3, <2>5
  <2>. DEFINE s == PrintInt!Digits(k, j + 1)  t == <<k + (j + 1)>>
  <2>10. A \in Seq(Int) /\ s \in Seq(Int) /\ t \in Seq(Int)
    BY <1>2, <2>7 DEF A
  <2>. HIDE DEF s, t
  <2>11. (A \o s) \o t = A \o (s \o t)
    BY <2>8, <2>10
  <2>. QED BY <2>6, <2>9, <2>11 DEF A, s, t
<1>. HIDE DEF S
<1>5. h \in S
  BY <1>3, <1>4, Induct
<1>. QED BY <1>2, <1>5 DEF S

-----------------------------------------------------------------------------
(* The groups s of n digits: left[i] of them are left before the i-th      *)
(* group, so that the next digit has a separator in front of it.           *)
Gaps(s, left) == {left[i] + 1 : i \in 2 .. Len(s)}

Grid(s, left, F, n) ==
  /\ s \in Seq(Nat) /\ s # <<>> /\ \A j \in 1 .. Len(s) : s[j] # 0
  /\ AddsUp(left, s, n)
  /\ Laid(F, Gaps(s, left), n)

LEMMA GridFacts ==
  ASSUME NEW s, NEW left, NEW F, NEW n, Grid(s, left, F, n)
  PROVE  /\ Len(s) \in Nat /\ Len(s) >= 1 /\ n \in Nat
         /\ \A i \in 1 .. Len(s) : s[i] \in Nat /\ s[i] # 0 /\ left[i] = s[i] + left[i + 1]
         /\ \A i \in 1 .. Len(s) + 1 : left[i] \in Nat /\ left[i] <= n
         /\ left[1] = n /\ left[Len(s) + 1] = 0
         /\ \A i, j \in 1 .. Len(s) + 1 : i <= j => left[j] + (j - i) <= left[i]
<1>1. Len(s) \in Nat /\ Len(s) >= 1 /\ n \in Nat /\ \A i \in 1 .. Len(s) : s[i] \in Nat
  BY DEF Grid, Laid
<1>2. /\ left \in [1 .. Len(s) + 1 -> Nat] /\ left[1] = n /\ left[Len(s) + 1] = 0
      /\ \A i \in 1 .. Len(s) : left[i] = s[i] + left[i + 1]
  BY DEF Grid, AddsUp
<1>3. \A i, j \in 1 .. Len(s) + 1 : i <= j => left[j] + (j - i) <= left[i]
  BY LeftFalls DEF Grid
<1>4. ASSUME NEW i \in 1 .. Len(s) + 1 PROVE left[i] \in Nat /\ left[i] <= n
  <2>1. left[i] \in Nat /\ 1 \in 1 .. Len(s) + 1 /\ 1 <= i /\ i - 1 \in Nat
    BY <1>1, <1>2, SMTT(60)
  <2>2. left[i] + (i - 1) <= left[1]
    BY <1>3, <2>1
  <2>. QED BY <1>1, <1>2, <2>1, <2>2
<1>. QED BY <1>1, <1>2, <1>3, <1>4 DEF Grid

(* Among the digits of a group only the first has a separator in front.    *)
LEMMA GapAt ==
  ASSUME NEW s, NEW left, NEW F, NEW n, Grid(s, left, F, n),
         NEW i \in 1 .. Len(s), NEW k \in Nat, left[i + 1] < k, k <= left[i]
  PROVE  k \in Gaps(s, left) <=> k = left[i + 1] + 1 /\ i < Len(s)
<1>1. /\ Len(s) \in Nat /\ i + 1 \in 1 .. Len(s) + 1 /\ i \in Nat
      /\ left[i] \in Nat /\ left[i + 1] \in Nat
  BY GridFacts
<1>2. \A p, q \in 1 .. Len(s) + 1 : p <= q => left[q] + (q - p) <= left[p]
  BY GridFacts
<1>3. ASSUME NEW j \in 2 .. Len(s), k = left[j] + 1 PROVE j = i + 1
  <2>1. j \in Nat /\ j \in 1 .. Len(s) + 1 /\ left[j] \in Nat
    BY <1>1, GridFacts
  <2>2. CASE j <= i
    <3>1. left[i] + (i - j) <= left[j]
      BY <1>1, <1>2, <2>1, <2>2
    <3>. QED BY <1>1, <1>3, <2>1, <2>2, <3>1
  <2>3. CASE j > i + 1
    <3>1. left[j] + (j - (i + 1)) <= left[i + 1]
      BY <1>1, <1>2, <2>1, <2>3
    <3>. QED BY <1>1, <1>3, <2>1, <2>3, <3>1
  <2>. QED BY <1>1, <2>1, <2>2, <2>3
<1>4. ASSUME k \in Gaps(s, left) PROVE k = left[i + 1] + 1 /\ i < Len(s)
  <2>1. PICK j \in 2 .. Len(s) : k = left[j] + 1
    BY <1>4 DEF Gaps
  <2>2. j = i + 1
    BY <1>3, <2>1
  <2>. QED BY <1>1, <2>1, <2>2
<1>5. ASSUME k = left[i + 1] + 1, i < Len(s) PROVE k \in Gaps(s, left)
  <2>1. i + 1 \in 2 .. Len(s)
    BY <1>1, <1>5
  <2>. QED BY <1>5, <2>1 DEF Gaps
<1>. QED BY <1>4, <1>5

(* k digits are left, the last m of them in group g.                       *)
At(s, left, k, m, g) ==
  /\ g \in 1 .. Len(s) /\ m \in 1 .. s[g]
  /\ k = m + left[g + 1]

(* The digit k, and where the one before it is.                            *)
DigitAt(s, left, F, n, k, m, g) ==
  /\ k \in 1 .. n /\ m \in Nat
  /\ F[k] = F[k - 1] \o (IF m = 1 /\ g < Len(s) THEN <<PrintInt!Separator, k>> ELSE <<k>>)
  /\ F[k - 1] \in Seq(Int)
  /\ m > 1 => At(s, left, k - 1, m - 1, g)
  /\ m = 1 /\ g < Len(s) => At(s, left, k - 1, s[g + 1], g + 1) /\ k > 1
  /\ m = 1 /\ g = Len(s) => k = 1
  /\ k = 1 => m = 1 /\ g = Len(s)

LEMMA NextDigit ==
  ASSUME NEW s, NEW left, NEW F, NEW n, Grid(s, left, F, n),
         NEW k, NEW m, NEW g, At(s, left, k, m, g)
  PROVE  DigitAt(s, left, F, n, k, m, g)
<1>1. /\ Len(s) \in Nat /\ g \in 1 .. Len(s) /\ g \in Nat /\ m \in Nat /\ m >= 1 /\ m <= s[g]
      /\ s[g] \in Nat /\ left[g] \in Nat /\ left[g + 1] \in Nat
      /\ left[g] = s[g] + left[g + 1] /\ left[g] <= n /\ n \in Nat /\ k = m + left[g + 1]
  <2>1. Len(s) \in Nat /\ g \in 1 .. Len(s) /\ n \in Nat /\ k = m + left[g + 1]
    BY GridFacts DEF At
  <2>2. g \in Nat /\ g \in 1 .. Len(s) + 1 /\ g + 1 \in 1 .. Len(s) + 1
    BY <2>1
  <2>3. s[g] \in Nat /\ left[g] \in Nat /\ left[g + 1] \in Nat
        /\ left[g] = s[g] + left[g + 1] /\ left[g] <= n
    BY <2>1, <2>2, GridFacts
  <2>4. m \in Nat /\ m >= 1 /\ m <= s[g]
    BY <2>3 DEF At
  <2>. QED BY <2>1, <2>2, <2>3, <2>4
<1>2. k \in 1 .. n /\ k \in Nat /\ left[g + 1] < k /\ k <= left[g]
  BY <1>1, SMTT(60)
<1>3. k \in Gaps(s, left) <=> m = 1 /\ g < Len(s)
  <2>1. k \in Gaps(s, left) <=> k = left[g + 1] + 1 /\ g < Len(s)
    BY <1>1, <1>2, GapAt
  <2>. QED BY <1>1, <2>1
<1>4. Laid(F, Gaps(s, left), n)
  BY DEF Grid
<1>5. F[k - 1] \in Seq(Int) /\ F[k] = Ahead(F, Gaps(s, left), k) \o <<k>>
  <2>1. k - 1 \in 0 .. n
    BY <1>1, <1>2, SMTT(60)
  <2>. QED BY <1>2, <1>4, <2>1, Zenon DEF Laid
<1>6. F[k] = F[k - 1] \o (IF m = 1 /\ g < Len(s) THEN <<PrintInt!Separator, k>> ELSE <<k>>)
  <2>1. k \in Int /\ PrintInt!Separator \in Int
    BY <1>2 DEF PrintInt!Separator
  <2>. QED BY <1>3, <1>5, <2>1, PutTwo DEF Ahead
<1>7. ASSUME m > 1 PROVE At(s, left, k - 1, m - 1, g)
  BY <1>1, <1>7, SMTT(60) DEF At
<1>8. ASSUME m = 1, g < Len(s) PROVE At(s, left, k - 1, s[g + 1], g + 1) /\ k > 1
  <2>1. g + 1 \in 1 .. Len(s) /\ g + 1 \in Nat
    BY <1>1, <1>8
  <2>2. s[g + 1] \in Nat /\ s[g + 1] # 0 /\ left[g + 1] = s[g + 1] + left[(g + 1) + 1]
    BY <2>1, GridFacts
  <2>3. left[(g + 1) + 1] \in Nat
    BY <1>1, <2>1, GridFacts
  <2>. QED BY <1>1, <1>8, <2>1, <2>2, <2>3, SMTT(60) DEF At
<1>9. ASSUME m = 1, g = Len(s) PROVE k = 1
  BY <1>1, <1>9, GridFacts
<1>10. ASSUME k = 1 PROVE m = 1 /\ g = Len(s)
  <2>1. m = 1 /\ left[g + 1] = 0
    BY <1>1, <1>10
  <2>2. ~(g < Len(s))
    BY <1>8, <1>10, <2>1
  <2>. QED BY <1>1, <2>1, <2>2
<1>. QED BY <1>1, <1>2, <1>5, <1>6, <1>7, <1>8, <1>9, <1>10 DEF DigitAt

LEMMA SizesWithin ==
  ASSUME NEW s, NEW left, NEW F, NEW n, Grid(s, left, F, n)
  PROVE  n \in Nat /\ s \in Seq(0 .. n)
<1>1. Len(s) \in Nat /\ n \in Nat /\ s \in Seq(Nat)
  BY GridFacts DEF Grid
<1>2. ASSUME NEW i \in 1 .. Len(s) PROVE s[i] \in 0 .. n
  <2>1. i \in 1 .. Len(s) + 1 /\ i + 1 \in 1 .. Len(s) + 1
    BY <1>1
  <2>2. s[i] \in Nat /\ left[i] = s[i] + left[i + 1]
    BY GridFacts
  <2>3. left[i] \in Nat /\ left[i] <= n /\ left[i + 1] \in Nat
    BY <2>1, GridFacts
  <2>. QED BY <1>1, <2>2, <2>3
<1>. QED BY <1>1, <1>2

LEMMA FirstAt ==
  ASSUME NEW s, NEW left, NEW F, NEW n, Grid(s, left, F, n), n # 0
  PROVE  /\ n \in 1 .. n /\ s[1] \in 0 .. n /\ 1 \in 1 .. Len(s)
         /\ At(s, left, n, s[1], 1)
<1>1. Len(s) \in Nat /\ Len(s) >= 1 /\ n \in Nat /\ left[1] = n
  BY GridFacts
<1>2. 1 \in 1 .. Len(s) /\ s[1] \in 0 .. n
  BY <1>1, SizesWithin
<1>3. s[1] \in Nat /\ s[1] # 0 /\ left[1] = s[1] + left[1 + 1]
  BY <1>2, GridFacts
<1>. QED BY <1>1, <1>2, <1>3 DEF At

(* What the loops that write backwards put: the digits with all of their   *)
(* separators.                                                             *)
OnesDomain(s, n) == (1 .. n) \X (0 .. n) \X (1 .. Len(s))
OnesStop(s, n) ==
  {x \in OnesDomain(s, n) : x[1] = 1 \/ x[2] = 0 \/ (x[2] = 1 /\ ~(x[3] < Len(s)))}
OnesNext(s, n) ==
  [x \in OnesDomain(s, n) |->
     IF x \in OnesStop(s, n) THEN x
     ELSE IF x[2] > 1 THEN <<x[1] - 1, x[2] - 1, x[3]>>
     ELSE <<x[1] - 1, s[x[3] + 1], x[3] + 1>>]

OnesText(s, n) ==
  LET text[p \in (1 .. n) \X (0 .. n) \X (1 .. Len(s))] ==
        LET k == p[1]  m == p[2]  g == p[3] IN
        CASE k = 1 -> <<1>>
          [] k > 1 /\ m > 1 -> text[<<k - 1, m - 1, g>>] \o <<k>>
          [] k > 1 /\ m = 1 /\ g < Len(s) ->
               text[<<k - 1, s[g + 1], g + 1>>] \o <<PrintInt!Separator, k>>
          [] OTHER -> <<>>
  IN text

LEMMA OnesLoop ==
  ASSUME NEW n \in Nat, NEW s \in Seq(0 .. n)
  PROVE  /\ Descends(OnesDomain(s, n), OnesStop(s, n), OnesNext(s, n),
                     [x \in OnesDomain(s, n) |-> x[1]], n)
         /\ \A x \in OnesDomain(s, n) :
              x[1] \in 1 .. n /\ x[2] \in Nat /\ x[3] \in 1 .. Len(s)
<1>. DEFINE D == OnesDomain(s, n)  Stop == OnesStop(s, n)  nx == OnesNext(s, n)
            rank == [x \in D |-> x[1]]
<1>1. \A x \in D : x[1] \in 1 .. n /\ x[2] \in 0 .. n /\ x[3] \in 1 .. Len(s)
  BY DEF OnesDomain
<1>2. ASSUME NEW x \in D, x \notin Stop PROVE nx[x] \in D /\ nx[x][1] = x[1] - 1
  <2>. DEFINE k == x[1]  m == x[2]  g == x[3]
  <2>1. k \in 1 .. n /\ m \in 0 .. n /\ g \in 1 .. Len(s)
    BY <1>1
  <2>2. k # 1 /\ m # 0 /\ (m = 1 => g < Len(s))
    BY <1>2 DEF OnesStop
  <2>3. nx[x] = IF m > 1 THEN <<k - 1, m - 1, g>> ELSE <<k - 1, s[g + 1], g + 1>>
    BY <1>2 DEF OnesNext
  <2>. HIDE DEF k, m, g, nx, D
  <2>4. k - 1 \in 1 .. n
    BY <2>1, <2>2
  <2>5. CASE m > 1
    <3>1. m - 1 \in 0 .. n
      BY <2>1, <2>5
    <3>. QED BY <2>1, <2>3, <2>4, <2>5, <3>1 DEF D, OnesDomain, k
  <2>6. CASE ~(m > 1)
    <3>1. g + 1 \in 1 .. Len(s) /\ s[g + 1] \in 0 .. n
      BY <2>1, <2>2, <2>6
    <3>. QED BY <2>1, <2>3, <2>4, <2>6, <3>1, SMTT(60) DEF D, OnesDomain, k
  <2>. QED BY <2>5, <2>6
<1>3. nx \in [D -> D]
  BY <1>2 DEF OnesNext
<1>4. \A x \in D : rank[x] \in Nat /\ rank[x] <= n
  BY <1>1
<1>5. \A x \in D : x \notin Stop => rank[nx[x]] < rank[x]
  <2>. SUFFICES ASSUME NEW x \in D, x \notin Stop PROVE rank[nx[x]] < rank[x]
    OBVIOUS
  <2>1. nx[x] \in D /\ nx[x][1] = x[1] - 1 /\ x[1] \in 1 .. n
    BY <1>1, <1>2
  <2>. HIDE DEF nx, D
  <2>. QED BY <2>1
<1>6. \A x \in D : x[1] \in 1 .. n /\ x[2] \in Nat /\ x[3] \in 1 .. Len(s)
  BY <1>1
<1>7. Descends(D, Stop, nx, rank, n)
  BY <1>3, <1>4, <1>5 DEF Descends
<1>. QED BY <1>6, <1>7

LEMMA OnesSteps ==
  ASSUME NEW n \in Nat, NEW s \in Seq(0 .. n)
  PROVE  /\ PrintInt!OnesBackwards(s, n) = OnesText(s, n)[<<n, s[1], 1>>]
         /\ \A x \in OnesDomain(s, n) :
              LET k == x[1]  m == x[2]  g == x[3]  f == OnesText(s, n) IN
              f[x] = IF k = 1 THEN <<1>>
                     ELSE IF k > 1 /\ m > 1 THEN f[<<k - 1, m - 1, g>>] \o <<k>>
                     ELSE IF k > 1 /\ m = 1 /\ g < Len(s)
                       THEN f[<<k - 1, s[g + 1], g + 1>>] \o <<PrintInt!Separator, k>>
                     ELSE <<>>
<1>. DEFINE D == OnesDomain(s, n)  Stop == OnesStop(s, n)  nx == OnesNext(s, n)
            rank == [x \in D |-> x[1]]
            b == [x \in D |-> IF x[1] = 1 THEN <<1>> ELSE <<>>]
            z == [x \in D |-> IF x[2] > 1 THEN <<x[1]>> ELSE <<PrintInt!Separator, x[1]>>]
            V(f, p) ==
              LET k == p[1]  m == p[2]  g == p[3] IN
              CASE k = 1 -> <<1>>
                [] k > 1 /\ m > 1 -> f[<<k - 1, m - 1, g>>] \o <<k>>
                [] k > 1 /\ m = 1 /\ g < Len(s) ->
                     f[<<k - 1, s[g + 1], g + 1>>] \o <<PrintInt!Separator, k>>
                [] OTHER -> <<>>
            W(f, p) ==
              LET k == p[1]  m == p[2]  g == p[3] IN
              IF k = 1 THEN <<1>>
              ELSE IF k > 1 /\ m > 1 THEN f[<<k - 1, m - 1, g>>] \o <<k>>
              ELSE IF k > 1 /\ m = 1 /\ g < Len(s)
                THEN f[<<k - 1, s[g + 1], g + 1>>] \o <<PrintInt!Separator, k>>
              ELSE <<>>
            text == OnesText(s, n)
<1>1. PrintInt!OnesBackwards(s, n) = text[<<n, s[1], 1>>]
  BY DEF PrintInt!OnesBackwards, OnesText
<1>2. Descends(D, Stop, nx, rank, n) /\ \A x \in D : x[1] \in 1 .. n /\ x[2] \in Nat
  BY OnesLoop
<1>3. ASSUME NEW f, NEW x \in D PROVE V(f, x) = W(f, x)
  <2>1. x[1] \in Nat /\ x[2] \in Nat
    BY <1>2
  <2>. QED BY <2>1
<1>4. ASSUME NEW f, NEW x \in D
      PROVE  W(f, x) = IF x \in Stop THEN b[x] ELSE Onto("back", z[x], f[nx[x]])
  <2>. DEFINE k == x[1]  m == x[2]  g == x[3]
  <2>1. k \in 1 .. n /\ m \in Nat
    BY <1>2
  <2>2. "back" # "add" /\ "back" # "front"
    OBVIOUS
  <2>3. CASE x \in Stop
    <3>1. k = 1 \/ m = 0 \/ (m = 1 /\ ~(g < Len(s)))
      BY <2>3 DEF OnesStop
    <3>2. b[x] = IF k = 1 THEN <<1>> ELSE <<>>
      OBVIOUS
    <3>. HIDE DEF b
    <3>. QED BY <2>1, <2>3, <3>1, <3>2
  <2>4. CASE x \notin Stop
    <3>1. k # 1 /\ m # 0 /\ (m = 1 => g < Len(s))
      BY <2>4 DEF OnesStop
    <3>2. nx[x] = IF m > 1 THEN <<k - 1, m - 1, g>> ELSE <<k - 1, s[g + 1], g + 1>>
      BY <2>4 DEF OnesNext
    <3>3. z[x] = IF m > 1 THEN <<k>> ELSE <<PrintInt!Separator, k>>
      OBVIOUS
    <3>. HIDE DEF z, nx
    <3>4. Onto("back", z[x], f[nx[x]]) = f[nx[x]] \o z[x]
      BY <2>2 DEF Onto
    <3>5. k > 1 /\ (~(m > 1) => m = 1)
      BY <2>1, <3>1
    <3>. HIDE DEF k, m, g
    <3>6. W(f, x) = IF m > 1 THEN f[<<k - 1, m - 1, g>>] \o <<k>>
                    ELSE f[<<k - 1, s[g + 1], g + 1>>] \o <<PrintInt!Separator, k>>
      BY <3>1, <3>5, Zenon DEF k, m, g
    <3>. HIDE DEF W
    <3>. QED BY <2>4, <3>2, <3>3, <3>4, <3>6, Zenon
  <2>. QED BY <2>3, <2>4
<1>. HIDE DEF D, Stop, nx, b, z, rank
<1>5. Recursive(D, Stop, nx, b, z, "back")
  BY <1>2, RecursionExists, Zenon
<1>6. PICK f : f = [x \in D |-> V(f, x)]
  <2>. HIDE DEF V, W
  <2>1. PICK f : f = [x \in D |-> IF x \in Stop THEN b[x] ELSE Onto("back", z[x], f[nx[x]])]
    BY <1>5 DEF Recursive
  <2>2. [x \in D |-> IF x \in Stop THEN b[x] ELSE Onto("back", z[x], f[nx[x]])]
         = [x \in D |-> V(f, x)]
    BY <1>3, <1>4, Zenon
  <2>. QED BY <2>1, <2>2, Zenon
<1>7. text = [x \in D |-> V(text, x)]
  BY <1>6, SMTT(30) DEF D, OnesDomain, OnesText
<1>. HIDE DEF text
<1>8. \A x \in D : text[x] = W(text, x)
  <2>. HIDE DEF V, W
  <2>. QED BY <1>3, <1>7, Zenon
<1>. QED BY <1>1, <1>8, Zenon DEF D, text

(* One step of such a loop, and the elements that the next one is about.   *)
OneMoreText(s, F, k, m, g, v, w1, w2) ==
  /\ v = IF k = 1 THEN <<1>>
         ELSE IF k > 1 /\ m > 1 THEN w1 \o <<k>>
         ELSE IF k > 1 /\ m = 1 /\ g < Len(s) THEN w2 \o <<PrintInt!Separator, k>>
         ELSE <<>>
  /\ m > 1 => w1 = F[k - 1]
  /\ m = 1 /\ g < Len(s) => w2 = F[k - 1]

LEMMA OneMore ==
  ASSUME NEW s, NEW left, NEW F, NEW n, Grid(s, left, F, n),
         NEW k, NEW m, NEW g, At(s, left, k, m, g),
         NEW v, NEW w1, NEW w2, OneMoreText(s, F, k, m, g, v, w1, w2)
  PROVE  v = F[k]
<1>1. /\ k \in 1 .. n /\ m \in Nat /\ n \in Nat
      /\ F[k] = F[k - 1] \o (IF m = 1 /\ g < Len(s) THEN <<PrintInt!Separator, k>> ELSE <<k>>)
      /\ m = 1 /\ g = Len(s) => k = 1
      /\ k = 1 => m = 1 /\ g = Len(s)
  <2>1. n \in Nat
    BY GridFacts
  <2>2. DigitAt(s, left, F, n, k, m, g)
    BY NextDigit, Zenon
  <2>. QED BY <2>1, <2>2 DEF DigitAt
<1>2. g \in 1 .. Len(s) /\ Len(s) \in Nat /\ m >= 1
  <2>1. g \in 1 .. Len(s) /\ m \in 1 .. s[g]
    BY DEF At
  <2>2. s[g] \in Nat
    BY <2>1, GridFacts
  <2>. QED BY <2>1, <2>2, GridFacts
<1>3. CASE k = 1
  <2>1. ~(m = 1 /\ g < Len(s))
    BY <1>1, <1>2, <1>3
  <2>2. F[k - 1] = <<>>
    BY <1>3 DEF Grid, Laid
  <2>3. F[k] = <<>> \o <<1>>
    BY <1>1, <1>3, <2>1, <2>2
  <2>4. <<>> \o <<1>> = <<1>>
    OBVIOUS
  <2>. QED BY <1>3, <2>3, <2>4 DEF OneMoreText
<1>4. CASE k # 1 /\ m > 1
  <2>1. k > 1
    BY <1>1, <1>4
  <2>2. v = w1 \o <<k>> /\ w1 = F[k - 1]
    BY <1>4, <2>1 DEF OneMoreText
  <2>3. F[k] = F[k - 1] \o <<k>>
    <3>1. ~(m = 1 /\ g < Len(s))
      BY <1>1, <1>4
    <3>. QED BY <1>1, <3>1, Zenon
  <2>. QED BY <1>4, <2>2, <2>3
<1>5. CASE k # 1 /\ ~(m > 1)
  <2>1. k > 1 /\ m = 1 /\ g < Len(s)
    BY <1>1, <1>2, <1>5
  <2>2. v = w2 \o <<PrintInt!Separator, k>> /\ w2 = F[k - 1]
    BY <1>5, <2>1 DEF OneMoreText
  <2>3. F[k] = F[k - 1] \o <<PrintInt!Separator, k>>
    BY <1>1, <2>1
  <2>. QED BY <2>1, <2>2, <2>3
<1>. QED BY <1>3, <1>4, <1>5

LEMMA AtInDomain ==
  ASSUME NEW s, NEW left, NEW F, NEW n, Grid(s, left, F, n),
         NEW k, NEW m, NEW g, At(s, left, k, m, g)
  PROVE  <<k, m, g>> \in OnesDomain(s, n) /\ k \in Nat
<1>1. k \in 1 .. n /\ m \in Nat /\ n \in Nat
  <2>1. DigitAt(s, left, F, n, k, m, g)
    BY NextDigit, Zenon
  <2>. QED BY <2>1, GridFacts DEF DigitAt
<1>2. g \in 1 .. Len(s) /\ m \in 1 .. s[g]
  BY DEF At
<1>3. s[g] \in 0 .. n
  BY <1>2, SizesWithin
<1>4. m \in 0 .. n
  BY <1>1, <1>2, <1>3
<1>. QED BY <1>1, <1>2, <1>4 DEF OnesDomain

LEMMA OnesRight ==
  ASSUME NEW s, NEW left, NEW F, NEW n, Grid(s, left, F, n), n # 0
  PROVE  PrintInt!OnesBackwards(s, n) = F[n]
<1>. DEFINE text == OnesText(s, n)
            S == {j \in Nat : \A k, m, g : At(s, left, k, m, g) /\ k <= j => text[<<k, m, g>>] = F[k]}
<1>1. n \in Nat /\ s \in Seq(0 .. n)
  BY SizesWithin
<1>2. \A x \in OnesDomain(s, n) :
        LET k == x[1]  m == x[2]  g == x[3] IN
        text[x] = IF k = 1 THEN <<1>>
                  ELSE IF k > 1 /\ m > 1 THEN text[<<k - 1, m - 1, g>>] \o <<k>>
                  ELSE IF k > 1 /\ m = 1 /\ g < Len(s)
                    THEN text[<<k - 1, s[g + 1], g + 1>>] \o <<PrintInt!Separator, k>>
                  ELSE <<>>
  BY <1>1, OnesSteps, ZenonT(60)
<1>. HIDE DEF text
<1>3. 0 \in S
  <2>1. \A k, m, g : At(s, left, k, m, g) => k \in Nat /\ k >= 1
    <3>1. \A k, m, g : At(s, left, k, m, g) => DigitAt(s, left, F, n, k, m, g)
      BY NextDigit, Zenon
    <3>2. \A k, m, g : At(s, left, k, m, g) => k \in 1 .. n
      BY <3>1 DEF DigitAt
    <3>. QED BY <1>1, <3>2
  <2>2. \A k, m, g : ~(At(s, left, k, m, g) /\ k <= 0)
    BY <2>1
  <2>. QED BY <2>2
<1>4. ASSUME NEW j \in Nat, j \in S PROVE j + 1 \in S
  <2>1. ASSUME NEW k, NEW m, NEW g, At(s, left, k, m, g), k <= j + 1
        PROVE  text[<<k, m, g>>] = F[k]
    <3>1. \A p, q, r : At(s, left, p, q, r) /\ p <= j => text[<<p, q, r>>] = F[p]
      BY <1>4
    <3>2. <<k, m, g>> \in OnesDomain(s, n) /\ k \in Nat
      BY <2>1, AtInDomain
    <3>3. k - 1 <= j
      BY <2>1, <3>2
    <3>4. /\ m > 1 => At(s, left, k - 1, m - 1, g)
          /\ m = 1 /\ g < Len(s) => At(s, left, k - 1, s[g + 1], g + 1)
      <4>1. DigitAt(s, left, F, n, k, m, g)
        BY <2>1, NextDigit, Zenon
      <4>. QED BY <4>1, Zenon DEF DigitAt
    <3>5. /\ m > 1 => text[<<k - 1, m - 1, g>>] = F[k - 1]
          /\ m = 1 /\ g < Len(s) => text[<<k - 1, s[g + 1], g + 1>>] = F[k - 1]
      BY <3>1, <3>3, <3>4, Zenon
    <3>6. text[<<k, m, g>>] =
            IF k = 1 THEN <<1>>
            ELSE IF k > 1 /\ m > 1 THEN text[<<k - 1, m - 1, g>>] \o <<k>>
            ELSE IF k > 1 /\ m = 1 /\ g < Len(s)
              THEN text[<<k - 1, s[g + 1], g + 1>>] \o <<PrintInt!Separator, k>>
            ELSE <<>>
      <4>. DEFINE x == <<k, m, g>>
      <4>1. x[1] = k /\ x[2] = m /\ x[3] = g
        OBVIOUS
      <4>. HIDE DEF x
      <4>. QED BY <1>2, <3>2, <4>1 DEF x
    <3>. DEFINE v == text[<<k, m, g>>]  w1 == text[<<k - 1, m - 1, g>>]
                w2 == text[<<k - 1, s[g + 1], g + 1>>]
    <3>. HIDE DEF v, w1, w2
    <3>7. OneMoreText(s, F, k, m, g, v, w1, w2)
      BY <3>5, <3>6, Zenon DEF v, w1, w2, OneMoreText
    <3>8. v = F[k]
      BY <2>1, <3>7, OneMore, Zenon
    <3>. QED BY <3>8 DEF v
  <2>. QED BY <2>1
<1>5. n \in S
  <2>. HIDE DEF S
  <2>. QED BY <1>1, <1>3, <1>4, Induct
<1>6. At(s, left, n, s[1], 1) /\ n <= n
  BY <1>1, FirstAt
<1>7. text[<<n, s[1], 1>>] = F[n]
  BY <1>5, <1>6
<1>. QED BY <1>1, <1>7, OnesSteps DEF text

(* The loop that takes two digits at a time, likewise.                     *)
PairsStop(s, n) ==
  {x \in OnesDomain(s, n) :
     \/ x[1] <= 2 \/ x[2] = 0
     \/ x[2] = 2 /\ ~(x[3] < Len(s))
     \/ x[2] = 1 /\ ~(x[3] < Len(s) /\ s[x[3] + 1] > 1) /\ ~(x[3] + 1 < Len(s) /\ s[x[3] + 1] = 1)}
PairsNext(s, n) ==
  [x \in OnesDomain(s, n) |->
     LET k == x[1]  m == x[2]  g == x[3] IN
     IF x \in PairsStop(s, n) THEN x
     ELSE IF m > 2 THEN <<k - 2, m - 2, g>>
     ELSE IF m = 2 THEN <<k - 2, s[g + 1], g + 1>>
     ELSE IF s[g + 1] > 1 THEN <<k - 2, s[g + 1] - 1, g + 1>>
     ELSE <<k - 2, s[g + 2], g + 2>>]

PairsText(s, n) ==
  LET text[p \in (1 .. n) \X (0 .. n) \X (1 .. Len(s))] ==
        LET k == p[1]  m == p[2]  g == p[3] IN
        CASE k = 1 -> <<1>>
          [] k = 2 -> IF m = 1 THEN <<1, PrintInt!Separator, 2>> ELSE <<1, 2>>
          [] k > 2 /\ m > 2 -> text[<<k - 2, m - 2, g>>] \o <<k - 1, k>>
          [] k > 2 /\ m = 2 /\ g < Len(s) -> text[<<k - 2, s[g + 1], g + 1>>]
                                             \o <<PrintInt!Separator, k - 1, k>>
          [] k > 2 /\ m = 1 /\ g < Len(s) /\ s[g + 1] > 1 ->
               text[<<k - 2, s[g + 1] - 1, g + 1>>] \o <<k - 1, PrintInt!Separator, k>>
          [] k > 2 /\ m = 1 /\ g + 1 < Len(s) /\ s[g + 1] = 1 ->
               text[<<k - 2, s[g + 2], g + 2>>]
               \o <<PrintInt!Separator, k - 1, PrintInt!Separator, k>>
          [] OTHER -> <<>>
  IN text

(* The value of text[<<k, m, g>>], from those it is made of.               *)
TwoMoreText(s, k, m, g, v, w1, w2, w3, w4) ==
  v = IF k = 1 THEN <<1>>
      ELSE IF k = 2 THEN (IF m = 1 THEN <<1, PrintInt!Separator, 2>> ELSE <<1, 2>>)
      ELSE IF m > 2 THEN w1 \o <<k - 1, k>>
      ELSE IF m = 2 /\ g < Len(s) THEN w2 \o <<PrintInt!Separator, k - 1, k>>
      ELSE IF m = 1 /\ g < Len(s) /\ s[g + 1] > 1 THEN w3 \o <<k - 1, PrintInt!Separator, k>>
      ELSE IF m = 1 /\ g + 1 < Len(s) /\ s[g + 1] = 1
        THEN w4 \o <<PrintInt!Separator, k - 1, PrintInt!Separator, k>>
      ELSE <<>>

LEMMA PairsLoop ==
  ASSUME NEW n \in Nat, NEW s \in Seq(0 .. n)
  PROVE  /\ Descends(OnesDomain(s, n), PairsStop(s, n), PairsNext(s, n),
                     [x \in OnesDomain(s, n) |-> x[1]], n)
         /\ \A x \in OnesDomain(s, n) :
              x[1] \in 1 .. n /\ x[2] \in Nat /\ x[3] \in 1 .. Len(s)
<1>. DEFINE D == OnesDomain(s, n)  Stop == PairsStop(s, n)  nx == PairsNext(s, n)
            rank == [x \in D |-> x[1]]
<1>1. \A x \in D : x[1] \in 1 .. n /\ x[2] \in 0 .. n /\ x[3] \in 1 .. Len(s)
  BY DEF OnesDomain
<1>2. ASSUME NEW x \in D, x \notin Stop PROVE nx[x] \in D /\ nx[x][1] = x[1] - 2
  <2>. DEFINE k == x[1]  m == x[2]  g == x[3]
  <2>1. k \in 1 .. n /\ m \in 0 .. n /\ g \in 1 .. Len(s) /\ Len(s) \in Nat
    BY <1>1
  <2>2. /\ ~(k <= 2) /\ m # 0 /\ (m = 2 => g < Len(s))
        /\ m = 1 => (g < Len(s) /\ s[g + 1] > 1) \/ (g + 1 < Len(s) /\ s[g + 1] = 1)
    BY <1>2 DEF PairsStop
  <2>3. nx[x] = IF m > 2 THEN <<k - 2, m - 2, g>>
                ELSE IF m = 2 THEN <<k - 2, s[g + 1], g + 1>>
                ELSE IF s[g + 1] > 1 THEN <<k - 2, s[g + 1] - 1, g + 1>>
                ELSE <<k - 2, s[g + 2], g + 2>>
    BY <1>2 DEF PairsNext
  <2>. HIDE DEF k, m, g, nx, D
  <2>4. k - 2 \in 1 .. n
    BY <2>1, <2>2
  <2>5. CASE m > 2
    <3>1. m - 2 \in 0 .. n
      BY <2>1, <2>5
    <3>. QED BY <2>1, <2>3, <2>4, <2>5, <3>1 DEF D, OnesDomain, k
  <2>6. CASE m = 2
    <3>1. g + 1 \in 1 .. Len(s) /\ s[g + 1] \in 0 .. n
      BY <2>1, <2>2, <2>6
    <3>. QED BY <2>1, <2>3, <2>4, <2>6, <3>1, SMTT(60) DEF D, OnesDomain, k
  <2>7. CASE m = 1 /\ s[g + 1] > 1
    <3>1. g + 1 \in 1 .. Len(s) /\ s[g + 1] \in 0 .. n
      BY <2>1, <2>2, <2>7
    <3>2. s[g + 1] - 1 \in 0 .. n
      BY <2>7, <3>1
    <3>3. nx[x] = <<k - 2, s[g + 1] - 1, g + 1>>
      BY <2>3, <2>7
    <3>. QED BY <2>4, <3>1, <3>2, <3>3 DEF D, OnesDomain, k
  <2>8. CASE m = 1 /\ ~(s[g + 1] > 1)
    <3>1. g + 2 \in 1 .. Len(s) /\ s[g + 2] \in 0 .. n
      BY <2>1, <2>2, <2>8
    <3>2. nx[x] = <<k - 2, s[g + 2], g + 2>>
      BY <2>3, <2>8
    <3>. QED BY <2>4, <3>1, <3>2 DEF D, OnesDomain, k
  <2>9. m > 2 \/ m = 2 \/ m = 1
    BY <2>1, <2>2
  <2>. QED BY <2>5, <2>6, <2>7, <2>8, <2>9
<1>3. nx \in [D -> D]
  BY <1>2 DEF PairsNext
<1>4. \A x \in D : rank[x] \in Nat /\ rank[x] <= n
  BY <1>1
<1>5. \A x \in D : x \notin Stop => rank[nx[x]] < rank[x]
  <2>. SUFFICES ASSUME NEW x \in D, x \notin Stop PROVE rank[nx[x]] < rank[x]
    OBVIOUS
  <2>1. nx[x] \in D /\ nx[x][1] = x[1] - 2 /\ x[1] \in 1 .. n
    BY <1>1, <1>2
  <2>. HIDE DEF nx, D
  <2>. QED BY <2>1
<1>6. \A x \in D : x[1] \in 1 .. n /\ x[2] \in Nat /\ x[3] \in 1 .. Len(s)
  BY <1>1
<1>7. Descends(D, Stop, nx, rank, n)
  BY <1>3, <1>4, <1>5 DEF Descends
<1>. QED BY <1>6, <1>7

LEMMA PairsSteps ==
  ASSUME NEW n \in Nat, NEW s \in Seq(0 .. n)
  PROVE  /\ PrintInt!PairsBackwards(s, n) = PairsText(s, n)[<<n, s[1], 1>>]
         /\ \A x \in OnesDomain(s, n) :
              LET k == x[1]  m == x[2]  g == x[3]  f == PairsText(s, n) IN
              TwoMoreText(s, k, m, g, f[x], f[<<k - 2, m - 2, g>>], f[<<k - 2, s[g + 1], g + 1>>],
                          f[<<k - 2, s[g + 1] - 1, g + 1>>], f[<<k - 2, s[g + 2], g + 2>>])
<1>. DEFINE D == OnesDomain(s, n)  Stop == PairsStop(s, n)  nx == PairsNext(s, n)
            rank == [x \in D |-> x[1]]
            b == [x \in D |-> IF x[1] = 1 THEN <<1>>
                              ELSE IF x[1] = 2
                                THEN (IF x[2] = 1 THEN <<1, PrintInt!Separator, 2>> ELSE <<1, 2>>)
                              ELSE <<>>]
            z == [x \in D |-> LET k == x[1]  m == x[2]  g == x[3] IN
                   IF m > 2 THEN <<k - 1, k>>
                   ELSE IF m = 2 THEN <<PrintInt!Separator, k - 1, k>>
                   ELSE IF s[g + 1] > 1 THEN <<k - 1, PrintInt!Separator, k>>
                   ELSE <<PrintInt!Separator, k - 1, PrintInt!Separator, k>>]
            V(f, p) ==
              LET k == p[1]  m == p[2]  g == p[3] IN
              CASE k = 1 -> <<1>>
                [] k = 2 -> IF m = 1 THEN <<1, PrintInt!Separator, 2>> ELSE <<1, 2>>
                [] k > 2 /\ m > 2 -> f[<<k - 2, m - 2, g>>] \o <<k - 1, k>>
                [] k > 2 /\ m = 2 /\ g < Len(s) -> f[<<k - 2, s[g + 1], g + 1>>]
                                                   \o <<PrintInt!Separator, k - 1, k>>
                [] k > 2 /\ m = 1 /\ g < Len(s) /\ s[g + 1] > 1 ->
                     f[<<k - 2, s[g + 1] - 1, g + 1>>] \o <<k - 1, PrintInt!Separator, k>>
                [] k > 2 /\ m = 1 /\ g + 1 < Len(s) /\ s[g + 1] = 1 ->
                     f[<<k - 2, s[g + 2], g + 2>>]
                     \o <<PrintInt!Separator, k - 1, PrintInt!Separator, k>>
                [] OTHER -> <<>>
            W(f, p) ==
              LET k == p[1]  m == p[2]  g == p[3] IN
              IF k = 1 THEN <<1>>
              ELSE IF k = 2 THEN (IF m = 1 THEN <<1, PrintInt!Separator, 2>> ELSE <<1, 2>>)
              ELSE IF m > 2 THEN f[<<k - 2, m - 2, g>>] \o <<k - 1, k>>
              ELSE IF m = 2 /\ g < Len(s)
                THEN f[<<k - 2, s[g + 1], g + 1>>] \o <<PrintInt!Separator, k - 1, k>>
              ELSE IF m = 1 /\ g < Len(s) /\ s[g + 1] > 1
                THEN f[<<k - 2, s[g + 1] - 1, g + 1>>] \o <<k - 1, PrintInt!Separator, k>>
              ELSE IF m = 1 /\ g + 1 < Len(s) /\ s[g + 1] = 1
                THEN f[<<k - 2, s[g + 2], g + 2>>]
                     \o <<PrintInt!Separator, k - 1, PrintInt!Separator, k>>
              ELSE <<>>
            text == PairsText(s, n)
<1>1. PrintInt!PairsBackwards(s, n) = text[<<n, s[1], 1>>]
  BY DEF PrintInt!PairsBackwards, PairsText
<1>2. /\ Descends(D, Stop, nx, rank, n)
      /\ \A x \in D : x[1] \in 1 .. n /\ x[2] \in Nat /\ x[3] \in 1 .. Len(s)
  BY PairsLoop
<1>3. ASSUME NEW f, NEW x \in D PROVE V(f, x) = W(f, x)
  <2>. DEFINE k == x[1]  m == x[2]  g == x[3]
  <2>1. k \in 1 .. n /\ m \in Nat /\ g \in 1 .. Len(s)
    BY <1>2
  <2>2. CASE k = 1
    BY <2>2
  <2>3. CASE k = 2
    BY <2>3
  <2>4. CASE k > 2 /\ m > 2
    BY <2>4
  <2>5. CASE k > 2 /\ m = 2
    BY <2>5
  <2>6. CASE k > 2 /\ m = 1 /\ g < Len(s) /\ s[g + 1] > 1
    BY <2>6
  <2>7. CASE k > 2 /\ m = 1 /\ g + 1 < Len(s) /\ s[g + 1] = 1
    BY <2>1, <2>7, SMTT(60)
  <2>8. CASE k > 2 /\ m = 1 /\ ~(g < Len(s) /\ s[g + 1] > 1) /\ ~(g + 1 < Len(s) /\ s[g + 1] = 1)
    BY <2>1, <2>8, SMTT(60)
  <2>9. CASE k > 2 /\ m = 0
    BY <2>1, <2>9
  <2>. HIDE DEF k, m, g, V, W
  <2>10. k = 1 \/ k = 2 \/ k > 2
    BY <2>1
  <2>11. m > 2 \/ m = 2 \/ m = 1 \/ m = 0
    BY <2>1
  <2>. QED BY <2>2, <2>3, <2>4, <2>5, <2>6, <2>7, <2>8, <2>9, <2>10, <2>11
<1>4. ASSUME NEW f, NEW x \in D
      PROVE  W(f, x) = IF x \in Stop THEN b[x] ELSE Onto("back", z[x], f[nx[x]])
  <2>. DEFINE k == x[1]  m == x[2]  g == x[3]
  <2>1. k \in 1 .. n /\ m \in Nat /\ g \in 1 .. Len(s)
    BY <1>2
  <2>2. "back" # "add" /\ "back" # "front"
    OBVIOUS
  <2>3. CASE x \in Stop
    <3>1. \/ k <= 2 \/ m = 0
          \/ m = 2 /\ ~(g < Len(s))
          \/ m = 1 /\ ~(g < Len(s) /\ s[g + 1] > 1) /\ ~(g + 1 < Len(s) /\ s[g + 1] = 1)
      BY <2>3 DEF PairsStop
    <3>2. b[x] = IF k = 1 THEN <<1>>
                 ELSE IF k = 2 THEN (IF m = 1 THEN <<1, PrintInt!Separator, 2>> ELSE <<1, 2>>)
                 ELSE <<>>
      OBVIOUS
    <3>. HIDE DEF b
    <3>3. k = 1 \/ k = 2 \/ (~(m > 2) /\ ~(m = 2 /\ g < Len(s))
            /\ ~(m = 1 /\ g < Len(s) /\ s[g + 1] > 1) /\ ~(m = 1 /\ g + 1 < Len(s) /\ s[g + 1] = 1))
      BY <2>1, <3>1, SMTT(60)
    <3>4. W(f, x) = b[x]
      <4>1. CASE k = 1
        BY <3>2, <4>1
      <4>2. CASE k # 1 /\ k = 2
        BY <3>2, <4>2
      <4>3. CASE k # 1 /\ k # 2
        <5>. HIDE DEF k, m, g
        <5>. QED BY <3>2, <3>3, <4>3, Zenon DEF k, m, g
      <4>. QED BY <4>1, <4>2, <4>3
    <3>. HIDE DEF W
    <3>. QED BY <2>3, <3>4
  <2>4. CASE x \notin Stop
    <3>1. /\ ~(k <= 2) /\ m # 0 /\ (m = 2 => g < Len(s))
          /\ m = 1 => (g < Len(s) /\ s[g + 1] > 1) \/ (g + 1 < Len(s) /\ s[g + 1] = 1)
      BY <2>4 DEF PairsStop
    <3>2. nx[x] = IF m > 2 THEN <<k - 2, m - 2, g>>
                  ELSE IF m = 2 THEN <<k - 2, s[g + 1], g + 1>>
                  ELSE IF s[g + 1] > 1 THEN <<k - 2, s[g + 1] - 1, g + 1>>
                  ELSE <<k - 2, s[g + 2], g + 2>>
      BY <2>4 DEF PairsNext
    <3>3. z[x] = IF m > 2 THEN <<k - 1, k>>
                 ELSE IF m = 2 THEN <<PrintInt!Separator, k - 1, k>>
                 ELSE IF s[g + 1] > 1 THEN <<k - 1, PrintInt!Separator, k>>
                 ELSE <<PrintInt!Separator, k - 1, PrintInt!Separator, k>>
      OBVIOUS
    <3>. HIDE DEF z, nx
    <3>4. Onto("back", z[x], f[nx[x]]) = f[nx[x]] \o z[x]
      BY <2>2 DEF Onto
    <3>5. k # 1 /\ k # 2
      BY <2>1, <3>1, SMTT(60)
    <3>6. W(f, x) = f[nx[x]] \o z[x]
      <4>1. m > 2 \/ m = 2 \/ m = 1
        BY <2>1, <3>1, SMTT(60)
      <4>2. CASE m > 2
        BY <3>2, <3>3, <3>5, <4>2, ZenonT(60)
      <4>3. CASE m = 2
        <5>1. ~(m > 2)
          BY <4>3
        <5>. HIDE DEF k, m, g
        <5>. QED BY <3>1, <3>2, <3>3, <3>5, <4>3, <5>1, Zenon DEF k, m, g
      <4>4. CASE m = 1
        <5>1. ~(m > 2) /\ m # 2 /\ (s[g + 1] = 1 => ~(s[g + 1] > 1))
          BY <4>4
        <5>. HIDE DEF k, m, g
        <5>. QED BY <3>1, <3>2, <3>3, <3>5, <4>4, <5>1, Zenon DEF k, m, g
      <4>. QED BY <4>1, <4>2, <4>3, <4>4, ZenonT(60)
    <3>. HIDE DEF W
    <3>. QED BY <2>4, <3>4, <3>6, Zenon
  <2>. QED BY <2>3, <2>4
<1>. HIDE DEF D, Stop, nx, b, z, rank
<1>5. Recursive(D, Stop, nx, b, z, "back")
  BY <1>2, RecursionExists, Zenon
<1>6. PICK f : f = [x \in D |-> V(f, x)]
  <2>. HIDE DEF V, W
  <2>1. PICK f : f = [x \in D |-> IF x \in Stop THEN b[x] ELSE Onto("back", z[x], f[nx[x]])]
    BY <1>5 DEF Recursive
  <2>2. [x \in D |-> IF x \in Stop THEN b[x] ELSE Onto("back", z[x], f[nx[x]])]
         = [x \in D |-> V(f, x)]
    BY <1>3, <1>4, Zenon
  <2>. QED BY <2>1, <2>2, Zenon
<1>7. text = [x \in D |-> V(text, x)]
  BY <1>6, SMTT(30) DEF D, OnesDomain, PairsText
<1>. HIDE DEF text
<1>8. \A x \in D : text[x] = W(text, x)
  <2>. HIDE DEF V, W
  <2>. QED BY <1>3, <1>7, Zenon
<1>. QED BY <1>1, <1>8, Zenon DEF D, text, TwoMoreText

LEMMA PutMore ==
  ASSUME NEW r \in Seq(Int), NEW x \in Int, NEW y \in Int, NEW z \in Int, NEW w \in Int
  PROVE  /\ (r \o <<x>>) \o <<y, z>> = r \o <<x, y, z>>
         /\ (r \o <<x, y>>) \o <<z>> = r \o <<x, y, z>>
         /\ (r \o <<x, y>>) \o <<z, w>> = r \o <<x, y, z, w>>
<1>. DEFINE s3 == <<x, y, z>>  s4 == <<x, y, z, w>>
            a == <<x>> \o <<y, z>>  b == <<x, y>> \o <<z>>  c == <<x, y>> \o <<z, w>>
<1>1. s3 \in Seq(Int) /\ Len(s3) = 3 /\ s3[1] = x /\ s3[2] = y /\ s3[3] = z
  OBVIOUS
<1>2. s4 \in Seq(Int) /\ Len(s4) = 4 /\ s4[1] = x /\ s4[2] = y /\ s4[3] = z /\ s4[4] = w
  OBVIOUS
<1>3. a \in Seq(Int) /\ Len(a) = 3 /\ a[1] = x /\ a[2] = y /\ a[3] = z
  OBVIOUS
<1>4. b \in Seq(Int) /\ Len(b) = 3 /\ b[1] = x /\ b[2] = y /\ b[3] = z
  OBVIOUS
<1>5. c \in Seq(Int) /\ Len(c) = 4 /\ c[1] = x /\ c[2] = y /\ c[3] = z /\ c[4] = w
  OBVIOUS
<1>. HIDE DEF s3, s4, a, b, c
<1>6. \A i \in 1 .. 3 : i = 1 \/ i = 2 \/ i = 3
  OBVIOUS
<1>7. \A i \in 1 .. 4 : i = 1 \/ i = 2 \/ i = 3 \/ i = 4
  OBVIOUS
<1>8. a = s3
  <2>1. \A i \in 1 .. Len(a) : a[i] = s3[i]
    BY <1>1, <1>3, <1>6
  <2>. QED BY <1>1, <1>3, <2>1, SeqEqual
<1>9. b = s3
  <2>1. \A i \in 1 .. Len(b) : b[i] = s3[i]
    BY <1>1, <1>4, <1>6
  <2>. QED BY <1>1, <1>4, <2>1, SeqEqual
<1>10. c = s4
  <2>1. \A i \in 1 .. Len(c) : c[i] = s4[i]
    BY <1>2, <1>5, <1>7
  <2>. QED BY <1>2, <1>5, <2>1, SeqEqual
<1>11. /\ <<x>> \in Seq(Int) /\ <<z>> \in Seq(Int) /\ <<x, y>> \in Seq(Int)
       /\ <<y, z>> \in Seq(Int) /\ <<z, w>> \in Seq(Int)
  OBVIOUS
<1>12. (r \o <<x>>) \o <<y, z>> = r \o a
  BY <1>11, ConcatAssociative DEF a
<1>13. (r \o <<x, y>>) \o <<z>> = r \o b
  BY <1>11, ConcatAssociative DEF b
<1>14. (r \o <<x, y>>) \o <<z, w>> = r \o c
  BY <1>11, ConcatAssociative DEF c
<1>. QED BY <1>8, <1>9, <1>10, <1>12, <1>13, <1>14 DEF s3, s4

TwoMoreFrom(s, left, F, k, m, g, w1, w2, w3, w4) ==
  /\ m > 2 /\ At(s, left, k - 2, m - 2, g) => w1 = F[k - 2]
  /\ g < Len(s) /\ At(s, left, k - 2, s[g + 1], g + 1) => w2 = F[k - 2]
  /\ g < Len(s) /\ At(s, left, k - 2, s[g + 1] - 1, g + 1) => w3 = F[k - 2]
  /\ g + 1 < Len(s) /\ At(s, left, k - 2, s[g + 2], g + 2) => w4 = F[k - 2]

LEMMA TwoMore ==
  ASSUME NEW s, NEW left, NEW F, NEW n, Grid(s, left, F, n),
         NEW k, NEW m, NEW g, At(s, left, k, m, g),
         NEW v, NEW w1, NEW w2, NEW w3, NEW w4,
         TwoMoreText(s, k, m, g, v, w1, w2, w3, w4),
         TwoMoreFrom(s, left, F, k, m, g, w1, w2, w3, w4)
  PROVE  v = F[k]
<1>1. /\ k \in 1 .. n /\ m \in Nat /\ n \in Nat
      /\ F[k] = F[k - 1] \o (IF m = 1 /\ g < Len(s) THEN <<PrintInt!Separator, k>> ELSE <<k>>)
      /\ F[k - 1] \in Seq(Int)
      /\ m > 1 => At(s, left, k - 1, m - 1, g)
      /\ m = 1 /\ g < Len(s) => At(s, left, k - 1, s[g + 1], g + 1)
      /\ m = 1 /\ g = Len(s) => k = 1
      /\ k = 1 => m = 1 /\ g = Len(s)
  <2>1. n \in Nat
    BY GridFacts
  <2>2. DigitAt(s, left, F, n, k, m, g)
    BY NextDigit, Zenon
  <2>. QED BY <2>1, <2>2 DEF DigitAt
<1>2. g \in 1 .. Len(s) /\ Len(s) \in Nat /\ m >= 1 /\ PrintInt!Separator \in Int
  <2>1. g \in 1 .. Len(s) /\ m \in 1 .. s[g]
    BY DEF At
  <2>2. s[g] \in Nat
    BY <2>1, GridFacts
  <2>. QED BY <2>1, <2>2, GridFacts DEF PrintInt!Separator
(* The first digit.                                                        *)
<1>3. F[1] = <<1>> \/ n = 0
  <2>. SUFFICES ASSUME n # 0 PROVE F[1] = <<1>>
    OBVIOUS
  <2>1. 1 \in 1 .. n /\ 1 - 1 = 0
    BY <1>1
  <2>2. F[1] = Ahead(F, Gaps(s, left), 1) \o <<1>> /\ F[0] = <<>>
    BY <2>1 DEF Grid, Laid
  <2>3. 1 \notin Gaps(s, left)
    <3>1. Len(s) \in 1 .. Len(s) /\ left[Len(s) + 1] = 0
      BY <1>2, GridFacts
    <3>2. left[Len(s)] \in Nat /\ left[Len(s)] >= 1
      <4>1. /\ s[Len(s)] \in Nat /\ s[Len(s)] # 0
            /\ left[Len(s)] = s[Len(s)] + left[Len(s) + 1]
        BY <3>1, GridFacts
      <4>. QED BY <3>1, <4>1
    <3>3. 1 \in Nat /\ left[Len(s) + 1] < 1 /\ 1 <= left[Len(s)]
      BY <3>1, <3>2
    <3>4. 1 \in Gaps(s, left) <=> (1 = left[Len(s) + 1] + 1 /\ Len(s) < Len(s))
      BY <3>1, <3>3, GapAt
    <3>. QED BY <1>2, <3>4
  <2>4. F[1] = (<<>> \o <<>>) \o <<1>>
    BY <2>1, <2>2, <2>3 DEF Ahead
  <2>5. (<<>> \o <<>>) \o <<1>> = <<1>>
    OBVIOUS
  <2>. QED BY <2>4, <2>5
<1>4. CASE k = 1
  <2>1. n # 0
    BY <1>1, <1>4
  <2>2. v = <<1>>
    BY <1>4 DEF TwoMoreText
  <2>. QED BY <1>3, <1>4, <2>1, <2>2
<1>5. CASE k = 2
  <2>1. v = IF m = 1 THEN <<1, PrintInt!Separator, 2>> ELSE <<1, 2>>
    BY <1>5 DEF TwoMoreText
  <2>2. F[1] = <<1>> /\ F[2] = F[1] \o (IF m = 1 /\ g < Len(s) THEN <<PrintInt!Separator, 2>> ELSE <<2>>)
    <3>1. n # 0 /\ k - 1 = 1
      BY <1>1, <1>5
    <3>2. F[2] = F[1] \o (IF m = 1 /\ g < Len(s) THEN <<PrintInt!Separator, 2>> ELSE <<2>>)
      BY <1>1, <1>5, <3>1, Zenon
    <3>. QED BY <1>3, <3>1, <3>2
  <2>3. m = 1 => g < Len(s)
    BY <1>1, <1>2, <1>5
  <2>4. <<1>> \o <<2>> = <<1, 2>> /\ <<1>> \o <<PrintInt!Separator, 2>> = <<1, PrintInt!Separator, 2>>
    <3>1. \A t \in Seq(Int) : <<>> \o t = t
      OBVIOUS
    <3>2. /\ <<>> \in Seq(Int) /\ <<1>> \in Seq(Int) /\ <<1, 2>> \in Seq(Int)
          /\ <<1, PrintInt!Separator, 2>> \in Seq(Int)
      BY DEF PrintInt!Separator
    <3>. DEFINE r == <<>>  z == PrintInt!Separator
    <3>3. r \in Seq(Int) /\ z \in Int /\ 1 \in Int /\ 2 \in Int
      BY DEF PrintInt!Separator
    <3>. HIDE DEF r, z
    <3>4. (r \o <<1>>) \o <<2>> = r \o <<1, 2>>
      BY <3>3, PutTwo
    <3>5. (r \o <<1>>) \o <<z, 2>> = r \o <<1, z, 2>>
      BY <3>3, PutMore
    <3>. QED BY <3>1, <3>2, <3>4, <3>5 DEF r, z
  <2>5. CASE m = 1
    BY <1>5, <2>1, <2>2, <2>3, <2>4, <2>5
  <2>6. CASE m # 1
    BY <1>5, <2>1, <2>2, <2>4, <2>6
  <2>. QED BY <2>5, <2>6
(* Two digits more.                                                        *)
<1>6. ASSUME k # 1, k # 2, NEW p, NEW q, At(s, left, k - 1, p, q)
      PROVE  /\ F[k - 1] = F[k - 2] \o (IF p = 1 /\ q < Len(s)
                                         THEN <<PrintInt!Separator, k - 1>> ELSE <<k - 1>>)
             /\ F[k - 2] \in Seq(Int) /\ k \in Int /\ k - 1 \in Int
             /\ p \in Nat
             /\ p > 1 => At(s, left, k - 2, p - 1, q)
             /\ p = 1 => q < Len(s) /\ At(s, left, k - 2, s[q + 1], q + 1)
  <2>1. DigitAt(s, left, F, n, k - 1, p, q)
    BY <1>6, NextDigit, Zenon
  <2>2. (k - 1) - 1 = k - 2 /\ k \in Int /\ k - 1 \in Int /\ k - 1 # 1
    BY <1>1, <1>6
  <2>3. q \in 1 .. Len(s)
    BY <1>6 DEF At
  <2>4. /\ F[k - 1] = F[(k - 1) - 1] \o (IF p = 1 /\ q < Len(s)
                                         THEN <<PrintInt!Separator, k - 1>> ELSE <<k - 1>>)
        /\ F[(k - 1) - 1] \in Seq(Int)
        /\ p \in Nat
        /\ p > 1 => At(s, left, (k - 1) - 1, p - 1, q)
        /\ p = 1 /\ q < Len(s) => At(s, left, (k - 1) - 1, s[q + 1], q + 1)
        /\ p = 1 /\ q = Len(s) => k - 1 = 1
    BY <2>1, Zenon DEF DigitAt
  <2>5. p = 1 => q < Len(s)
    BY <1>2, <2>2, <2>3, <2>4
  <2>. QED BY <2>2, <2>4, <2>5
<1>7. CASE k # 1 /\ k # 2 /\ m > 2
  <2>1. v = w1 \o <<k - 1, k>>
    BY <1>7 DEF TwoMoreText
  <2>2. At(s, left, k - 1, m - 1, g) /\ m - 1 > 1 /\ (m - 1) - 1 = m - 2 /\ m - 1 # 1
    BY <1>1, <1>7
  <2>3. F[k - 1] = F[k - 2] \o <<k - 1>> /\ F[k - 2] \in Seq(Int) /\ At(s, left, k - 2, m - 2, g)
    BY <1>6, <1>7, <2>2
  <2>4. F[k] = F[k - 1] \o <<k>>
    <3>1. ~(m = 1 /\ g < Len(s))
      BY <1>1, <1>7
    <3>. QED BY <1>1, <3>1, Zenon
  <2>5. (F[k - 2] \o <<k - 1>>) \o <<k>> = F[k - 2] \o <<k - 1, k>>
    <3>1. k - 1 \in Int /\ k \in Int
      BY <1>1
    <3>. QED BY <2>3, <3>1, PutTwo
  <2>6. w1 = F[k - 2]
    BY <1>7, <2>3 DEF TwoMoreFrom
  <2>. QED BY <2>1, <2>3, <2>4, <2>5, <2>6
<1>8. CASE k # 1 /\ k # 2 /\ m = 2
  <2>1. At(s, left, k - 1, 1, g)
    BY <1>1, <1>8
  <2>2. /\ g < Len(s) /\ At(s, left, k - 2, s[g + 1], g + 1)
        /\ F[k - 1] = F[k - 2] \o <<PrintInt!Separator, k - 1>> /\ F[k - 2] \in Seq(Int)
    BY <1>6, <1>8, <2>1
  <2>3. v = w2 \o <<PrintInt!Separator, k - 1, k>>
    <3>1. ~(m > 2)
      BY <1>8
    <3>. QED BY <1>8, <2>2, <3>1, Zenon DEF TwoMoreText
  <2>4. F[k] = F[k - 1] \o <<k>>
    <3>1. ~(m = 1 /\ g < Len(s))
      BY <1>8
    <3>. QED BY <1>1, <3>1, Zenon
  <2>5. (F[k - 2] \o <<PrintInt!Separator, k - 1>>) \o <<k>> = F[k - 2] \o <<PrintInt!Separator, k - 1, k>>
    <3>1. k - 1 \in Int /\ k \in Int
      BY <1>1
    <3>. QED BY <1>2, <2>2, <3>1, PutMore, ZenonT(60)
  <2>6. w2 = F[k - 2]
    BY <2>2 DEF TwoMoreFrom
  <2>. QED BY <2>2, <2>3, <2>4, <2>5, <2>6
<1>9. CASE k # 1 /\ k # 2 /\ m = 1
  <2>1. g < Len(s) /\ At(s, left, k - 1, s[g + 1], g + 1)
    BY <1>1, <1>2, <1>9
  <2>2. F[k] = F[k - 1] \o <<PrintInt!Separator, k>>
    BY <1>1, <1>9, <2>1
  <2>3. s[g + 1] \in Nat /\ s[g + 1] # 0
    <3>1. g + 1 \in 1 .. Len(s)
      BY <1>2, <2>1
    <3>. QED BY <3>1, GridFacts
  <2>4. CASE s[g + 1] > 1
    <3>1. /\ At(s, left, k - 2, s[g + 1] - 1, g + 1)
          /\ F[k - 1] = F[k - 2] \o <<k - 1>> /\ F[k - 2] \in Seq(Int)
      <4>1. s[g + 1] # 1
        BY <2>3, <2>4
      <4>. QED BY <1>6, <1>9, <2>1, <2>4, <4>1
    <3>2. v = w3 \o <<k - 1, PrintInt!Separator, k>>
      <4>1. ~(m > 2) /\ ~(m = 2 /\ g < Len(s))
        BY <1>9
      <4>. QED BY <1>9, <2>1, <2>4, <4>1, Zenon DEF TwoMoreText
    <3>3. (F[k - 2] \o <<k - 1>>) \o <<PrintInt!Separator, k>> = F[k - 2] \o <<k - 1, PrintInt!Separator, k>>
      <4>1. k - 1 \in Int /\ k \in Int
        BY <1>1
      <4>. QED BY <1>2, <3>1, <4>1, PutMore
    <3>4. w3 = F[k - 2]
      BY <2>1, <3>1 DEF TwoMoreFrom
    <3>. QED BY <2>2, <3>1, <3>2, <3>3, <3>4
  <2>5. CASE ~(s[g + 1] > 1)
    <3>1. s[g + 1] = 1
      BY <2>3, <2>5
    <3>2. /\ g + 1 < Len(s) /\ At(s, left, k - 2, s[(g + 1) + 1], (g + 1) + 1)
          /\ F[k - 1] = F[k - 2] \o <<PrintInt!Separator, k - 1>> /\ F[k - 2] \in Seq(Int)
      BY <1>6, <1>9, <2>1, <3>1
    <3>3. v = w4 \o <<PrintInt!Separator, k - 1, PrintInt!Separator, k>>
      <4>1. ~(m > 2) /\ ~(m = 2 /\ g < Len(s)) /\ ~(m = 1 /\ g < Len(s) /\ s[g + 1] > 1)
        BY <1>9, <2>5
      <4>. QED BY <1>9, <3>1, <3>2, <4>1, Zenon DEF TwoMoreText
    <3>4. (F[k - 2] \o <<PrintInt!Separator, k - 1>>) \o <<PrintInt!Separator, k>>
           = F[k - 2] \o <<PrintInt!Separator, k - 1, PrintInt!Separator, k>>
      <4>1. k - 1 \in Int /\ k \in Int
        BY <1>1
      <4>. QED BY <1>2, <3>2, <4>1, PutMore, ZenonT(60)
    <3>5. w4 = F[k - 2]
      <4>1. (g + 1) + 1 = g + 2
        BY <1>2
      <4>. QED BY <3>2, <4>1 DEF TwoMoreFrom
    <3>. QED BY <2>2, <3>2, <3>3, <3>4, <3>5
  <2>. QED BY <2>4, <2>5
<1>10. m > 2 \/ m = 2 \/ m = 1
  BY <1>1, <1>2
<1>. QED BY <1>4, <1>5, <1>7, <1>8, <1>9, <1>10

LEMMA PairsRight ==
  ASSUME NEW s, NEW left, NEW F, NEW n, Grid(s, left, F, n), n # 0
  PROVE  PrintInt!PairsBackwards(s, n) = F[n]
<1>. DEFINE text == PairsText(s, n)
            S == {j \in Nat : \A k, m, g : At(s, left, k, m, g) /\ k <= j => text[<<k, m, g>>] = F[k]}
<1>1. n \in Nat /\ s \in Seq(0 .. n)
  BY SizesWithin
<1>2. \A x \in OnesDomain(s, n) :
        LET k == x[1]  m == x[2]  g == x[3] IN
        TwoMoreText(s, k, m, g, text[x], text[<<k - 2, m - 2, g>>], text[<<k - 2, s[g + 1], g + 1>>],
                    text[<<k - 2, s[g + 1] - 1, g + 1>>], text[<<k - 2, s[g + 2], g + 2>>])
  BY <1>1, PairsSteps, ZenonT(60)
<1>. HIDE DEF text
<1>3. 0 \in S
  <2>1. \A k, m, g : At(s, left, k, m, g) => k \in Nat /\ k >= 1
    <3>1. \A k, m, g : At(s, left, k, m, g) => DigitAt(s, left, F, n, k, m, g)
      BY NextDigit, Zenon
    <3>2. \A k, m, g : At(s, left, k, m, g) => k \in 1 .. n
      BY <3>1 DEF DigitAt
    <3>. QED BY <1>1, <3>2
  <2>2. \A k, m, g : ~(At(s, left, k, m, g) /\ k <= 0)
    BY <2>1
  <2>. QED BY <2>2
<1>4. ASSUME NEW j \in Nat, j \in S PROVE j + 1 \in S
  <2>1. ASSUME NEW k, NEW m, NEW g, At(s, left, k, m, g), k <= j + 1
        PROVE  text[<<k, m, g>>] = F[k]
    <3>1. \A p, q, r : At(s, left, p, q, r) /\ p <= j => text[<<p, q, r>>] = F[p]
      BY <1>4
    <3>2. <<k, m, g>> \in OnesDomain(s, n) /\ k \in Nat
      BY <2>1, AtInDomain
    <3>3. k - 2 <= j
      BY <2>1, <3>2
    <3>. DEFINE v == text[<<k, m, g>>]  w1 == text[<<k - 2, m - 2, g>>]
                w2 == text[<<k - 2, s[g + 1], g + 1>>]
                w3 == text[<<k - 2, s[g + 1] - 1, g + 1>>]
                w4 == text[<<k - 2, s[g + 2], g + 2>>]
    <3>4. TwoMoreFrom(s, left, F, k, m, g, w1, w2, w3, w4)
      BY <3>1, <3>3, Zenon DEF TwoMoreFrom
    <3>5. TwoMoreText(s, k, m, g, v, w1, w2, w3, w4)
      <4>. DEFINE x == <<k, m, g>>
      <4>1. x[1] = k /\ x[2] = m /\ x[3] = g
        OBVIOUS
      <4>. HIDE DEF x
      <4>. QED BY <1>2, <3>2, <4>1, Zenon DEF x
    <3>. HIDE DEF v, w1, w2, w3, w4
    <3>6. v = F[k]
      BY <2>1, <3>4, <3>5, TwoMore, Zenon
    <3>. QED BY <3>6 DEF v
  <2>. QED BY <2>1
<1>5. n \in S
  <2>. HIDE DEF S
  <2>. QED BY <1>1, <1>3, <1>4, Induct
<1>6. At(s, left, n, s[1], 1) /\ n <= n
  BY <1>1, FirstAt
<1>7. text[<<n, s[1], 1>>] = F[n]
  BY <1>5, <1>6
<1>. QED BY <1>1, <1>7, PairsSteps DEF text

-----------------------------------------------------------------------------
(* A group is written as a run of digits.                                  *)
LEMMA GroupWritten ==
  ASSUME NEW s, NEW left, NEW F, NEW n, Grid(s, left, F, n), NEW i \in 1 .. Len(s)
  PROVE  /\ F[left[i]] = Ahead(F, Gaps(s, left), left[i + 1] + 1)
                         \o PrintInt!Digits(left[i + 1] + 1, s[i])
         /\ Ahead(F, Gaps(s, left), left[i + 1] + 1) \in Seq(Int)
         /\ left[i + 1] + 1 \in 1 .. n /\ left[i] \in 1 .. n
         /\ (left[i + 1] + 1 \in Gaps(s, left) <=> i < Len(s))
<1>. DEFINE k == left[i + 1] + 1  h == s[i] - 1  G == Gaps(s, left)
<1>1. /\ i \in Nat /\ Len(s) \in Nat /\ n \in Nat
      /\ left[i] \in Nat /\ left[i] <= n /\ left[i + 1] \in Nat
      /\ s[i] \in Nat /\ s[i] # 0 /\ left[i] = s[i] + left[i + 1]
  <2>1. i \in 1 .. Len(s) + 1 /\ i + 1 \in 1 .. Len(s) + 1 /\ Len(s) \in Nat /\ n \in Nat
    BY GridFacts
  <2>. QED BY <2>1, GridFacts, SMTT(60)
<1>2. k \in 1 .. n /\ h \in Nat /\ k + h <= n /\ k + h = left[i] /\ h + 1 = s[i]
  BY <1>1, SMTT(60)
<1>3. \A j \in Nat : left[i + 1] < j /\ j <= left[i] =>
        (j \in G <=> j = left[i + 1] + 1 /\ i < Len(s))
  BY GapAt
<1>4. \A j \in k + 1 .. k + h : j \notin G
  <2>1. \A j \in k + 1 .. k + h : j \in Nat /\ left[i + 1] < j /\ j <= left[i] /\ j # left[i + 1] + 1
    BY <1>1
  <2>. HIDE DEF k, h, G
  <2>. QED BY <1>3, <2>1
<1>5. Laid(F, G, n)
  BY DEF Grid
<1>6. F[k + h] = Ahead(F, G, k) \o PrintInt!Digits(k, h + 1) /\ Ahead(F, G, k) \in Seq(Int)
  <2>. HIDE DEF k, h, G
  <2>. QED BY <1>2, <1>4, <1>5, RunOfDigits
<1>7. k \in G <=> i < Len(s)
  <2>1. k \in Nat /\ left[i + 1] < k /\ k <= left[i]
    BY <1>1
  <2>. QED BY <1>3, <2>1
<1>8. left[i] \in 1 .. n
  BY <1>1
<1>. QED BY <1>2, <1>6, <1>7, <1>8

LEMMA DigitsSeq ==
  ASSUME NEW k \in Nat, NEW h \in Nat
  PROVE  PrintInt!Digits(k, h) \in Seq(Int) /\ Len(PrintInt!Digits(k, h)) = h
BY DEF PrintInt!Digits

(* One group: no separators.                                               *)
LEMMA OneGroup ==
  ASSUME NEW s, NEW left, NEW F, NEW n, Grid(s, left, F, n), Len(s) = 1
  PROVE  /\ \A k \in 1 .. n : F[k] = F[k - 1] \o <<k>>
         /\ \A k \in 1 .. n : Ahead(F, Gaps(s, left), k) = F[k - 1]
         /\ F[n] = PrintInt!Digits(1, n)
<1>1. Gaps(s, left) = {}
  <2>1. \A i : i \notin 2 .. Len(s)
    OBVIOUS
  <2>. QED BY <2>1 DEF Gaps
<1>2. n \in Nat /\ Laid(F, Gaps(s, left), n)
  BY DEF Grid, Laid
<1>3. ASSUME NEW k \in 1 .. n
      PROVE  F[k] = F[k - 1] \o <<k>> /\ Ahead(F, Gaps(s, left), k) = F[k - 1]
  <2>1. k - 1 \in 0 .. n
    BY <1>2
  <2>2. F[k] = Ahead(F, Gaps(s, left), k) \o <<k>> /\ F[k - 1] \in Seq(Int)
    BY <1>2, <2>1 DEF Laid
  <2>3. Ahead(F, Gaps(s, left), k) = F[k - 1] \o <<>>
    BY <1>1 DEF Ahead
  <2>. QED BY <2>2, <2>3
<1>4. F[n] = PrintInt!Digits(1, n)
  <2>1. 1 \in 1 .. Len(s)
    OBVIOUS
  <2>2. left[1] = n /\ left[Len(s) + 1] = 0 /\ left[1] = s[1] + left[1 + 1] /\ s[1] \in Nat /\ s[1] # 0
    <3>1. \A i \in 1 .. Len(s) : s[i] \in Nat /\ s[i] # 0 /\ left[i] = s[i] + left[i + 1]
      BY GridFacts
    <3>2. left[1] = n /\ left[Len(s) + 1] = 0
      BY GridFacts
    <3>. QED BY <2>1, <3>1, <3>2
  <2>3. left[1 + 1] = 0 /\ s[1] = n
    BY <1>2, <2>2
  <2>4. F[left[1]] = Ahead(F, Gaps(s, left), left[1 + 1] + 1) \o PrintInt!Digits(left[1 + 1] + 1, s[1])
    BY <2>1, GroupWritten, ZenonT(60)
  <2>5. F[n] = Ahead(F, Gaps(s, left), 1) \o PrintInt!Digits(1, n)
    BY <2>2, <2>3, <2>4
  <2>6. Ahead(F, Gaps(s, left), 1) = <<>>
    <3>1. 1 \in 1 .. n
      BY <1>2, <2>2, <2>3
    <3>2. \A k \in 1 .. n : Ahead(F, Gaps(s, left), k) = F[k - 1]
      BY <1>3
    <3>3. Ahead(F, Gaps(s, left), 1) = F[1 - 1]
      BY <3>1, <3>2, Zenon
    <3>4. 1 - 1 = 0
      OBVIOUS
    <3>. QED BY <1>2, <3>3, <3>4 DEF Laid
  <2>7. PrintInt!Digits(1, n) \in Seq(Int)
    BY <1>2, DigitsSeq
  <2>. QED BY <2>5, <2>6, <2>7
<1>. QED BY <1>3, <1>4

(* How long the text is: its groups have one separator less.               *)
LEMMA LengthOfGroups ==
  ASSUME NEW s, NEW left, NEW F, NEW n, Grid(s, left, F, n)
  PROVE  Len(F[n]) = n + Len(s) - 1
<1>. DEFINE l == Len(s)  G == Gaps(s, left)
            S == {d \in Nat : d < l => Len(F[left[l - d]]) = left[l - d] + d}
<1>1. l \in Nat /\ l >= 1 /\ n \in Nat /\ left[1] = n /\ left[l + 1] = 0
  BY GridFacts
<1>2. F[0] = <<>>
  BY DEF Grid, Laid
<1>3. ASSUME NEW i \in 1 .. l
      PROVE  /\ F[left[i]] = Ahead(F, G, left[i + 1] + 1) \o PrintInt!Digits(left[i + 1] + 1, s[i])
             /\ Ahead(F, G, left[i + 1] + 1) \in Seq(Int)
             /\ (left[i + 1] + 1 \in G <=> i < l)
             /\ left[i] = s[i] + left[i + 1] /\ s[i] \in Nat /\ left[i + 1] \in Nat
             /\ F[left[i + 1]] \in Seq(Int)
  <2>1. i + 1 \in 1 .. l + 1
    BY <1>1
  <2>2. left[i + 1] \in Nat /\ left[i + 1] <= n
    BY <2>1, GridFacts
  <2>3. left[i + 1] \in 0 .. n
    BY <1>1, <2>2
  <2>4. F[left[i + 1]] \in Seq(Int)
    BY <2>3 DEF Grid, Laid
  <2>5. left[i] = s[i] + left[i + 1] /\ s[i] \in Nat
    BY GridFacts
  <2>. QED BY <2>2, <2>4, <2>5, GroupWritten
<1>4. ASSUME NEW i \in 1 .. l
      PROVE  Len(F[left[i]]) = Len(F[left[i + 1]]) + (IF i < l THEN 1 ELSE 0) + s[i]
  <2>. DEFINE r == F[left[i + 1]]  A == Ahead(F, G, left[i + 1] + 1)
              ds == PrintInt!Digits(left[i + 1] + 1, s[i])
  <2>1. A = r \o (IF i < l THEN <<PrintInt!Separator>> ELSE <<>>)
    <3>1. (left[i + 1] + 1) - 1 = left[i + 1]
      BY <1>3
    <3>. QED BY <1>3, <3>1 DEF Ahead
  <2>2. ds \in Seq(Int) /\ Len(ds) = s[i]
    <3>1. left[i + 1] + 1 \in Nat /\ s[i] \in Nat
      BY <1>3
    <3>. QED BY <3>1, DigitsSeq
  <2>3. r \in Seq(Int) /\ A \in Seq(Int) /\ F[left[i]] = A \o ds /\ s[i] \in Nat
    BY <1>3
  <2>. HIDE DEF r, A, ds, l
  <2>4. Len(A) = Len(r) + (IF i < l THEN 1 ELSE 0)
    <3>1. <<PrintInt!Separator>> \in Seq(Int) /\ Len(<<PrintInt!Separator>>) = 1
      BY DEF PrintInt!Separator
    <3>2. <<>> \in Seq(Int) /\ Len(<<>>) = 0
      OBVIOUS
    <3>. QED BY <2>1, <2>3, <3>1, <3>2
  <2>5. Len(F[left[i]]) = Len(A) + Len(ds)
    <3>1. Len(A \o ds) = Len(A) + Len(ds)
      BY <2>2, <2>3, ConcatProperties
    <3>. QED BY <2>3, <3>1
  <2>6. Len(F[left[i]]) = Len(r) + (IF i < l THEN 1 ELSE 0) + s[i]
    BY <2>2, <2>4, <2>5
  <2>. QED BY <2>6 DEF r
<1>5. 0 \in S
  <2>1. l \in 1 .. l /\ l - 0 = l
    BY <1>1
  <2>2. Len(F[left[l]]) = Len(F[left[l + 1]]) + (IF l < l THEN 1 ELSE 0) + s[l]
    BY <1>4, <2>1
  <2>3. Len(F[left[l + 1]]) = 0
    BY <1>1, <1>2
  <2>4. left[l] = s[l] + left[l + 1] /\ s[l] \in Nat
    BY <1>3, <2>1
  <2>5. Len(F[left[l]]) = left[l]
    BY <1>1, <2>2, <2>3, <2>4
  <2>. HIDE DEF l
  <2>. QED BY <2>1, <2>4, <2>5, <1>1
<1>6. ASSUME NEW d \in Nat, d \in S PROVE d + 1 \in S
  <2>. SUFFICES ASSUME d + 1 < l PROVE Len(F[left[l - (d + 1)]]) = left[l - (d + 1)] + (d + 1)
    OBVIOUS
  <2>. DEFINE i == l - (d + 1)
  <2>1. i \in 1 .. l /\ i < l /\ i + 1 = l - d /\ d < l
    BY <1>1, <1>6
  <2>2. Len(F[left[i + 1]]) = left[i + 1] + d
    BY <1>6, <2>1
  <2>3. Len(F[left[i]]) = Len(F[left[i + 1]]) + 1 + s[i]
    BY <1>4, <2>1
  <2>4. left[i] = s[i] + left[i + 1] /\ s[i] \in Nat /\ left[i + 1] \in Nat
    BY <1>3, <2>1
  <2>. DEFINE x == left[i]  y == left[i + 1]  z == s[i]  long == Len(F[x])  short == Len(F[y])
  <2>. HIDE DEF i, S
  <2>5. short = y + d /\ long = short + 1 + z /\ x = z + y /\ z \in Nat /\ y \in Nat
    BY <2>2, <2>3, <2>4
  <2>6. long = x + (d + 1)
    <3>. HIDE DEF x, y, z, long, short
    <3>. QED BY <2>5
  <2>. QED BY <2>6 DEF i
<1>. HIDE DEF S
<1>7. l - 1 \in S
  <2>1. \A d \in Nat : d \in S
    BY <1>5, <1>6, Induct
  <2>. QED BY <1>1, <2>1
<1>8. Len(F[left[l - (l - 1)]]) = left[l - (l - 1)] + (l - 1)
  BY <1>1, <1>7 DEF S
<1>9. l - (l - 1) = 1
  BY <1>1
<1>. QED BY <1>1, <1>8, <1>9

-----------------------------------------------------------------------------
(* The groups of an argument: what separators that cannot be encoded would *)
(* set apart is one group.                                                 *)
TextGroups(a) == IF a.sep = 0 THEN <<a.digits>> ELSE PrintInt!GroupSizes(a.grouping, a.digits)
LeftOf(a) == CHOOSE left : AddsUp(left, TextGroups(a), a.digits)

ArgGrid(a) == Grid(TextGroups(a), LeftOf(a), FirstDigits(a), a.digits)

LEMMA TextGroupsShape ==
  ASSUME NEW a \in Args
  PROVE  /\ TextGroups(a) \in Seq(Nat) \ {<<>>}
         /\ \A j \in 1 .. Len(TextGroups(a)) : TextGroups(a)[j] # 0
         /\ \E left : AddsUp(left, TextGroups(a), a.digits)
<1>1. a.digits \in Nat /\ a.digits # 0 /\ a.grouping \in Seq(Nat) \ {<<>>}
  BY ArgFacts
<1>2. CASE a.sep = 0
  <2>. DEFINE n == a.digits  s == <<n>>  left == [j \in 1 .. 2 |-> IF j = 1 THEN n ELSE 0]
  <2>1. TextGroups(a) = s
    BY <1>2 DEF TextGroups
  <2>2. s \in Seq(Nat) \ {<<>>} /\ Len(s) = 1 /\ s[1] = n
    BY <1>1
  <2>3. \A j \in 1 .. Len(s) : j = 1
    BY <2>2
  <2>4. AddsUp(left, s, n)
    <3>1. left \in [1 .. 2 -> Nat] /\ left[1] = n /\ left[2] = 0
      BY <1>1
    <3>2. Len(s) + 1 = 2
      BY <2>2
    <3>. HIDE DEF left, s
    <3>3. left[1] = s[1] + left[1 + 1]
      BY <1>1, <2>2, <3>1
    <3>. QED BY <2>3, <3>1, <3>2, <3>3 DEF AddsUp
  <2>5. \A j \in 1 .. Len(s) : s[j] # 0
    BY <1>1, <2>2, <2>3
  <2>. HIDE DEF s, left
  <2>. QED BY <2>1, <2>2, <2>4, <2>5
<1>3. CASE a.sep # 0
  <2>1. TextGroups(a) = PrintInt!GroupSizes(a.grouping, a.digits)
    BY <1>3 DEF TextGroups
  <2>2. Shape(TextGroups(a), a.grouping, 1, a.digits)
    BY <1>1, <2>1, SizesShape
  <2>. QED BY <2>2 DEF Shape
<1>. QED BY <1>2, <1>3

(* Where the separators are.                                               *)
LEMMA EndsAreLeft ==
  ASSUME NEW a \in Args
  PROVE  /\ AddsUp(LeftOf(a), TextGroups(a), a.digits)
         /\ PrintInt!Ends(a) = {a.digits - LeftOf(a)[i] : i \in 2 .. Len(TextGroups(a))}
<1>. DEFINE left == LeftOf(a)  s == TextGroups(a)
<1>1. a.digits \in Nat /\ a.digits # 0 /\ a.grouping \in Seq(Nat) \ {<<>>}
  BY ArgFacts
<1>2. AddsUp(left, s, a.digits)
  <2>1. \E x : AddsUp(x, s, a.digits)
    BY TextGroupsShape
  <2>. QED BY <2>1 DEF LeftOf
<1>3. CASE a.sep = 0
  <2>1. PrintInt!Ends(a) = {} /\ TextGroups(a) = <<a.digits>>
    BY <1>3 DEF TextGroups, PrintInt!Ends
  <2>2. Len(TextGroups(a)) = 1
    BY <2>1
  <2>3. \A i : i \notin 2 .. Len(TextGroups(a))
    BY <2>2
  <2>. QED BY <1>2, <2>1, <2>3
<1>4. CASE a.sep # 0
  <2>1. TextGroups(a) = PrintInt!GroupSizes(a.grouping, a.digits)
        /\ PrintInt!Ends(a) = PrintInt!GroupEnds(a.grouping, a.digits)
    BY <1>4 DEF TextGroups, PrintInt!Ends
  <2>2. Shape(TextGroups(a), a.grouping, 1, a.digits)
    BY <1>1, <2>1, SizesShape
  <2>. HIDE DEF left
  <2>3. PrintInt!GroupEnds(a.grouping, a.digits) = {a.digits - left[i] : i \in 2 .. Len(s)}
    BY <1>1, <1>2, <2>2, SizesEnd
  <2>. QED BY <1>2, <2>1, <2>3 DEF left
<1>. QED BY <1>3, <1>4

LEMMA TheGrid ==
  ASSUME NEW a \in Args
  PROVE  /\ ArgGrid(a)
         /\ PrintInt!Grouped(a) = FirstDigits(a)[a.digits]
         /\ a.digits # 0
<1>. DEFINE left == LeftOf(a)  s == TextGroups(a)  n == a.digits
<1>1. n \in Nat /\ n # 0
  BY ArgFacts
<1>2. AddsUp(left, s, n) /\ PrintInt!Ends(a) = {n - left[i] : i \in 2 .. Len(s)}
  BY EndsAreLeft
<1>3. s \in Seq(Nat) \ {<<>>} /\ \A j \in 1 .. Len(s) : s[j] # 0
  BY TextGroupsShape
<1>. HIDE DEF left, s, n
<1>4. \A i \in 2 .. Len(s) : left[i] \in Nat /\ left[i] + 1 \in 1 .. n
  <2>1. \A i, j \in 1 .. Len(s) + 1 : i <= j => left[j] + (j - i) <= left[i]
    BY <1>2, <1>3, LeftFalls
  <2>2. ASSUME NEW i \in 2 .. Len(s) PROVE left[i] \in Nat /\ left[i] + 1 \in 1 .. n
    <3>1. i \in 1 .. Len(s) + 1 /\ 1 \in 1 .. Len(s) + 1 /\ 1 <= i /\ i - 1 >= 1
      BY <1>3
    <3>2. left[i] \in Nat /\ left[1] = n
      BY <1>2, <3>1 DEF AddsUp
    <3>3. left[i] + (i - 1) <= left[1]
      BY <2>1, <3>1
    <3>. QED BY <1>1, <3>1, <3>2, <3>3
  <2>. QED BY <2>2
<1>5. GapsOf(a) = Gaps(s, left)
  <2>1. GapsOf(a) = {k \in 1 .. n : n - k + 1 \in PrintInt!Ends(a)}
    BY DEF GapsOf, n
  <2>2. ASSUME NEW k \in GapsOf(a) PROVE k \in Gaps(s, left)
    <3>1. k \in 1 .. n /\ n - k + 1 \in PrintInt!Ends(a)
      BY <2>1
    <3>2. PICK i \in 2 .. Len(s) : n - k + 1 = n - left[i]
      BY <1>2, <3>1
    <3>3. k = left[i] + 1
      BY <1>1, <1>4, <3>1, <3>2
    <3>. QED BY <3>3 DEF Gaps
  <2>3. ASSUME NEW k \in Gaps(s, left) PROVE k \in GapsOf(a)
    <3>1. PICK i \in 2 .. Len(s) : k = left[i] + 1
      BY DEF Gaps
    <3>2. k \in 1 .. n /\ n - k + 1 = n - left[i]
      BY <1>1, <1>4, <3>1
    <3>. QED BY <1>2, <2>1, <3>2
  <2>. QED BY <2>2, <2>3
<1>6. Laid(FirstDigits(a), GapsOf(a), n) /\ PrintInt!Grouped(a) = FirstDigits(a)[n]
  BY <1>1, FirstSteps DEF n
<1>7. Grid(s, left, FirstDigits(a), n)
  BY <1>2, <1>3, <1>5, <1>6 DEF Grid
<1>. QED BY <1>1, <1>6, <1>7 DEF ArgGrid, s, left, n

(* How the separators that are counted and the groups agree, when the      *)
(* digits are counted right.                                               *)
LEMMA CountedGroups ==
  ASSUME NEW a \in Args, PrintInt!DigCount(a) = a.digits
  PROVE  /\ a.sep = 0 \/ PrintInt!SepCount(a) = 0 => Len(TextGroups(a)) = 1
         /\ a.sep # 0 => PrintInt!SepCount(a) = Len(TextGroups(a)) - 1
         /\ PrintInt!SepCount(a) \in Nat
         /\ PrintInt!NoGroupSeparation(a.grouping, a.digits) => Len(TextGroups(a)) = 1
<1>. DEFINE n == a.digits  g == a.grouping  s == PrintInt!GroupSizes(g, n)
<1>1. n \in Nat /\ n # 0 /\ g \in Seq(Nat) \ {<<>>}
  BY ArgFacts
<1>2. PrintInt!ThousandsSepCount(g, n) = Len(s) - 1
  BY <1>1, SeparatorsMatchGroups
<1>3. Len(s) \in Nat /\ Len(s) >= 1
  <2>1. Shape(s, g, 1, n)
    BY <1>1, SizesShape
  <2>. HIDE DEF s
  <2>. QED BY <2>1 DEF Shape
<1>4. ASSUME PrintInt!NoGroupSeparation(g, n) PROVE Len(s) = 1
  <2>1. <<1, n>> \in SizesDomain(g, n) /\ s = SizesFrom(g, n)[<<1, n>>]
    BY <1>1, SizesLoop, SizesSteps
  <2>2. <<1, n>> \in SizesStop(g, n)
    <3>1. g[1] \in Nat
      BY <1>1
    <3>. QED BY <1>1, <1>4, <2>1, <3>1 DEF SizesStop, PrintInt!NoGroupSeparation
  <2>3. SizesFrom(g, n)[<<1, n>>] = <<<<1, n>>[2]>>
    BY <1>1, <2>1, <2>2, SizesSteps
  <2>. HIDE DEF s
  <2>. QED BY <2>1, <2>3
<1>5. PrintInt!SepCount(a) = Len(s) - 1
  <2>. HIDE DEF s
  <2>1. CASE a.printer = "punct" /\ PrintInt!NoGroupSeparation(g, n)
    <3>1. PrintInt!SepCount(a) = 0
      BY <2>1 DEF PrintInt!SepCount
    <3>. QED BY <1>4, <2>1, <3>1
  <2>2. CASE ~(a.printer = "punct" /\ PrintInt!NoGroupSeparation(g, n))
    BY <1>2, <2>2 DEF PrintInt!SepCount
  <2>. QED BY <2>1, <2>2
<1>6. a.sep # 0 => TextGroups(a) = s
  BY DEF TextGroups
<1>7. a.sep = 0 => Len(TextGroups(a)) = 1
  BY DEF TextGroups
<1>8. PrintInt!NoGroupSeparation(g, n) => Len(TextGroups(a)) = 1
  <2>. HIDE DEF s, g, n
  <2>. QED BY <1>4, <1>6, <1>7
<1>. HIDE DEF s
<1>. QED BY <1>3, <1>5, <1>6, <1>7, <1>8

-----------------------------------------------------------------------------
(* The piece of the text that each call writes, what the calls still to be *)
(* made write together, and the whole text.                                *)
Padding(a) == IF a.precision > a.digits THEN a.precision - a.digits ELSE 0

Piece(a, name) ==
  CASE name = "fill" -> PrintInt!Filled(PrintInt!FillCount(a))
    [] name = "fill_half" -> PrintInt!Filled(PrintInt!FillCount(a) \div 2)
    [] name = "fill_rest" -> PrintInt!Filled(PrintInt!FillCount(a) - PrintInt!FillCount(a) \div 2)
    [] name = "zeros" -> PrintInt!Times(Padding(a), PrintInt!Zero)
    [] name \in {"prefixed", "complement"} -> PrintInt!Sign(a)
    [] name = "direct" -> PrintInt!Sign(a) \o PrintInt!Grouped(a)
    [] OTHER -> PrintInt!Grouped(a)

PieceAt(a, t, i) == IF i <= Len(t) THEN Piece(a, t[i]) ELSE <<>>
Rest(a, t) ==
  PieceAt(a, t, 1) \o (PieceAt(a, t, 2) \o (PieceAt(a, t, 3) \o
    (PieceAt(a, t, 4) \o PieceAt(a, t, 5))))

WholeText(a) ==
  LET n == PrintInt!FillCount(a) IN
  CASE a.align = "left" -> PrintInt!Sign(a) \o PrintInt!Number(a) \o PrintInt!Filled(n)
    [] a.align = "right" -> PrintInt!Filled(n) \o PrintInt!Sign(a) \o PrintInt!Number(a)
    [] a.align = "split" -> PrintInt!Sign(a) \o PrintInt!Filled(n) \o PrintInt!Number(a)
    [] a.align = "center" -> PrintInt!Filled(n \div 2) \o PrintInt!Sign(a)
                               \o PrintInt!Number(a) \o PrintInt!Filled(n - n \div 2)

(* What a loop has written of its piece, in front of digit k.              *)
Partial(a, name, k) ==
  IF name \in {"bits", "big_sep", "bits_little_sep", "bits_big_sep"}
  THEN Ahead(FirstDigits(a), Gaps(TextGroups(a), LeftOf(a)), k)
  ELSE IF name \in {"big_sep_room", "little_sep", "big_bit_sep"} THEN FirstDigits(a)[k - 1]
  ELSE <<>>

(* All of the text but what is still to be written.                        *)
IntSays ==
  \E before \in Seq(Int) :
    /\ out = before \o (IF todo = <<>> THEN <<>> ELSE Partial(arg, Head(todo), dig))
    /\ before \o Rest(arg, todo) = WholeText(arg)

(* Where a loop is: m groups remain, the current one first.                *)
Remaining(sizes, s, m) ==
  /\ m \in 1 .. Len(s)
  /\ sizes \in Seq(Nat) /\ Len(sizes) = m
  /\ \A j \in 2 .. m : sizes[j] = s[m + 1 - j]

IntPlace ==
  LET s == TextGroups(arg)  left == LeftOf(arg)  m == Len(groups) IN
  /\ PrintInt!Call("bits") => dig \in 1 .. arg.digits
  /\ PrintInt!Call("big_sep") =>
       Remaining(groups, s, m) /\ groups[1] \in 1 .. s[m] /\ dig \in Nat /\ dig + groups[1] = left[m] + 1
  /\ PrintInt!Call("big_sep_room") =>
       /\ Remaining(groups, s, m) /\ groups[1] \in 0 .. s[m] - 1 /\ dig + groups[1] = left[m] + 1
       /\ dig \in 1 .. arg.digits
  /\ (\E name \in {"bits_little_sep", "little_sep", "bits_big_sep", "big_bit_sep"} :
        PrintInt!Call(name)) =>
       Remaining(groups, s, m) /\ groups[1] = s[m] /\ dig = left[m + 1] + 1
  /\ PrintInt!Call("little_sep") \/ PrintInt!Call("big_bit_sep") => m < Len(s)

IntAlone ==
  \A i \in 1 .. Len(todo) :
    todo[i] \in {"direct", "digits", "bits"} => Len(TextGroups(arg)) = 1

IntTextInv ==
  PrintInt!DigCount(arg) = arg.digits =>
    Len(todo) <= 5 /\ IntAlone /\ IntPlace /\ IntSays

-----------------------------------------------------------------------------
LEMMA TimesSeq ==
  ASSUME NEW n \in Nat, NEW x \in Int
  PROVE  PrintInt!Times(n, x) \in Seq(Int) /\ Len(PrintInt!Times(n, x)) = n
BY DEF PrintInt!Times

LEMMA NoTimes == ASSUME NEW x PROVE PrintInt!Times(0, x) = <<>>
BY DEF PrintInt!Times

LEMMA FillFacts ==
  ASSUME NEW a \in Args
  PROVE  LET n == PrintInt!FillCount(a) IN
         /\ n \in Nat /\ n \div 2 \in Nat /\ n - n \div 2 \in Nat
         /\ PrintInt!Filled(n) \in Seq(Int)
         /\ PrintInt!Filled(n \div 2) \in Seq(Int)
         /\ PrintInt!Filled(n - n \div 2) \in Seq(Int)
<1>. DEFINE n == PrintInt!FillCount(a)
<1>1. n \in Nat
  BY CountFacts
<1>. HIDE DEF n
<1>2. n \div 2 \in Nat /\ n - n \div 2 \in Nat
  BY <1>1
<1>3. PrintInt!FillChar \in Int
  BY DEF PrintInt!FillChar
<1>4. \A k \in Nat : PrintInt!Filled(k) \in Seq(Int)
  BY <1>3, TimesSeq DEF PrintInt!Filled
<1>. QED BY <1>1, <1>2, <1>4 DEF n

LEMMA PartsSeq ==
  ASSUME NEW a \in Args
  PROVE  /\ PrintInt!Grouped(a) \in Seq(Int) /\ PrintInt!Sign(a) \in Seq(Int)
         /\ Padding(a) \in Nat /\ PrintInt!Times(Padding(a), PrintInt!Zero) \in Seq(Int)
         /\ PrintInt!Number(a) = PrintInt!Times(Padding(a), PrintInt!Zero) \o PrintInt!Grouped(a)
<1>1. a.digits \in Nat /\ a.digits # 0 /\ a.precision \in Nat /\ a.prefix \in Nat
  BY ArgFacts
<1>2. PrintInt!Grouped(a) \in Seq(Int)
  <2>1. PrintInt!Grouped(a) = FirstDigits(a)[a.digits] /\ ArgGrid(a)
    BY TheGrid
  <2>2. a.digits \in 0 .. a.digits
    BY <1>1
  <2>. QED BY <2>1, <2>2 DEF ArgGrid, Grid, Laid
<1>3. PrintInt!Sign(a) \in Seq(Int)
  <2>1. PrintInt!Prefix \in Int
    BY DEF PrintInt!Prefix
  <2>. QED BY <1>1, <2>1, TimesSeq DEF PrintInt!Sign
<1>4. Padding(a) \in Nat
  BY <1>1 DEF Padding
<1>5. PrintInt!Times(Padding(a), PrintInt!Zero) \in Seq(Int)
  <2>1. PrintInt!Zero \in Int
    BY DEF PrintInt!Zero
  <2>. QED BY <1>4, <2>1, TimesSeq
<1>6. PrintInt!Number(a) = PrintInt!Times(Padding(a), PrintInt!Zero) \o PrintInt!Grouped(a)
  BY DEF PrintInt!Number, Padding
<1>. QED BY <1>2, <1>3, <1>4, <1>5, <1>6

LEMMA PieceSeq ==
  ASSUME NEW a \in Args, NEW name
  PROVE  Piece(a, name) \in Seq(Int)
<1>1. PrintInt!Sign(a) \o PrintInt!Grouped(a) \in Seq(Int)
  <2>1. \A s, t \in Seq(Int) : s \o t \in Seq(Int)
    OBVIOUS
  <2>. QED BY <2>1, PartsSeq
<1>2. /\ PrintInt!Filled(PrintInt!FillCount(a)) \in Seq(Int)
      /\ PrintInt!Filled(PrintInt!FillCount(a) \div 2) \in Seq(Int)
      /\ PrintInt!Filled(PrintInt!FillCount(a) - PrintInt!FillCount(a) \div 2) \in Seq(Int)
  BY FillFacts
<1>3. /\ PrintInt!Times(Padding(a), PrintInt!Zero) \in Seq(Int)
      /\ PrintInt!Sign(a) \in Seq(Int) /\ PrintInt!Grouped(a) \in Seq(Int)
  BY PartsSeq
<1>. QED BY <1>1, <1>2, <1>3 DEF Piece

LEMMA PieceAtSeq ==
  ASSUME NEW a \in Args, NEW t, NEW i
  PROVE  PieceAt(a, t, i) \in Seq(Int)
<1>1. <<>> \in Seq(Int)
  OBVIOUS
<1>. QED BY <1>1, PieceSeq DEF PieceAt

(* The first piece, and the rest of the rest.                              *)
LEMMA RestOf ==
  ASSUME NEW a \in Args, NEW S, NEW t \in Seq(S), t # <<>>, Len(t) <= 5
  PROVE  /\ Rest(a, t) = Piece(a, Head(t)) \o Rest(a, Tail(t))
         /\ Rest(a, Tail(t)) \in Seq(Int)
<1>. DEFINE u == Tail(t)
<1>1. u \in Seq(S) /\ Len(t) \in Nat /\ Len(u) = Len(t) - 1 /\ Len(t) >= 1 /\ Head(t) = t[1]
  OBVIOUS
<1>2. ASSUME NEW i \in 1 .. 5 PROVE PieceAt(a, u, i) = PieceAt(a, t, i + 1)
  <2>1. i <= Len(u) <=> i + 1 <= Len(t)
    BY <1>1
  <2>2. i <= Len(u) => u[i] = t[i + 1]
    BY <1>1
  <2>. HIDE DEF u
  <2>. QED BY <2>1, <2>2 DEF PieceAt
<1>3. PieceAt(a, t, 6) = <<>> /\ PieceAt(a, t, 1) = Piece(a, Head(t))
  <2>1. ~(6 <= Len(t)) /\ 1 <= Len(t)
    BY <1>1
  <2>. QED BY <1>1, <2>1 DEF PieceAt
<1>4. /\ PieceAt(a, u, 1) = PieceAt(a, t, 2) /\ PieceAt(a, u, 2) = PieceAt(a, t, 3)
      /\ PieceAt(a, u, 3) = PieceAt(a, t, 4) /\ PieceAt(a, u, 4) = PieceAt(a, t, 5)
      /\ PieceAt(a, u, 5) = PieceAt(a, t, 6)
  BY <1>2
<1>. HIDE DEF u
<1>5. PieceAt(a, t, 5) \o <<>> = PieceAt(a, t, 5)
  BY PieceAtSeq
<1>6. Rest(a, u) = PieceAt(a, t, 2) \o (PieceAt(a, t, 3) \o (PieceAt(a, t, 4) \o PieceAt(a, t, 5)))
  BY <1>3, <1>4, <1>5 DEF Rest
<1>7. Rest(a, u) \in Seq(Int)
  <2>1. \A s, r \in Seq(Int) : s \o r \in Seq(Int)
    OBVIOUS
  <2>. QED BY <1>6, <2>1, PieceAtSeq
<1>. QED BY <1>3, <1>6, <1>7 DEF Rest, u

LEMMA RestOfEntered ==
  ASSUME NEW a \in Args, NEW S, NEW t \in Seq(S), t # <<>>, NEW loop \in S,
         Piece(a, loop) = Piece(a, Head(t))
  PROVE  Rest(a, <<loop>> \o Tail(t)) = Rest(a, t)
<1>. DEFINE u == <<loop>> \o Tail(t)
<1>1. /\ u \in Seq(S) /\ Len(u) = Len(t) /\ Len(t) \in Nat /\ Len(t) >= 1
      /\ u[1] = loop /\ Head(t) = t[1] /\ \A i \in 2 .. Len(t) : u[i] = t[i]
  OBVIOUS
<1>. HIDE DEF u
<1>2. ASSUME NEW i \in 1 .. 5 PROVE PieceAt(a, u, i) = PieceAt(a, t, i)
  <2>1. CASE i = 1
    BY <1>1, <2>1 DEF PieceAt
  <2>2. CASE i # 1 /\ i <= Len(t)
    <3>1. u[i] = t[i]
      BY <1>1, <2>2
    <3>. QED BY <1>1, <2>2, <3>1 DEF PieceAt
  <2>3. CASE ~(i <= Len(t))
    BY <1>1, <2>3 DEF PieceAt
  <2>. QED BY <2>1, <2>2, <2>3
<1>3. /\ PieceAt(a, u, 1) = PieceAt(a, t, 1) /\ PieceAt(a, u, 2) = PieceAt(a, t, 2)
      /\ PieceAt(a, u, 3) = PieceAt(a, t, 3) /\ PieceAt(a, u, 4) = PieceAt(a, t, 4)
      /\ PieceAt(a, u, 5) = PieceAt(a, t, 5)
  BY <1>2
<1>. QED BY <1>3 DEF Rest, u

-----------------------------------------------------------------------------
(* When a call has written its piece, and when it goes on as a loop.       *)
LEMMA NextIsNoLoop ==
  ASSUME IntControl, todo # <<>>, PrintInt!Return
  PROVE  /\ todo' # <<>> => Head(todo') \notin Loops
         /\ todo' = Tail(todo) /\ Len(todo') = Len(todo) - 1 /\ Len(todo) \in Nat
         /\ \A i \in 1 .. Len(todo') : i + 1 \in 1 .. Len(todo) /\ todo'[i] = todo[i + 1]
<1>1. todo \in Seq(Calls \cup Loops) /\ todo' = Tail(todo)
  BY DEF IntControl, PrintInt!Return
<1>2. todo' \in Seq(Calls \cup Loops) /\ Len(todo) \in Nat /\ Len(todo') = Len(todo) - 1
  BY <1>1
<1>3. \A i \in 1 .. Len(todo') : i + 1 \in 1 .. Len(todo) /\ todo'[i] = todo[i + 1]
  BY <1>1, <1>2
<1>4. ASSUME todo' # <<>> PROVE Head(todo') \notin Loops
  <2>1. Head(todo') = todo'[1] /\ 1 \in 1 .. Len(todo') /\ todo'[1] = todo[2] /\ 2 \in 2 .. Len(todo)
    BY <1>2, <1>3, <1>4
  <2>2. Head(todo') \in Calls
    BY <2>1 DEF IntControl
  <2>. QED BY <2>2 DEF Calls, Loops
<1>. QED BY <1>1, <1>2, <1>3, <1>4

LEMMA Regroup ==
  ASSUME NEW s \in Seq(Int), NEW t \in Seq(Int), NEW u \in Seq(Int)
  PROVE  (s \o t) \o u = s \o (t \o u)
BY ConcatAssociative, SMTT(60)

LEMMA NoPartial == ASSUME NEW a, NEW name, NEW k, name \notin Loops PROVE Partial(a, name, k) = <<>>
BY DEF Partial, Loops

LEMMA CallReturned ==
  ASSUME IntInv, todo # <<>>, PrintInt!Return, arg' = arg, Len(todo) <= 5, IntAlone,
         NEW before \in Seq(Int), before \o Rest(arg, todo) = WholeText(arg),
         out' = before \o Piece(arg, Head(todo))
  PROVE  IntTextInv'
<1>1. IntControl /\ arg \in Args /\ todo \in Seq(Calls \cup Loops)
  BY DEF IntInv, IntControl
<1>2. /\ todo' # <<>> => Head(todo') \notin Loops
      /\ todo' = Tail(todo) /\ Len(todo') = Len(todo) - 1 /\ Len(todo) \in Nat
      /\ \A i \in 1 .. Len(todo') : i + 1 \in 1 .. Len(todo) /\ todo'[i] = todo[i + 1]
  BY <1>1, NextIsNoLoop
<1>3. Len(todo') <= 5
  BY <1>2
<1>4. IntAlone'
  BY <1>2 DEF IntAlone
<1>5. IntPlace'
  BY <1>2 DEF IntPlace, PrintInt!Call, Loops
<1>6. IntSays'
  <2>. DEFINE p == Piece(arg, Head(todo))  r == Rest(arg, Tail(todo))
  <2>1. Rest(arg, todo) = p \o r /\ r \in Seq(Int) /\ p \in Seq(Int)
    BY <1>1, RestOf, PieceSeq
  <2>. HIDE DEF p, r
  <2>2. (before \o p) \o r = before \o (p \o r)
    BY <2>1, Regroup, Zenon
  <2>3. out' \in Seq(Int) /\ out' \o r = WholeText(arg)
    <3>1. before \o p \in Seq(Int)
      BY <2>1
    <3>. QED BY <2>1, <2>2, <3>1 DEF p
  <2>4. out' = out' \o (IF todo' = <<>> THEN <<>> ELSE Partial(arg, Head(todo'), dig'))
    <3>1. (IF todo' = <<>> THEN <<>> ELSE Partial(arg, Head(todo'), dig')) = <<>>
      BY <1>2, NoPartial
    <3>2. out' \o <<>> = out'
      BY <2>3
    <3>. QED BY <3>1, <3>2
  <2>5. out' \o Rest(arg, todo') = WholeText(arg)
    BY <1>2, <2>3 DEF r
  <2>. QED BY <2>3, <2>4, <2>5 DEF IntSays
<1>. QED BY <1>3, <1>4, <1>5, <1>6 DEF IntTextInv

LEMMA LoopEnters ==
  ASSUME IntInv, todo # <<>>, NEW loop \in Loops, PrintInt!Enter(loop), arg' = arg,
         Len(todo) <= 5, IntAlone, loop = "bits" => Len(TextGroups(arg)) = 1,
         Piece(arg, Head(todo)) = PrintInt!Grouped(arg),
         NEW before \in Seq(Int), before \o Rest(arg, todo) = WholeText(arg),
         out' = before \o Partial(arg, loop, dig')
  PROVE  /\ Len(todo') <= 5 /\ IntAlone' /\ IntSays'
         /\ \A name : PrintInt!Call(name)' <=> name = loop
<1>1. IntControl /\ arg \in Args /\ todo \in Seq(Calls \cup Loops) /\ todo' = <<loop>> \o Tail(todo)
  BY DEF IntInv, IntControl, PrintInt!Enter
<1>2. /\ todo' \in Seq(Calls \cup Loops) /\ Len(todo) \in Nat /\ Len(todo') = Len(todo)
      /\ todo' # <<>> /\ Head(todo') = loop /\ todo'[1] = loop
  BY <1>1
<1>3. \A i \in 2 .. Len(todo') : todo'[i] = todo[i]
  BY <1>1, <1>2
<1>4. Piece(arg, loop) = PrintInt!Grouped(arg)
  BY DEF Piece, Loops
<1>5. Rest(arg, todo') = Rest(arg, todo)
  BY <1>1, <1>4, RestOfEntered
<1>6. IntSays'
  BY <1>2, <1>5 DEF IntSays
<1>7. IntAlone'
  <2>1. ASSUME NEW i \in 1 .. Len(todo'), todo'[i] \in {"direct", "digits", "bits"}
        PROVE  Len(TextGroups(arg)) = 1
    <3>1. CASE i = 1
      BY <1>2, <2>1, <3>1 DEF Loops
    <3>2. CASE i # 1
      <4>1. i \in 2 .. Len(todo') /\ i \in 1 .. Len(todo)
        BY <1>2, <3>2
      <4>. QED BY <1>3, <2>1, <4>1 DEF IntAlone
    <3>. QED BY <3>1, <3>2
  <2>. QED BY <2>1 DEF IntAlone
<1>8. \A name : PrintInt!Call(name)' <=> name = loop
  BY <1>2 DEF PrintInt!Call
<1>. QED BY <1>2, <1>6, <1>7, <1>8

(* What the text is when no loop runs.                                     *)
LEMMA AtACall ==
  ASSUME IntInv, IntTextInv, PrintInt!DigCount(arg) = arg.digits, todo # <<>>, Head(todo) \notin Loops
  PROVE  /\ Len(todo) <= 5 /\ IntAlone
         /\ out \in Seq(Int) /\ out \o Rest(arg, todo) = WholeText(arg)
<1>1. Len(todo) <= 5 /\ IntAlone /\ IntSays
  BY DEF IntTextInv
<1>2. PICK before \in Seq(Int) :
        out = before \o Partial(arg, Head(todo), dig) /\ before \o Rest(arg, todo) = WholeText(arg)
  BY <1>1 DEF IntSays
<1>3. Partial(arg, Head(todo), dig) = <<>>
  BY NoPartial
<1>4. out = before
  BY <1>2, <1>3
<1>. QED BY <1>1, <1>2, <1>4

LEMMA InALoop ==
  ASSUME IntInv, IntTextInv, PrintInt!DigCount(arg) = arg.digits,
         NEW loop \in Loops, PrintInt!Call(loop)
  PROVE  /\ todo # <<>> /\ Len(todo) <= 5 /\ IntAlone /\ IntPlace
         /\ Piece(arg, Head(todo)) = PrintInt!Grouped(arg) /\ Head(todo) = loop
         /\ \E before \in Seq(Int) :
              out = before \o Partial(arg, loop, dig) /\ before \o Rest(arg, todo) = WholeText(arg)
<1>1. Len(todo) <= 5 /\ IntAlone /\ IntPlace /\ IntSays /\ todo # <<>> /\ Head(todo) = loop
  BY DEF IntTextInv, PrintInt!Call
<1>2. Piece(arg, Head(todo)) = PrintInt!Grouped(arg)
  BY <1>1 DEF Piece, Loops
<1>. QED BY <1>1, <1>2 DEF IntSays

-----------------------------------------------------------------------------
(* What is put at once.                                                    *)
TextState == IntInv /\ IntTextInv /\ PrintInt!DigCount(arg) = arg.digits

LEMMA CallWrites ==
  ASSUME TextState, NEW name, name \notin Loops, PrintInt!Call(name),
         PrintInt!Return, arg' = arg, out' = out \o Piece(arg, name)
  PROVE  IntTextInv'
<1>1. todo # <<>> /\ Head(todo) = name
  BY DEF PrintInt!Call
<1>2. /\ Len(todo) <= 5 /\ IntAlone
      /\ out \in Seq(Int) /\ out \o Rest(arg, todo) = WholeText(arg)
  BY <1>1, AtACall DEF TextState
<1>. QED BY <1>1, <1>2, CallReturned DEF TextState

LEMMA FillSays == ASSUME TextState, PrintInt!Fill PROVE IntTextInv'
<1>. DEFINE n == PrintInt!FillCount(arg)
<1>1. ASSUME NEW name \in {"fill", "fill_half", "fill_rest"}, PrintInt!Call(name),
             NEW k, PrintInt!PutFill(k, PrintInt!FillChar), Piece(arg, name) = PrintInt!Filled(k)
      PROVE  IntTextInv'
  <2>1. out' = out \o Piece(arg, name) /\ PrintInt!Return /\ arg' = arg
    BY <1>1 DEF PrintInt!PutFill, PrintInt!Filled
  <2>2. name \notin Loops
    BY DEF Loops
  <2>. QED BY <1>1, <2>1, <2>2, CallWrites
<1>2. /\ Piece(arg, "fill") = PrintInt!Filled(n)
      /\ Piece(arg, "fill_half") = PrintInt!Filled(n \div 2)
      /\ Piece(arg, "fill_rest") = PrintInt!Filled(n - n \div 2)
  BY DEF Piece
<1>. QED BY <1>1, <1>2 DEF PrintInt!Fill

LEMMA ZerosSays == ASSUME TextState, PrintInt!Zeros PROVE IntTextInv'
<1>1. PrintInt!Call("zeros") /\ PrintInt!PutFill(Padding(arg), PrintInt!Zero)
  BY DEF PrintInt!Zeros, Padding, TextState
<1>2. out' = out \o Piece(arg, "zeros") /\ PrintInt!Return /\ arg' = arg
  BY <1>1 DEF PrintInt!PutFill, Piece
<1>. QED BY <1>1, <1>2, CallWrites DEF Loops

LEMMA PrefixedSays == ASSUME TextState, PrintInt!Prefixed PROVE IntTextInv'
<1>1. PrintInt!Call("prefixed") /\ PrintInt!Return /\ arg' = arg /\ out' = out \o PrintInt!Sign(arg)
  BY DEF PrintInt!Prefixed, PrintInt!Put, PrintInt!Sign
<1>2. Piece(arg, "prefixed") = PrintInt!Sign(arg)
  BY DEF Piece
<1>. QED BY <1>1, <1>2, CallWrites DEF Loops

LEMMA ComplementSays == ASSUME TextState, PrintInt!Complement PROVE IntTextInv'
<1>1. PrintInt!Call("complement") /\ PrintInt!Return /\ arg' = arg
  BY DEF PrintInt!Complement
<1>2. Piece(arg, "complement") = PrintInt!Sign(arg)
  BY DEF Piece
<1>3. out' = out \o PrintInt!Sign(arg)
  <2>1. CASE arg.prefix = 0
    <3>1. out' = out /\ PrintInt!Sign(arg) = <<>>
      BY <2>1, NoTimes DEF PrintInt!Complement, PrintInt!Sign
    <3>2. out \in Seq(Int)
      BY <1>1, AtACall DEF TextState, PrintInt!Call, Loops
    <3>. QED BY <3>1, <3>2
  <2>2. CASE arg.prefix # 0
    BY <2>2 DEF PrintInt!Complement, PrintInt!Put, PrintInt!Sign
  <2>. QED BY <2>1, <2>2
<1>. QED BY <1>1, <1>2, <1>3, CallWrites DEF Loops

-----------------------------------------------------------------------------
(* The digits without separators.                                          *)
LEMMA AloneText ==
  ASSUME NEW a \in Args, Len(TextGroups(a)) = 1
  PROVE  /\ PrintInt!Grouped(a) = PrintInt!Digits(1, a.digits)
         /\ \A k \in 1 .. a.digits :
              /\ Partial(a, "bits", k) = FirstDigits(a)[k - 1]
              /\ FirstDigits(a)[k] = FirstDigits(a)[k - 1] \o <<k>>
         /\ FirstDigits(a)[0] = <<>>
         /\ \A k \in 0 .. a.digits : FirstDigits(a)[k] \in Seq(Int)
<1>1. ArgGrid(a) /\ PrintInt!Grouped(a) = FirstDigits(a)[a.digits]
  BY TheGrid
<1>2. Grid(TextGroups(a), LeftOf(a), FirstDigits(a), a.digits)
  BY <1>1 DEF ArgGrid
<1>3. /\ \A k \in 1 .. a.digits : FirstDigits(a)[k] = FirstDigits(a)[k - 1] \o <<k>>
      /\ \A k \in 1 .. a.digits :
           Ahead(FirstDigits(a), Gaps(TextGroups(a), LeftOf(a)), k) = FirstDigits(a)[k - 1]
      /\ FirstDigits(a)[a.digits] = PrintInt!Digits(1, a.digits)
  BY <1>2, OneGroup
<1>4. \A k \in 1 .. a.digits : Partial(a, "bits", k) = FirstDigits(a)[k - 1]
  BY <1>3 DEF Partial
<1>5. FirstDigits(a)[0] = <<>> /\ \A k \in 0 .. a.digits : FirstDigits(a)[k] \in Seq(Int)
  BY <1>2 DEF Grid, Laid
<1>. QED BY <1>1, <1>3, <1>4, <1>5

LEMMA DirectSays == ASSUME TextState, PrintInt!Direct PROVE IntTextInv'
<1>1. /\ PrintInt!Call("direct") /\ PrintInt!Return /\ arg' = arg
      /\ out' = out \o (PrintInt!Sign(arg) \o PrintInt!Digits(1, arg.digits))
  BY DEF PrintInt!Direct, PrintInt!Put, PrintInt!Sign
<1>2. Len(TextGroups(arg)) = 1
  <2>1. todo # <<>> /\ Head(todo) = "direct" /\ todo \in Seq(Calls \cup Loops)
    BY <1>1 DEF PrintInt!Call, TextState, IntInv, IntControl
  <2>2. 1 \in 1 .. Len(todo) /\ todo[1] = "direct"
    BY <2>1
  <2>. QED BY <2>2 DEF TextState, IntTextInv, IntAlone
<1>3. PrintInt!Grouped(arg) = PrintInt!Digits(1, arg.digits)
  BY <1>2, AloneText DEF TextState, IntInv
<1>4. out' = out \o Piece(arg, "direct")
  BY <1>1, <1>3 DEF Piece
<1>. QED BY <1>1, <1>4, CallWrites DEF Loops

LEMMA UngroupedSays ==
  ASSUME TextState, NEW name \in {"digits", "grouped"}, PrintInt!Ungrouped(name),
         Len(TextGroups(arg)) = 1
  PROVE  IntTextInv'
<1>1. PrintInt!Call(name) /\ arg' = arg /\ name \notin Loops /\ todo # <<>> /\ Head(todo) = name
  BY DEF PrintInt!Ungrouped, Loops, PrintInt!Call
<1>2. Piece(arg, name) = PrintInt!Grouped(arg)
  BY DEF Piece
<1>3. /\ Len(todo) <= 5 /\ IntAlone
      /\ out \in Seq(Int) /\ out \o Rest(arg, todo) = WholeText(arg)
  BY <1>1, AtACall DEF TextState
<1>4. /\ PrintInt!Grouped(arg) = PrintInt!Digits(1, arg.digits)
      /\ \A k \in 1 .. arg.digits : Partial(arg, "bits", k) = FirstDigits(arg)[k - 1]
      /\ FirstDigits(arg)[0] = <<>> /\ 1 \in 1 .. arg.digits
  <2>1. arg \in Args
    BY DEF TextState, IntInv
  <2>2. 1 \in 1 .. arg.digits
    BY <2>1, ArgFacts
  <2>. QED BY <2>1, <2>2, AloneText
<1>5. CASE PrintInt!Backwards /\ PrintInt!Return
  <2>1. out' = SubSeq(out, 1, Len(out) - 0) \o PrintInt!Digits(1, arg.digits)
    <3>1. arg.digits - PrintInt!DigCount(arg) = 0
      BY ArgFacts DEF TextState, IntInv
    <3>. QED BY <1>5, <3>1 DEF PrintInt!Backwards
  <2>2. SubSeq(out, 1, Len(out) - 0) = out
    BY <1>3
  <2>. QED BY <1>1, <1>2, <1>4, <1>5, <2>1, <2>2, CallWrites
<1>6. CASE PrintInt!PutBit /\ PrintInt!Return /\ arg.digits = 1
  <2>1. out' = out \o PrintInt!Digits(1, 1)
    BY <1>6 DEF PrintInt!PutBit, PrintInt!Put
  <2>. QED BY <1>1, <1>2, <1>4, <1>6, <2>1, CallWrites
<1>7. CASE PrintInt!Enter("bits") /\ out' = out /\ dig' = 1
  <2>1. Partial(arg, "bits", 1) = <<>>
    <3>1. Partial(arg, "bits", 1) = FirstDigits(arg)[1 - 1]
      BY <1>4
    <3>2. 1 - 1 = 0
      OBVIOUS
    <3>. QED BY <1>4, <3>1, <3>2
  <2>2. out' = out \o Partial(arg, "bits", dig')
    BY <1>3, <1>7, <2>1
  <2>3. /\ Len(todo') <= 5 /\ IntAlone' /\ IntSays'
        /\ \A call : PrintInt!Call(call)' <=> call = "bits"
    <3>1. "bits" \in Loops
      BY DEF Loops
    <3>. QED BY <1>1, <1>2, <1>3, <1>7, <2>2, <3>1, LoopEnters DEF TextState
  <2>4. IntPlace'
    BY <1>1, <1>4, <1>7, <2>3 DEF IntPlace
  <2>. QED BY <2>3, <2>4 DEF IntTextInv
<1>. QED BY <1>5, <1>6, <1>7 DEF PrintInt!Ungrouped

LEMMA WriteDigitsOnlySays == ASSUME TextState, PrintInt!WriteDigitsOnly PROVE IntTextInv'
<1>1. PrintInt!Ungrouped("digits") /\ PrintInt!Call("digits")
  BY DEF PrintInt!WriteDigitsOnly, PrintInt!Ungrouped
<1>2. Len(TextGroups(arg)) = 1
  <2>1. todo # <<>> /\ Head(todo) = "digits" /\ todo \in Seq(Calls \cup Loops)
    BY <1>1 DEF PrintInt!Call, TextState, IntInv, IntControl
  <2>2. 1 \in 1 .. Len(todo) /\ todo[1] = "digits"
    BY <2>1
  <2>. QED BY <2>2 DEF TextState, IntTextInv, IntAlone
<1>. QED BY <1>1, <1>2, UngroupedSays

LEMMA BitSays == ASSUME TextState, PrintInt!Bit PROVE IntTextInv'
<1>1. /\ PrintInt!Call("bits") /\ arg' = arg /\ dig' = dig + 1 /\ out' = out \o <<dig>>
      /\ "bits" \in Loops
  BY DEF PrintInt!Bit, PrintInt!Put, Loops
<1>2. /\ todo # <<>> /\ Len(todo) <= 5 /\ IntAlone /\ IntPlace
      /\ Piece(arg, Head(todo)) = PrintInt!Grouped(arg) /\ Head(todo) = "bits"
      /\ \E before \in Seq(Int) :
           out = before \o Partial(arg, "bits", dig) /\ before \o Rest(arg, todo) = WholeText(arg)
  BY <1>1, InALoop DEF TextState
<1>3. PICK before \in Seq(Int) :
        out = before \o Partial(arg, "bits", dig) /\ before \o Rest(arg, todo) = WholeText(arg)
  BY <1>2
<1>4. Len(TextGroups(arg)) = 1
  <2>1. todo \in Seq(Calls \cup Loops)
    BY DEF TextState, IntInv, IntControl
  <2>2. 1 \in 1 .. Len(todo) /\ todo[1] = "bits"
    BY <1>2, <2>1
  <2>. QED BY <1>2, <2>2 DEF IntAlone
<1>5. dig \in 1 .. arg.digits /\ arg.digits \in Nat /\ arg \in Args
  BY <1>1, <1>2, ArgFacts DEF IntPlace, TextState, IntInv
<1>6. /\ \A k \in 1 .. arg.digits :
           /\ Partial(arg, "bits", k) = FirstDigits(arg)[k - 1]
           /\ FirstDigits(arg)[k] = FirstDigits(arg)[k - 1] \o <<k>>
      /\ \A k \in 0 .. arg.digits : FirstDigits(arg)[k] \in Seq(Int)
  BY <1>4, <1>5, AloneText
<1>7. out' = before \o FirstDigits(arg)[dig]
  <2>1. dig - 1 \in 0 .. arg.digits
    BY <1>5
  <2>2. FirstDigits(arg)[dig - 1] \in Seq(Int) /\ <<dig>> \in Seq(Int)
    BY <1>5, <1>6, <2>1
  <2>3. out = before \o FirstDigits(arg)[dig - 1]
    BY <1>3, <1>5, <1>6
  <2>4. (before \o FirstDigits(arg)[dig - 1]) \o <<dig>> = before \o (FirstDigits(arg)[dig - 1] \o <<dig>>)
    <3>. DEFINE r == FirstDigits(arg)[dig - 1]  s == <<dig>>
    <3>. HIDE DEF r, s
    <3>1. r \in Seq(Int) /\ s \in Seq(Int)
      BY <2>2 DEF r, s
    <3>2. (before \o r) \o s = before \o (r \o s)
      BY <3>1, Regroup, Zenon
    <3>. QED BY <3>2 DEF r, s
  <2>5. FirstDigits(arg)[dig] = FirstDigits(arg)[dig - 1] \o <<dig>>
    BY <1>5, <1>6, Zenon
  <2>. QED BY <1>1, <2>3, <2>4, <2>5
<1>8. CASE dig = arg.digits
  <2>1. PrintInt!Return
    BY <1>8 DEF PrintInt!Bit
  <2>2. PrintInt!Grouped(arg) = FirstDigits(arg)[arg.digits]
    BY <1>5, TheGrid
  <2>3. out' = before \o Piece(arg, Head(todo))
    BY <1>2, <1>7, <1>8, <2>2
  <2>. QED BY <1>1, <1>2, <1>3, <2>1, <2>3, CallReturned DEF TextState
<1>9. CASE dig # arg.digits
  <2>1. todo' = todo
    BY <1>9 DEF PrintInt!Bit
  <2>2. dig' \in 1 .. arg.digits /\ dig' - 1 = dig
    BY <1>1, <1>5, <1>9
  <2>3. out' = before \o Partial(arg, "bits", dig')
    BY <1>6, <1>7, <2>2
  <2>4. IntSays'
    BY <1>1, <1>2, <1>3, <2>1, <2>3 DEF IntSays
  <2>5. IntAlone'
    BY <1>1, <1>2, <2>1 DEF IntAlone
  <2>6. IntPlace'
    BY <1>1, <1>2, <2>1, <2>2 DEF IntPlace, PrintInt!Call
  <2>. QED BY <1>2, <2>1, <2>4, <2>5, <2>6 DEF IntTextInv
<1>. QED BY <1>8, <1>9

-----------------------------------------------------------------------------
(* The digits with separators.  The digits in front of each place, and what*)
(* is known of each group.                                                 *)
SepsOf(a) == Gaps(TextGroups(a), LeftOf(a))

LEMMA PlaceFacts ==
  ASSUME NEW a \in Args
  PROVE  LET F == FirstDigits(a)  G == SepsOf(a)  n == a.digits IN
         /\ n \in Nat /\ n # 0 /\ F[0] = <<>> /\ F[n] = PrintInt!Grouped(a)
         /\ \A k \in 0 .. n : F[k] \in Seq(Int)
         /\ \A k \in 1 .. n : F[k] = Ahead(F, G, k) \o <<k>> /\ Ahead(F, G, k) \in Seq(Int)
         /\ \A k \in 1 .. n : k \in G => Ahead(F, G, k) = F[k - 1] \o <<PrintInt!Separator>>
         /\ \A k \in 1 .. n : k \notin G => Ahead(F, G, k) = F[k - 1] /\ Ahead(F, G, k) = F[k - 1] \o <<>>
<1>. DEFINE F == FirstDigits(a)  G == SepsOf(a)  n == a.digits
<1>1. n \in Nat /\ n # 0 /\ F[n] = PrintInt!Grouped(a)
  BY TheGrid, ArgFacts
<1>2. Laid(F, G, n)
  BY TheGrid DEF ArgGrid, Grid, SepsOf
<1>. HIDE DEF F, G, n
<1>3. ASSUME NEW k \in 1 .. n
      PROVE  /\ F[k] = Ahead(F, G, k) \o <<k>> /\ Ahead(F, G, k) \in Seq(Int)
             /\ k \in G => Ahead(F, G, k) = F[k - 1] \o <<PrintInt!Separator>>
             /\ k \notin G => Ahead(F, G, k) = F[k - 1] /\ Ahead(F, G, k) = F[k - 1] \o <<>>
  <2>1. k - 1 \in 0 .. n
    BY <1>1
  <2>2. F[k - 1] \in Seq(Int) /\ F[k] = Ahead(F, G, k) \o <<k>>
    BY <1>2, <2>1 DEF Laid
  <2>. DEFINE r == F[k - 1]
  <2>3. /\ k \in G => Ahead(F, G, k) = r \o <<PrintInt!Separator>>
        /\ k \notin G => Ahead(F, G, k) = r \o <<>>
    BY DEF Ahead
  <2>. HIDE DEF r
  <2>4. r \in Seq(Int)
    BY <2>2 DEF r
  <2>5. r \o <<>> = r /\ r \o <<PrintInt!Separator>> \in Seq(Int)
    <3>1. <<PrintInt!Separator>> \in Seq(Int)
      BY DEF PrintInt!Separator
    <3>. QED BY <2>4, <3>1
  <2>. QED BY <2>2, <2>3, <2>4, <2>5 DEF r
<1>4. F[0] = <<>> /\ \A k \in 0 .. n : F[k] \in Seq(Int)
  BY <1>2 DEF Laid
<1>. QED BY <1>1, <1>3, <1>4 DEF F, G, n

GroupAt(a, i) ==
  LET s == TextGroups(a)  left == LeftOf(a)  F == FirstDigits(a)  n == a.digits  G == SepsOf(a) IN
  /\ s[i] \in Nat /\ s[i] # 0 /\ left[i] \in Nat /\ left[i + 1] \in Nat
  /\ left[i] = s[i] + left[i + 1] /\ left[i] <= n
  /\ left[i + 1] + 1 \in 1 .. n
  /\ i = 1 => left[i] = n
  /\ i > 1 => left[i] < n
  /\ i = Len(s) => left[i + 1] = 0
  /\ \A k \in Nat : left[i + 1] < k /\ k <= left[i] =>
       (k \in G <=> k = left[i + 1] + 1 /\ i < Len(s))
  /\ F[left[i]] = Ahead(F, G, left[i + 1] + 1) \o PrintInt!Digits(left[i + 1] + 1, s[i])

LEMMA GroupFacts ==
  ASSUME NEW a \in Args
  PROVE  /\ \A i \in 1 .. Len(TextGroups(a)) : GroupAt(a, i)
         /\ Len(TextGroups(a)) \in Nat /\ Len(TextGroups(a)) >= 1
<1>. DEFINE s == TextGroups(a)  left == LeftOf(a)  F == FirstDigits(a)  n == a.digits  G == SepsOf(a)
<1>1. Grid(s, left, F, n) /\ G = Gaps(s, left)
  BY TheGrid DEF ArgGrid, SepsOf
<1>. HIDE DEF s, left, F, n, G
<1>2. Len(s) \in Nat /\ Len(s) >= 1 /\ n \in Nat /\ left[1] = n /\ left[Len(s) + 1] = 0
  BY <1>1, GridFacts
<1>3. ASSUME NEW i \in 1 .. Len(s) PROVE GroupAt(a, i)
  <2>1. s[i] \in Nat /\ s[i] # 0 /\ left[i] = s[i] + left[i + 1]
    BY <1>1, GridFacts
  <2>2. i \in 1 .. Len(s) + 1 /\ i + 1 \in 1 .. Len(s) + 1 /\ 1 \in 1 .. Len(s) + 1
    BY <1>2
  <2>3. left[i] \in Nat /\ left[i] <= n /\ left[i + 1] \in Nat
    BY <1>1, <2>2, GridFacts
  <2>4. i > 1 => left[i] < n
    <3>1. \A h, j \in 1 .. Len(s) + 1 : h <= j => left[j] + (j - h) <= left[h]
      BY <1>1, GridFacts
    <3>2. 1 <= i
      OBVIOUS
    <3>3. left[i] + (i - 1) <= left[1]
      BY <2>2, <3>1, <3>2
    <3>. QED BY <1>2, <2>3, <3>3
  <2>5. \A k \in Nat : left[i + 1] < k /\ k <= left[i] =>
          (k \in G <=> k = left[i + 1] + 1 /\ i < Len(s))
    BY <1>1, GapAt
  <2>6. F[left[i]] = Ahead(F, G, left[i + 1] + 1) \o PrintInt!Digits(left[i + 1] + 1, s[i])
    BY <1>1, GroupWritten
  <2>7. left[i + 1] + 1 \in 1 .. n
    BY <1>2, <2>1, <2>3
  <2>8. (i = 1 => left[i] = n) /\ (i = Len(s) => left[i + 1] = 0)
    BY <1>2
  <2>. QED BY <2>1, <2>3, <2>4, <2>5, <2>6, <2>7, <2>8 DEF GroupAt, s, left, F, n, G
<1>. QED BY <1>2, <1>3 DEF s

LEMMA SizesAreGroups ==
  ASSUME TextState, arg.sep # 0
  PROVE  PrintInt!Sizes = TextGroups(arg)
BY DEF TextState, PrintInt!Sizes, TextGroups

LEMMA LoopStarts ==
  ASSUME TextState, PrintInt!Call("grouped"), arg.sep # 0, arg' = arg,
         NEW loop \in {"big_sep", "bits_little_sep", "bits_big_sep"}, PrintInt!EnterLoop(loop)
  PROVE  IntTextInv'
<1>. DEFINE s == TextGroups(arg)  left == LeftOf(arg)  m == Len(s)
<1>1. /\ PrintInt!Enter(loop) /\ dig' = 1 /\ groups' = PrintInt!Reverse(s) /\ out' = out
      /\ todo # <<>> /\ Head(todo) = "grouped"
  BY SizesAreGroups DEF PrintInt!EnterLoop, PrintInt!Call
<1>2. /\ Len(todo) <= 5 /\ IntAlone
      /\ out \in Seq(Int) /\ out \o Rest(arg, todo) = WholeText(arg)
  BY <1>1, AtACall DEF TextState, Loops
<1>3. arg \in Args /\ s \in Seq(Nat) /\ m \in Nat /\ m >= 1
  <2>1. arg \in Args
    BY DEF TextState, IntInv
  <2>. QED BY <2>1, GroupFacts, TextGroupsShape
<1>4. m \in 1 .. m /\ GroupAt(arg, m)
  BY <1>3, GroupFacts
<1>5. /\ s[m] \in Nat /\ s[m] # 0 /\ left[m] = s[m] + left[m + 1] /\ left[m + 1] = 0
      /\ 1 \in 1 .. arg.digits /\ 1 \notin SepsOf(arg)
  <2>1. /\ s[m] \in Nat /\ s[m] # 0 /\ left[m] = s[m] + left[m + 1] /\ left[m + 1] = 0
        /\ left[m + 1] + 1 \in 1 .. arg.digits
        /\ \A k \in Nat : left[m + 1] < k /\ k <= left[m] =>
             (k \in SepsOf(arg) <=> k = left[m + 1] + 1 /\ m < Len(s))
    BY <1>4 DEF GroupAt
  <2>2. 1 \in SepsOf(arg) <=> 1 = left[m + 1] + 1 /\ m < Len(s)
    <3>1. 1 \in Nat /\ left[m + 1] < 1 /\ 1 <= left[m]
      BY <2>1
    <3>. QED BY <2>1, <3>1
  <2>. QED BY <1>3, <2>1, <2>2
<1>6. groups' \in Seq(Nat) /\ Len(groups') = m /\ \A j \in 1 .. m : groups'[j] = s[m + 1 - j]
  <2>1. PrintInt!Reverse(s) = [j \in 1 .. Len(s) |-> s[(Len(s) - j) + 1]]
    BY DEF PrintInt!Reverse
  <2>2. PrintInt!Reverse(s) \in Seq(Nat) /\ Len(PrintInt!Reverse(s)) = Len(s)
    BY <1>3, Reversed
  <2>3. ASSUME NEW j \in 1 .. m PROVE groups'[j] = s[m + 1 - j]
    <3>1. (m - j) + 1 = m + 1 - j
      BY <1>3
    <3>. QED BY <1>1, <2>1, <3>1
  <2>. QED BY <1>1, <2>2, <2>3
<1>. HIDE DEF s, left, m
<1>7. Partial(arg, loop, 1) = <<>>
  <2>1. Partial(arg, loop, 1) = Ahead(FirstDigits(arg), SepsOf(arg), 1)
    BY DEF Partial, SepsOf
  <2>2. Ahead(FirstDigits(arg), SepsOf(arg), 1) = FirstDigits(arg)[1 - 1]
    BY <1>3, <1>5, PlaceFacts
  <2>3. FirstDigits(arg)[0] = <<>> /\ 1 - 1 = 0
    BY <1>3, PlaceFacts
  <2>. QED BY <2>1, <2>2, <2>3
<1>8. /\ Len(todo') <= 5 /\ IntAlone' /\ IntSays'
      /\ \A name : PrintInt!Call(name)' <=> name = loop
  <2>1. loop \in Loops /\ loop # "bits"
    BY DEF Loops
  <2>2. Piece(arg, Head(todo)) = PrintInt!Grouped(arg)
    BY <1>1 DEF Piece
  <2>3. out' = out \o Partial(arg, loop, dig')
    BY <1>1, <1>2, <1>7
  <2>. QED BY <1>1, <1>2, <2>1, <2>2, <2>3, LoopEnters DEF TextState
<1>9. IntPlace'
  <2>1. groups'[1] = s[m] /\ dig' = left[m + 1] + 1
    BY <1>1, <1>3, <1>5, <1>6
  <2>2. Remaining(groups', s, m)
    <3>1. m \in 1 .. Len(s) /\ \A j \in 2 .. m : groups'[j] = s[m + 1 - j]
      BY <1>3, <1>6 DEF m
    <3>. QED BY <1>6, <3>1 DEF Remaining
  <2>3. groups'[1] \in 1 .. s[m] /\ dig' \in Nat /\ dig' + groups'[1] = left[m] + 1
    BY <1>1, <1>5, <2>1
  <2>. QED BY <1>1, <1>6, <1>8, <2>1, <2>2, <2>3 DEF IntPlace, s, left, m
<1>. QED BY <1>8, <1>9 DEF IntTextInv

LEMMA WriteGroupedSays == ASSUME TextState, PrintInt!WriteGrouped PROVE IntTextInv'
<1>0. arg \in Args
  BY DEF TextState, IntInv
<1>1. CASE arg.sep = 0 /\ PrintInt!Ungrouped("grouped")
  <2>1. Len(TextGroups(arg)) = 1
    BY <1>0, <1>1, CountedGroups DEF TextState
  <2>. QED BY <1>1, <2>1, UngroupedSays
<1>2. CASE /\ PrintInt!Call("grouped") /\ arg.sep # 0 /\ arg' = arg
           /\ PrintInt!LittleSep /\ PrintInt!Return
  <2>1. /\ Grid(TextGroups(arg), LeftOf(arg), FirstDigits(arg), arg.digits)
        /\ PrintInt!Grouped(arg) = FirstDigits(arg)[arg.digits] /\ arg.digits # 0
    BY <1>0, TheGrid DEF ArgGrid
  <2>2. /\ PrintInt!PairsBackwards(PrintInt!Sizes, arg.digits) = PrintInt!Grouped(arg)
        /\ PrintInt!OnesBackwards(PrintInt!Sizes, arg.digits) = PrintInt!Grouped(arg)
    BY <1>2, <2>1, SizesAreGroups, PairsRight, OnesRight
  <2>3. out' = out \o PrintInt!Grouped(arg)
    BY <1>2, <2>2 DEF PrintInt!LittleSep, PrintInt!Put
  <2>4. out' = out \o Piece(arg, "grouped")
    BY <2>3 DEF Piece
  <2>. QED BY <1>2, <2>4, CallWrites DEF Loops
<1>3. CASE /\ PrintInt!Call("grouped") /\ arg.sep # 0 /\ arg' = arg
           /\ \E loop \in {"big_sep", "bits_little_sep", "bits_big_sep"} : PrintInt!EnterLoop(loop)
  BY <1>3, LoopStarts
<1>. QED BY <1>1, <1>2, <1>3 DEF PrintInt!WriteGrouped

-----------------------------------------------------------------------------
(* The loop of write_digits_big_sep.                                       *)
LEMMA OneRemains ==
  ASSUME NEW s \in Seq(Nat), NEW m, NEW sizes, Remaining(sizes, s, m)
  PROVE  /\ m \in Nat /\ m >= 1 /\ m \in 1 .. Len(s)
         /\ m = 1 => Tail(sizes) = <<>>
         /\ m # 1 => Tail(sizes) # <<>>
<1>1. sizes \in Seq(Nat) /\ Len(sizes) = m /\ m \in 1 .. Len(s) /\ Len(s) \in Nat
  BY DEF Remaining
<1>. DEFINE t == Tail(sizes)
<1>2. t \in Seq(Nat) /\ Len(t) = m - 1
  BY <1>1
<1>. HIDE DEF t
<1>3. t = <<>> <=> Len(t) = 0
  BY <1>2, EmptySeq
<1>4. (m = 1 => t = <<>>) /\ (m # 1 => t # <<>>)
  BY <1>1, <1>2, <1>3
<1>. QED BY <1>1, <1>4 DEF t

LEMMA FewerRemain ==
  ASSUME NEW s \in Seq(Nat), NEW m, NEW sizes, Remaining(sizes, s, m), m # 1
  PROVE  /\ Remaining(Tail(sizes), s, m - 1) /\ Len(Tail(sizes)) = m - 1
         /\ m - 1 \in 1 .. Len(s) /\ Tail(sizes)[1] = s[m - 1]
<1>. DEFINE t == Tail(sizes)
<1>1. /\ m \in 1 .. Len(s) /\ sizes \in Seq(Nat) /\ Len(sizes) = m /\ Len(s) \in Nat
      /\ \A j \in 2 .. m : sizes[j] = s[m + 1 - j]
  BY DEF Remaining
<1>2. /\ t \in Seq(Nat) /\ Len(t) = m - 1
      /\ \A j \in 1 .. m - 1 : t[j] = sizes[j + 1]
  <2>1. sizes # <<>>
    BY <1>1
  <2>. QED BY <1>1, <2>1
<1>. HIDE DEF t
<1>3. ASSUME NEW j \in 1 .. m - 1 PROVE t[j] = s[(m - 1) + 1 - j]
  <2>1. j + 1 \in 2 .. m /\ m + 1 - (j + 1) = (m - 1) + 1 - j
    BY <1>1
  <2>. QED BY <1>1, <1>2, <2>1
<1>4. m - 1 \in 1 .. Len(s) /\ 1 \in 1 .. m - 1 /\ (m - 1) + 1 - 1 = m - 1
  BY <1>1
<1>5. t[1] = s[m - 1]
  BY <1>3, <1>4
<1>6. Remaining(t, s, m - 1)
  <2>1. \A j \in 2 .. m - 1 : t[j] = s[(m - 1) + 1 - j]
    BY <1>1, <1>3
  <2>. QED BY <1>2, <1>4, <2>1 DEF Remaining
<1>. QED BY <1>2, <1>4, <1>5, <1>6 DEF t

LEMMA BigSepDigitSays == ASSUME TextState, PrintInt!BigSepDigit PROVE IntTextInv'
<1>. DEFINE s == TextGroups(arg)  left == LeftOf(arg)  m == Len(groups)  n == arg.digits
            F == FirstDigits(arg)
<1>1. /\ PrintInt!Call("big_sep") /\ "big_sep" \in Loops
      /\ arg' = arg /\ out' = out \o <<dig>> /\ dig' = dig + 1
      /\ groups' = [groups EXCEPT ![1] = @ - 1]
      /\ IF dig = arg.digits THEN PrintInt!Return ELSE PrintInt!Enter("big_sep_room")
  BY DEF PrintInt!BigSepDigit, PrintInt!Put, Loops
<1>2. /\ todo # <<>> /\ Len(todo) <= 5 /\ IntAlone /\ IntPlace
      /\ Piece(arg, Head(todo)) = PrintInt!Grouped(arg) /\ Head(todo) = "big_sep"
      /\ \E before \in Seq(Int) :
           out = before \o Partial(arg, "big_sep", dig) /\ before \o Rest(arg, todo) = WholeText(arg)
  BY <1>1, InALoop DEF TextState
<1>3. PICK before \in Seq(Int) :
        out = before \o Partial(arg, "big_sep", dig) /\ before \o Rest(arg, todo) = WholeText(arg)
  BY <1>2
<1>4. arg \in Args
  BY DEF TextState, IntInv
<1>5. Remaining(groups, s, m) /\ groups[1] \in 1 .. s[m] /\ dig \in Nat /\ dig + groups[1] = left[m] + 1
  BY <1>1, <1>2 DEF IntPlace
<1>6. m \in 1 .. Len(s) /\ groups \in Seq(Nat)
  BY <1>5 DEF Remaining
<1>7. /\ s[m] \in Nat /\ left[m] \in Nat /\ left[m] <= n /\ left[m] = s[m] + left[m + 1]
      /\ left[m + 1] \in Nat
  BY <1>4, <1>6, GroupFacts DEF GroupAt
<1>8. n \in Nat /\ dig \in 1 .. n
  <2>1. n \in Nat
    BY <1>4, ArgFacts
  <2>. HIDE DEF n, s, left, m
  <2>. QED BY <1>5, <1>7, <2>1
<1>9. out' = before \o F[dig]
  <2>. DEFINE r == Ahead(F, SepsOf(arg), dig)  t == <<dig>>
  <2>1. Partial(arg, "big_sep", dig) = r
    BY DEF Partial, SepsOf
  <2>2. F[dig] = r \o t /\ r \in Seq(Int)
    BY <1>4, <1>8, PlaceFacts
  <2>3. t \in Seq(Int)
    BY <1>8
  <2>. HIDE DEF r, t
  <2>4. (before \o r) \o t = before \o (r \o t)
    BY <2>2, <2>3, Regroup, Zenon
  <2>. QED BY <1>1, <1>3, <2>1, <2>2, <2>4 DEF t
<1>10. CASE dig = arg.digits
  <2>1. PrintInt!Return
    BY <1>1, <1>10
  <2>2. F[n] = PrintInt!Grouped(arg)
    BY <1>4, PlaceFacts
  <2>3. out' = before \o Piece(arg, Head(todo))
    BY <1>2, <1>9, <1>10, <2>2
  <2>. QED BY <1>1, <1>2, <1>3, <2>1, <2>3, CallReturned DEF TextState
<1>11. CASE dig # arg.digits
  <2>1. PrintInt!Enter("big_sep_room") /\ "big_sep_room" \in Loops
    BY <1>1, <1>11 DEF Loops
  <2>2. dig' - 1 = dig /\ dig' \in 1 .. n
    BY <1>1, <1>8, <1>11
  <2>3. out' = before \o Partial(arg, "big_sep_room", dig')
    BY <1>9, <2>2 DEF Partial
  <2>4. /\ Len(todo') <= 5 /\ IntAlone' /\ IntSays'
        /\ \A name : PrintInt!Call(name)' <=> name = "big_sep_room"
    BY <1>1, <1>2, <1>3, <2>1, <2>3, LoopEnters DEF TextState
  <2>5. groups' \in Seq(Nat) /\ Len(groups') = m /\ groups'[1] = groups[1] - 1
        /\ \A j \in 2 .. m : groups'[j] = groups[j]
    <3>1. 1 \in 1 .. Len(groups) /\ groups[1] - 1 \in Nat
      BY <1>5, <1>6, <1>7, SMTT(60)
    <3>. QED BY <1>1, <1>6, <3>1
  <2>6. Remaining(groups', s, m)
    BY <1>1, <1>5, <2>5 DEF Remaining
  <2>7. groups'[1] \in 0 .. s[m] - 1 /\ dig' + groups'[1] = left[m] + 1
    <3>. DEFINE g == groups[1]  h == groups'[1]  size == s[m]  l == left[m]
    <3>1. /\ g \in 1 .. size /\ dig \in Nat /\ dig + g = l + 1 /\ dig' = dig + 1
          /\ h = g - 1 /\ size \in Nat /\ l \in Nat
      BY <1>1, <1>5, <1>7, <2>5
    <3>2. h \in 0 .. size - 1 /\ dig' + h = l + 1
      <4>. HIDE DEF g, h, size, l
      <4>. QED BY <3>1
    <3>. QED BY <3>2
  <2>8. IntPlace'
    BY <1>1, <2>2, <2>4, <2>5, <2>6, <2>7, SMTT(60) DEF IntPlace
  <2>. QED BY <2>4, <2>8 DEF IntTextInv
<1>. QED BY <1>10, <1>11

LEMMA BigSepRoomSays == ASSUME TextState, PrintInt!BigSepRoom PROVE IntTextInv'
<1>. DEFINE s == TextGroups(arg)  left == LeftOf(arg)  m == Len(groups)  n == arg.digits
            F == FirstDigits(arg)  r == F[dig - 1]
<1>1. /\ PrintInt!Call("big_sep_room") /\ {"big_sep_room", "big_sep"} \subseteq Loops
      /\ arg' = arg /\ dig' = dig /\ PrintInt!Enter("big_sep")
      /\ groups[1] = 0 => out' = out \o <<PrintInt!Separator>> /\ groups' = Tail(groups)
      /\ groups[1] # 0 => out' = out \o <<>> /\ groups' = groups
  BY DEF PrintInt!BigSepRoom, PrintInt!Put, Loops
<1>2. /\ todo # <<>> /\ Len(todo) <= 5 /\ IntAlone /\ IntPlace
      /\ Piece(arg, Head(todo)) = PrintInt!Grouped(arg) /\ Head(todo) = "big_sep_room"
      /\ \E before \in Seq(Int) :
           out = before \o Partial(arg, "big_sep_room", dig)
           /\ before \o Rest(arg, todo) = WholeText(arg)
  BY <1>1, InALoop DEF TextState
<1>3. PICK before \in Seq(Int) :
        out = before \o Partial(arg, "big_sep_room", dig) /\ before \o Rest(arg, todo) = WholeText(arg)
  BY <1>2
<1>4. arg \in Args /\ n \in Nat
  BY ArgFacts DEF TextState, IntInv
<1>5. /\ Remaining(groups, s, m) /\ groups[1] \in 0 .. s[m] - 1 /\ dig + groups[1] = left[m] + 1
      /\ dig \in 1 .. n
  BY <1>1, <1>2 DEF IntPlace
<1>6. m \in 1 .. Len(s) /\ groups \in Seq(Nat) /\ s \in Seq(Nat)
  BY <1>4, <1>5, TextGroupsShape DEF Remaining
<1>7. GroupAt(arg, m) /\ m \in Nat
  BY <1>4, <1>6, GroupFacts
<1>8. /\ s[m] \in Nat /\ left[m] \in Nat /\ left[m] <= n /\ left[m] = s[m] + left[m + 1]
      /\ left[m + 1] \in Nat /\ (m = 1 => left[m] = n)
  BY <1>7 DEF GroupAt
<1>9. r \in Seq(Int) /\ out = before \o r
  <2>1. dig - 1 \in 0 .. n
    BY <1>4, <1>5
  <2>2. r \in Seq(Int)
    BY <1>4, <2>1, PlaceFacts
  <2>. QED BY <1>3, <2>2 DEF Partial
<1>10. ASSUME NEW t \in Seq(Int), Ahead(F, SepsOf(arg), dig) = r \o t, out' = out \o t
       PROVE  out' = before \o Partial(arg, "big_sep", dig')
  <2>1. Partial(arg, "big_sep", dig') = Ahead(F, SepsOf(arg), dig)
    BY <1>1 DEF Partial, SepsOf
  <2>. HIDE DEF r
  <2>2. (before \o r) \o t = before \o (r \o t)
    BY <1>9, Regroup, Zenon
  <2>. QED BY <1>9, <1>10, <2>1, <2>2
<1>11. ASSUME out' = before \o Partial(arg, "big_sep", dig')
       PROVE  /\ Len(todo') <= 5 /\ IntAlone' /\ IntSays'
              /\ \A name : PrintInt!Call(name)' <=> name = "big_sep"
  BY <1>1, <1>2, <1>3, <1>11, LoopEnters DEF TextState
<1>12. CASE groups[1] = 0
  <2>1. m # 1 /\ m > 1 /\ dig = left[m] + 1
    <3>. HIDE DEF s, left, m, n
    <3>1. dig = left[m] + 1
      BY <1>5, <1>8, <1>12
    <3>2. left[m] # n
      BY <1>4, <1>5, <1>8, <3>1
    <3>3. m # 1
      BY <1>8, <3>2
    <3>. QED BY <1>6, <1>7, <3>1, <3>3
  <2>2. groups' = Tail(groups) /\ out' = out \o <<PrintInt!Separator>>
    BY <1>1, <1>12
  <2>3. /\ Remaining(groups', s, m - 1) /\ Len(groups') = m - 1 /\ m - 1 \in 1 .. Len(s)
        /\ groups'[1] = s[m - 1]
    <3>. HIDE DEF s, m
    <3>1. /\ Remaining(Tail(groups), s, m - 1) /\ Len(Tail(groups)) = m - 1
          /\ m - 1 \in 1 .. Len(s) /\ Tail(groups)[1] = s[m - 1]
      BY <1>5, <1>6, <2>1, FewerRemain, ZenonT(60)
    <3>. QED BY <2>2, <3>1
  <2>4. /\ s[m - 1] \in Nat /\ s[m - 1] # 0 /\ left[m - 1] = s[m - 1] + left[m]
        /\ left[m - 1] \in Nat
        /\ \A k \in Nat : left[m] < k /\ k <= left[m - 1] =>
             (k \in SepsOf(arg) <=> k = left[m] + 1 /\ m - 1 < Len(s))
    <3>1. GroupAt(arg, m - 1)
      BY <1>4, <2>3, GroupFacts
    <3>2. (m - 1) + 1 = m
      BY <1>7
    <3>. QED BY <3>1, <3>2, ZenonT(60) DEF GroupAt
  <2>5. dig \in SepsOf(arg)
    <3>1. dig \in Nat /\ left[m] < dig /\ dig <= left[m - 1]
      <4>. DEFINE l == left[m]  u == left[m - 1]  size == s[m - 1]
      <4>1. l \in Nat /\ u \in Nat /\ size \in Nat /\ size # 0 /\ u = size + l /\ dig = l + 1
        BY <1>8, <2>1, <2>4
      <4>2. dig \in Nat /\ l < dig /\ dig <= u
        <5>. HIDE DEF l, u, size
        <5>. QED BY <4>1
      <4>. QED BY <4>2
    <3>2. m - 1 < Len(s)
      BY <1>6
    <3>. QED BY <2>1, <2>4, <3>1, <3>2
  <2>6. out' = before \o Partial(arg, "big_sep", dig')
    <3>1. Ahead(F, SepsOf(arg), dig) = r \o <<PrintInt!Separator>>
      BY <1>4, <1>5, <2>5, PlaceFacts
    <3>2. <<PrintInt!Separator>> \in Seq(Int)
      BY DEF PrintInt!Separator
    <3>. QED BY <1>10, <2>2, <3>1, <3>2
  <2>7. /\ Len(todo') <= 5 /\ IntAlone' /\ IntSays'
        /\ \A name : PrintInt!Call(name)' <=> name = "big_sep"
    BY <1>11, <2>6
  <2>8. groups'[1] \in 1 .. s[m - 1] /\ dig' \in Nat /\ dig' + groups'[1] = left[m - 1] + 1
    <3>. DEFINE h == groups'[1]  l == left[m]  u == left[m - 1]  size == s[m - 1]
    <3>1. /\ l \in Nat /\ size \in Nat /\ size # 0 /\ u = size + l
          /\ dig' = dig /\ dig = l + 1 /\ h = size
      BY <1>1, <1>8, <2>1, <2>3, <2>4
    <3>2. h \in 1 .. size /\ dig' \in Nat /\ dig' + h = u + 1
      <4>. HIDE DEF h, l, u, size
      <4>. QED BY <3>1
    <3>. QED BY <3>2
  <2>9. IntPlace'
    <3>1. Len(groups') = m - 1 /\ arg' = arg
      BY <1>1, <2>3
    <3>2. Remaining(groups', TextGroups(arg'), Len(groups'))
      BY <2>3, <3>1
    <3>3. /\ groups'[1] \in 1 .. TextGroups(arg')[Len(groups')] /\ dig' \in Nat
          /\ dig' + groups'[1] = LeftOf(arg')[Len(groups')] + 1
      BY <2>8, <3>1
    <3>. QED BY <2>7, <3>2, <3>3 DEF IntPlace
  <2>. QED BY <2>7, <2>9 DEF IntTextInv
<1>13. CASE groups[1] # 0
  <2>1. groups' = groups /\ out' = out \o <<>>
    BY <1>1, <1>13
  <2>2. /\ left[m + 1] + 1 < dig /\ dig <= left[m]
    <3>. HIDE DEF s, left, m, n
    <3>. QED BY <1>5, <1>8, <1>13, SMTT(60)
  <2>3. dig \notin SepsOf(arg)
    <3>1. \A k \in Nat : left[m + 1] < k /\ k <= left[m] =>
             (k \in SepsOf(arg) <=> k = left[m + 1] + 1 /\ m < Len(s))
      BY <1>7 DEF GroupAt
    <3>2. dig \in Nat /\ left[m + 1] < dig /\ dig # left[m + 1] + 1
      BY <1>5, <1>8, <2>2
    <3>. QED BY <2>2, <3>1, <3>2
  <2>4. out' = before \o Partial(arg, "big_sep", dig')
    <3>1. Ahead(F, SepsOf(arg), dig) = r \o <<>>
      BY <1>4, <1>5, <2>3, PlaceFacts
    <3>2. <<>> \in Seq(Int)
      OBVIOUS
    <3>. QED BY <1>10, <2>1, <3>1, <3>2
  <2>5. /\ Len(todo') <= 5 /\ IntAlone' /\ IntSays'
        /\ \A name : PrintInt!Call(name)' <=> name = "big_sep"
    BY <1>11, <2>4
  <2>6. groups[1] \in 1 .. s[m] /\ dig \in Nat
    <3>. HIDE DEF s, left, m, n
    <3>. QED BY <1>5, <1>8, <1>13
  <2>7. Remaining(groups', s, m)
    BY <1>1, <1>5, <2>1 DEF Remaining
  <2>8. IntPlace'
    BY <1>1, <1>5, <2>1, <2>5, <2>6, <2>7 DEF IntPlace
  <2>. QED BY <2>5, <2>8 DEF IntTextInv
<1>. QED BY <1>12, <1>13

-----------------------------------------------------------------------------
(* The loops of intdigits_writer<2>.                                       *)
LEMMA BitGroupSays == ASSUME TextState, PrintInt!BitGroup PROVE IntTextInv'
<1>. DEFINE s == TextGroups(arg)  left == LeftOf(arg)  m == Len(groups)  n == arg.digits
            F == FirstDigits(arg)
<1>1. PICK loop \in {"bits_little_sep", "bits_big_sep"} :
        /\ PrintInt!Call(loop) /\ loop \in Loops
        /\ arg' = arg /\ out' = out \o PrintInt!Digits(dig, Head(groups))
        /\ dig' = dig + Head(groups) /\ groups' = Tail(groups)
        /\ IF groups' = <<>> THEN PrintInt!Return
           ELSE \E next \in {"little_sep", "big_bit_sep"} : PrintInt!Enter(next)
  BY DEF PrintInt!BitGroup, PrintInt!Put, Loops
<1>2. /\ todo # <<>> /\ Len(todo) <= 5 /\ IntAlone /\ IntPlace
      /\ Piece(arg, Head(todo)) = PrintInt!Grouped(arg) /\ Head(todo) = loop
      /\ \E before \in Seq(Int) :
           out = before \o Partial(arg, loop, dig) /\ before \o Rest(arg, todo) = WholeText(arg)
  BY <1>1, InALoop DEF TextState
<1>3. PICK before \in Seq(Int) :
        out = before \o Partial(arg, loop, dig) /\ before \o Rest(arg, todo) = WholeText(arg)
  BY <1>2
<1>4. arg \in Args /\ n \in Nat
  BY ArgFacts DEF TextState, IntInv
<1>5. Remaining(groups, s, m) /\ groups[1] = s[m] /\ dig = left[m + 1] + 1
  BY <1>1, <1>2 DEF IntPlace
<1>6. m \in 1 .. Len(s) /\ groups \in Seq(Nat) /\ s \in Seq(Nat) /\ Head(groups) = s[m] /\ Len(s) \in Nat
  <2>1. m \in 1 .. Len(s) /\ groups \in Seq(Nat) /\ s \in Seq(Nat) /\ Len(s) \in Nat
    BY <1>4, <1>5, TextGroupsShape DEF Remaining
  <2>2. Head(groups) = groups[1]
    BY <2>1
  <2>. QED BY <1>5, <2>1, <2>2
<1>7. GroupAt(arg, m)
  BY <1>4, <1>6, GroupFacts
<1>8. /\ s[m] \in Nat /\ left[m] \in Nat /\ left[m] = s[m] + left[m + 1]
      /\ left[m + 1] \in Nat /\ (m = 1 => left[m] = n) /\ left[m + 1] + 1 \in 1 .. n
      /\ F[left[m]] = Ahead(F, SepsOf(arg), left[m + 1] + 1)
                      \o PrintInt!Digits(left[m + 1] + 1, s[m])
      /\ left[m] <= n
  BY <1>7 DEF GroupAt
<1>9. out' = before \o F[left[m]]
  <2>. DEFINE r == Ahead(F, SepsOf(arg), dig)  t == PrintInt!Digits(dig, s[m])
  <2>1. Partial(arg, loop, dig) = r
    BY DEF Partial, SepsOf
  <2>2. F[left[m]] = r \o t
    BY <1>5, <1>8
  <2>3. r \in Seq(Int)
    BY <1>4, <1>5, <1>8, PlaceFacts
  <2>4. t \in Seq(Int)
    <3>1. dig \in Nat /\ s[m] \in Nat
      BY <1>5, <1>8
    <3>. QED BY <3>1, DigitsSeq
  <2>5. out' = (before \o r) \o t
    BY <1>1, <1>3, <1>6, <2>1
  <2>. HIDE DEF r, t
  <2>6. (before \o r) \o t = before \o (r \o t)
    BY <2>3, <2>4, Regroup, Zenon
  <2>. QED BY <2>2, <2>5, <2>6
<1>10. dig' = left[m] + 1
  <2>. DEFINE size == s[m]  l == left[m]  r == left[m + 1]
  <2>1. dig = r + 1 /\ dig' = dig + size /\ l = size + r /\ size \in Nat /\ l \in Nat /\ r \in Nat
    BY <1>1, <1>5, <1>6, <1>8
  <2>2. dig' = l + 1
    <3>. HIDE DEF size, l, r
    <3>. QED BY <2>1
  <2>. QED BY <2>2
<1>11. CASE m = 1
  <2>1. groups' = <<>>
    BY <1>1, <1>5, <1>6, <1>11, OneRemains
  <2>2. PrintInt!Return
    BY <1>1, <2>1
  <2>3. F[n] = PrintInt!Grouped(arg)
    BY <1>4, PlaceFacts
  <2>4. out' = before \o Piece(arg, Head(todo))
    BY <1>2, <1>8, <1>9, <1>11, <2>3
  <2>. QED BY <1>1, <1>2, <1>3, <2>2, <2>4, CallReturned DEF TextState
<1>12. CASE m # 1
  <2>1. groups' # <<>>
    BY <1>1, <1>5, <1>6, <1>12, OneRemains
  <2>2. PICK next \in {"little_sep", "big_bit_sep"} : PrintInt!Enter(next)
    BY <1>1, <2>1
  <2>3. out' = before \o Partial(arg, next, dig')
    <3>1. Partial(arg, next, dig') = F[dig' - 1]
      BY DEF Partial
    <3>2. dig' - 1 = left[m]
      BY <1>8, <1>10
    <3>. QED BY <1>9, <3>1, <3>2
  <2>4. /\ Len(todo') <= 5 /\ IntAlone' /\ IntSays'
        /\ \A name : PrintInt!Call(name)' <=> name = next
    <3>1. next \in Loops /\ next # "bits"
      BY DEF Loops
    <3>. QED BY <1>1, <1>2, <1>3, <2>2, <2>3, <3>1, LoopEnters DEF TextState
  <2>5. /\ Remaining(groups', s, m - 1) /\ Len(groups') = m - 1
        /\ m - 1 \in 1 .. Len(s) /\ groups'[1] = s[m - 1]
    <3>. HIDE DEF s, m
    <3>1. /\ Remaining(Tail(groups), s, m - 1) /\ Len(Tail(groups)) = m - 1
          /\ m - 1 \in 1 .. Len(s) /\ Tail(groups)[1] = s[m - 1]
      BY <1>5, <1>6, <1>12, FewerRemain
    <3>. QED BY <1>1, <3>1
  <2>6. dig' = left[(m - 1) + 1] + 1 /\ m - 1 < Len(s)
    <3>1. (m - 1) + 1 = m /\ m - 1 < Len(s)
      BY <1>6
    <3>. QED BY <1>10, <3>1
  <2>7. IntPlace'
    <3>1. Len(groups') = m - 1 /\ arg' = arg
      BY <1>1, <2>5
    <3>2. Remaining(groups', TextGroups(arg'), Len(groups'))
      BY <2>5, <3>1
    <3>3. /\ groups'[1] = TextGroups(arg')[Len(groups')]
          /\ dig' = LeftOf(arg')[Len(groups') + 1] + 1
          /\ Len(groups') < Len(TextGroups(arg'))
      BY <2>5, <2>6, <3>1
    <3>. QED BY <2>4, <3>2, <3>3 DEF IntPlace
  <2>. QED BY <2>4, <2>7 DEF IntTextInv
<1>. QED BY <1>11, <1>12

LEMMA BitSepSays == ASSUME TextState, PrintInt!BitSep PROVE IntTextInv'
<1>. DEFINE s == TextGroups(arg)  left == LeftOf(arg)  m == Len(groups)  n == arg.digits
            F == FirstDigits(arg)  sep == <<PrintInt!Separator>>
<1>1. PICK loop \in {"little_sep", "big_bit_sep"} :
        /\ PrintInt!Call(loop) /\ loop \in Loops
        /\ arg' = arg /\ out' = out \o sep /\ dig' = dig /\ groups' = groups
        /\ \E next \in {"bits_little_sep", "bits_big_sep"} : PrintInt!Enter(next)
  BY DEF PrintInt!BitSep, PrintInt!Put, Loops
<1>2. PICK next \in {"bits_little_sep", "bits_big_sep"} : PrintInt!Enter(next)
  BY <1>1
<1>3. /\ todo # <<>> /\ Len(todo) <= 5 /\ IntAlone /\ IntPlace
      /\ Piece(arg, Head(todo)) = PrintInt!Grouped(arg) /\ Head(todo) = loop
      /\ \E before \in Seq(Int) :
           out = before \o Partial(arg, loop, dig) /\ before \o Rest(arg, todo) = WholeText(arg)
  BY <1>1, InALoop DEF TextState
<1>4. PICK before \in Seq(Int) :
        out = before \o Partial(arg, loop, dig) /\ before \o Rest(arg, todo) = WholeText(arg)
  BY <1>3
<1>5. arg \in Args /\ n \in Nat
  BY ArgFacts DEF TextState, IntInv
<1>6. Remaining(groups, s, m) /\ groups[1] = s[m] /\ dig = left[m + 1] + 1 /\ m < Len(s)
  BY <1>1, <1>3 DEF IntPlace
<1>7. m \in 1 .. Len(s)
  BY <1>6 DEF Remaining
<1>8. /\ left[m] \in Nat /\ left[m + 1] \in Nat /\ left[m] = s[m] + left[m + 1]
      /\ s[m] \in Nat /\ s[m] # 0 /\ left[m + 1] + 1 \in 1 .. n
      /\ \A k \in Nat : left[m + 1] < k /\ k <= left[m] =>
           (k \in SepsOf(arg) <=> k = left[m + 1] + 1 /\ m < Len(s))
  BY <1>5, <1>7, GroupFacts DEF GroupAt
<1>9. dig \in SepsOf(arg) /\ dig \in 1 .. n
  <2>1. dig \in Nat /\ left[m + 1] < dig /\ dig <= left[m]
    <3>. DEFINE size == s[m]  l == left[m]  r == left[m + 1]
    <3>1. dig = r + 1 /\ l = size + r /\ size \in Nat /\ size # 0 /\ l \in Nat /\ r \in Nat
      BY <1>6, <1>8
    <3>2. dig \in Nat /\ r < dig /\ dig <= l
      <4>. HIDE DEF size, l, r
      <4>. QED BY <3>1
    <3>. QED BY <3>2
  <2>. QED BY <1>6, <1>8, <2>1
<1>10. out' = before \o Partial(arg, next, dig')
  <2>. DEFINE r == F[dig - 1]
  <2>1. Partial(arg, loop, dig) = r /\ Partial(arg, next, dig') = Ahead(F, SepsOf(arg), dig)
    BY <1>1 DEF Partial, SepsOf
  <2>2. Ahead(F, SepsOf(arg), dig) = r \o sep
    BY <1>5, <1>9, PlaceFacts
  <2>3. r \in Seq(Int)
    <3>1. dig - 1 \in 0 .. n
      BY <1>5, <1>9
    <3>. QED BY <1>5, <3>1, PlaceFacts
  <2>4. sep \in Seq(Int)
    BY DEF PrintInt!Separator
  <2>. HIDE DEF r, sep
  <2>5. (before \o r) \o sep = before \o (r \o sep)
    BY <2>3, <2>4, Regroup, Zenon
  <2>. QED BY <1>1, <1>4, <2>1, <2>2, <2>5
<1>11. /\ Len(todo') <= 5 /\ IntAlone' /\ IntSays'
       /\ \A name : PrintInt!Call(name)' <=> name = next
  <2>1. next \in Loops /\ next # "bits"
    BY DEF Loops
  <2>. QED BY <1>1, <1>2, <1>3, <1>4, <1>10, <2>1, LoopEnters DEF TextState
<1>12. IntPlace'
  <2>1. /\ Remaining(groups', TextGroups(arg'), Len(groups'))
        /\ groups'[1] = TextGroups(arg')[Len(groups')]
        /\ dig' = LeftOf(arg')[Len(groups') + 1] + 1
    BY <1>1, <1>6
  <2>2. /\ next # "big_sep" /\ next # "big_sep_room" /\ next # "bits"
        /\ next # "little_sep" /\ next # "big_bit_sep"
    OBVIOUS
  <2>. QED BY <1>11, <2>1, <2>2 DEF IntPlace
<1>. QED BY <1>11, <1>12 DEF IntTextInv

LEMMA IntTextStep ==
  ASSUME IntInv, IntTextInv, [PrintInt!Next]_(PrintInt!vars)
  PROVE  IntTextInv'
<1>1. arg' = arg
  BY DEF PrintInt!Next, PrintInt!vars, PrintInt!Fill, PrintInt!PutFill, PrintInt!Zeros,
         PrintInt!Prefixed, PrintInt!Complement, PrintInt!Direct, PrintInt!WriteDigitsOnly,
         PrintInt!Ungrouped, PrintInt!Bit, PrintInt!WriteGrouped, PrintInt!BigSepDigit,
         PrintInt!BigSepRoom, PrintInt!BitGroup, PrintInt!BitSep
<1>2. CASE PrintInt!DigCount(arg) # arg.digits
  BY <1>1, <1>2 DEF IntTextInv
<1>3. CASE PrintInt!DigCount(arg) = arg.digits
  <2>1. TextState
    BY <1>3 DEF TextState
  <2>2. CASE UNCHANGED PrintInt!vars
    BY <2>2 DEF IntTextInv, IntAlone, IntPlace, IntSays, PrintInt!vars, PrintInt!Call
  <2>3. CASE PrintInt!Next
    BY <2>1, <2>2, <2>3, FillSays, ZerosSays, PrefixedSays, ComplementSays, DirectSays,
       WriteDigitsOnlySays, BitSays, WriteGroupedSays, BigSepDigitSays, BigSepRoomSays,
       BitGroupSays, BitSepSays DEF PrintInt!Next
  <2>. QED BY <2>2, <2>3
<1>. QED BY <1>2, <1>3

-----------------------------------------------------------------------------
(* What print_to calls at first writes the whole text.                     *)
LEMMA NoRest == ASSUME NEW a PROVE Rest(a, <<>>) = <<>>
<1>1. Rest(a, <<>>) = <<>> \o (<<>> \o (<<>> \o (<<>> \o <<>>)))
  BY DEF Rest, PieceAt
<1>2. <<>> \o <<>> = <<>>
  OBVIOUS
<1>. QED BY <1>1, <1>2

LEMMA RestOfOne ==
  ASSUME NEW a \in Args, NEW p
  PROVE  Rest(a, <<p>>) = Piece(a, p)
<1>1. Rest(a, <<p>>) = Piece(a, p) \o (<<>> \o (<<>> \o (<<>> \o <<>>)))
  BY DEF Rest, PieceAt
<1>2. <<>> \o <<>> = <<>> /\ Piece(a, p) \o <<>> = Piece(a, p)
  BY PieceSeq
<1>. QED BY <1>1, <1>2

LEMMA RestOfTwo ==
  ASSUME NEW a \in Args, NEW p, NEW q
  PROVE  Rest(a, <<p, q>>) = Piece(a, p) \o Piece(a, q)
<1>1. Rest(a, <<p, q>>) = Piece(a, p) \o (Piece(a, q) \o (<<>> \o (<<>> \o <<>>)))
  BY DEF Rest, PieceAt
<1>2. <<>> \o <<>> = <<>> /\ Piece(a, q) \o <<>> = Piece(a, q)
  BY PieceSeq
<1>. QED BY <1>1, <1>2

LEMMA RestOfThree ==
  ASSUME NEW a \in Args, NEW p, NEW q, NEW r
  PROVE  Rest(a, <<p, q, r>>) = Piece(a, p) \o (Piece(a, q) \o Piece(a, r))
<1>1. Rest(a, <<p, q, r>>) = Piece(a, p) \o (Piece(a, q) \o (Piece(a, r) \o (<<>> \o <<>>)))
  BY DEF Rest, PieceAt
<1>2. <<>> \o <<>> = <<>> /\ Piece(a, r) \o <<>> = Piece(a, r)
  BY PieceSeq
<1>. QED BY <1>1, <1>2

LEMMA RestOfFour ==
  ASSUME NEW a \in Args, NEW p, NEW q, NEW r, NEW s
  PROVE  Rest(a, <<p, q, r, s>>) = Piece(a, p) \o (Piece(a, q) \o (Piece(a, r) \o Piece(a, s)))
<1>1. Rest(a, <<p, q, r, s>>)
        = Piece(a, p) \o (Piece(a, q) \o (Piece(a, r) \o (Piece(a, s) \o <<>>)))
  BY DEF Rest, PieceAt
<1>2. Piece(a, s) \o <<>> = Piece(a, s)
  BY PieceSeq
<1>. QED BY <1>1, <1>2

LEMMA RestOfFive ==
  ASSUME NEW a, NEW p, NEW q, NEW r, NEW s, NEW t
  PROVE  Rest(a, <<p, q, r, s, t>>)
           = Piece(a, p) \o (Piece(a, q) \o (Piece(a, r) \o (Piece(a, s) \o Piece(a, t))))
BY DEF Rest, PieceAt

(* Concatenation, without what the provers know of it.                     *)
Cat(s, t) == s \o t

LEMMA CatFacts ==
  \A s, t \in Seq(Int) :
    Cat(s, t) \in Seq(Int) /\ \A u \in Seq(Int) : Cat(Cat(s, t), u) = Cat(s, Cat(t, u))
<1>. SUFFICES ASSUME NEW s \in Seq(Int), NEW t \in Seq(Int)
              PROVE  /\ Cat(s, t) \in Seq(Int)
                     /\ \A u \in Seq(Int) : Cat(Cat(s, t), u) = Cat(s, Cat(t, u))
  BY Zenon
<1>1. Cat(s, t) \in Seq(Int)
  BY DEF Cat
<1>2. ASSUME NEW u \in Seq(Int) PROVE Cat(Cat(s, t), u) = Cat(s, Cat(t, u))
  BY Regroup DEF Cat
<1>. QED BY <1>1, <1>2

(* The texts of the four alignments, from their pieces.                    *)
AlignedTexts(sign, z, d, f, h) ==
  /\ sign \o (z \o (d \o f)) = (sign \o (z \o d)) \o f
  /\ f \o (sign \o (z \o d)) = (f \o sign) \o (z \o d)
  /\ sign \o (f \o (z \o d)) = (sign \o f) \o (z \o d)
  /\ f \o (sign \o (z \o (d \o h))) = ((f \o sign) \o (z \o d)) \o h

LEMMA Aligned ==
  ASSUME NEW sign \in Seq(Int), NEW z \in Seq(Int), NEW d \in Seq(Int),
         NEW f \in Seq(Int), NEW h \in Seq(Int)
  PROVE  AlignedTexts(sign, z, d, f, h)
<1>1. /\ Cat(z, Cat(d, f)) = Cat(Cat(z, d), f)
      /\ Cat(z, Cat(d, h)) = Cat(Cat(z, d), h)
  BY CatFacts
<1>2. Cat(z, d) \in Seq(Int) /\ Cat(f, sign) \in Seq(Int)
  BY CatFacts
<1>3. Cat(sign, Cat(z, Cat(d, f))) = Cat(Cat(sign, Cat(z, d)), f)
  BY <1>1, <1>2, CatFacts
<1>4. Cat(f, Cat(sign, Cat(z, d))) = Cat(Cat(f, sign), Cat(z, d))
  BY <1>2, CatFacts
<1>5. Cat(sign, Cat(f, Cat(z, d))) = Cat(Cat(sign, f), Cat(z, d))
  BY <1>2, CatFacts
<1>6. Cat(f, Cat(sign, Cat(z, Cat(d, h)))) = Cat(Cat(Cat(f, sign), Cat(z, d)), h)
  <2>. DEFINE number == Cat(z, d)  front == Cat(f, sign)
  <2>. HIDE DEF number, front
  <2>1. number \in Seq(Int) /\ front \in Seq(Int)
    BY <1>2 DEF number, front
  <2>2. Cat(f, Cat(sign, Cat(number, h))) = Cat(Cat(front, number), h)
    <3>1. Cat(number, h) \in Seq(Int)
      BY <2>1, CatFacts
    <3>2. Cat(f, Cat(sign, Cat(number, h))) = Cat(front, Cat(number, h))
      BY <3>1, CatFacts DEF front
    <3>3. Cat(front, Cat(number, h)) = Cat(Cat(front, number), h)
      BY <2>1, CatFacts
    <3>. QED BY <3>2, <3>3
  <2>. QED BY <1>1, <2>2 DEF number, front
<1>. QED BY <1>3, <1>4, <1>5, <1>6, Zenon DEF AlignedTexts, Cat

LEMMA UnformattedFacts ==
  ASSUME NEW a \in Args, a.printer # "format"
  PROVE  /\ a.align = "right" /\ a.precision = 0 /\ a.width = 0
         /\ a.printer = "int" => a.grouping = <<0>> /\ a.sep = 1
         /\ PrintInt!FillCount(a) = 0 /\ Padding(a) = 0
<1>1. a \in PrintInt!Plain \cup PrintInt!Punct
  BY DEF Args, PrintInt!Formatted
<1>2. /\ a.align = "right" /\ a.precision = 0 /\ a.width = 0
      /\ a.printer = "int" => a.grouping = <<0>> /\ a.sep = 1
  BY <1>1 DEF PrintInt!Plain, PrintInt!Punct
<1>3. PrintInt!FillCount(a) = 0
  BY DEF PrintInt!FillCount
<1>4. Padding(a) = 0
  BY <1>2, ArgFacts DEF Padding
<1>. QED BY <1>2, <1>3, <1>4

Plan(a, calls) ==
  /\ Rest(a, calls) = WholeText(a) /\ Len(calls) <= 5
  /\ \A i \in 1 .. Len(calls) : calls[i] \in {"direct", "digits", "bits"} => Len(TextGroups(a)) = 1

LEMMA UnformattedPlan ==
  ASSUME NEW a \in Args, PrintInt!DigCount(a) = a.digits, a.printer # "format"
  PROVE  Plan(a, PrintInt!Calls(a))
<1>. DEFINE S == PrintInt!Sign(a)  G == PrintInt!Grouped(a)  c == PrintInt!Calls(a)
<1>1. /\ a.align = "right" /\ (a.printer = "int" => a.grouping = <<0>>)
      /\ PrintInt!FillCount(a) = 0 /\ Padding(a) = 0
  BY UnformattedFacts
<1>2. S \in Seq(Int) /\ G \in Seq(Int) /\ PrintInt!Number(a) = G
  <2>1. /\ S \in Seq(Int) /\ G \in Seq(Int)
        /\ PrintInt!Number(a) = PrintInt!Times(Padding(a), PrintInt!Zero) \o G
    BY PartsSeq
  <2>2. PrintInt!Times(Padding(a), PrintInt!Zero) = <<>>
    BY <1>1, NoTimes
  <2>. QED BY <2>1, <2>2
<1>3. WholeText(a) = S \o G
  <2>1. WholeText(a) = PrintInt!Filled(PrintInt!FillCount(a)) \o S \o PrintInt!Number(a)
    BY <1>1 DEF WholeText
  <2>2. PrintInt!Filled(PrintInt!FillCount(a)) = <<>>
    BY <1>1, NoTimes DEF PrintInt!Filled
  <2>. HIDE DEF S, G
  <2>. QED BY <1>2, <2>1, <2>2
<1>. HIDE DEF S, G
<1>4. CASE a.printer = "int" \/ (a.printer = "punct" /\ PrintInt!SepCount(a) = 0)
  <2>1. c = <<"direct">> /\ Len(c) = 1
    BY <1>4 DEF PrintInt!Calls
  <2>2. Rest(a, c) = S \o G
    <3>1. Rest(a, c) = Piece(a, "direct")
      BY <2>1, RestOfOne
    <3>. QED BY <3>1 DEF Piece, S, G
  <2>3. Len(TextGroups(a)) = 1
    <3>1. a.printer = "int" => PrintInt!NoGroupSeparation(a.grouping, a.digits)
      BY <1>1 DEF PrintInt!NoGroupSeparation
    <3>. QED BY <1>4, <3>1, CountedGroups
  <2>. QED BY <1>3, <2>1, <2>2, <2>3 DEF Plan
<1>5. CASE a.printer = "punct" /\ PrintInt!SepCount(a) # 0
  <2>1. c = <<"complement", "grouped">> /\ Len(c) = 2
    BY <1>5 DEF PrintInt!Calls
  <2>2. Rest(a, c) = S \o G
    <3>1. Rest(a, <<"complement", "grouped">>) = Piece(a, "complement") \o Piece(a, "grouped")
      BY RestOfTwo, Zenon
    <3>. QED BY <2>1, <3>1 DEF Piece, S, G
  <2>3. \A i \in 1 .. Len(c) : c[i] \notin {"direct", "digits", "bits"}
    BY <2>1
  <2>. QED BY <1>3, <2>1, <2>2, <2>3 DEF Plan
<1>. QED BY <1>4, <1>5, ArgFacts

(* Tuples, one behind another.                                             *)
Joined(p, q, r, s) ==
  /\ <<p, q, r>> \o <<s>> = <<p, q, r, s>>
  /\ <<p>> \o <<q, r, s>> = <<p, q, r, s>>
  /\ <<p, q>> \o <<r, s>> = <<p, q, r, s>>
JoinedAround(p, q, r, s, t) == <<p>> \o <<q, r, s>> \o <<t>> = <<p, q, r, s, t>>

LEMMA JoinedToFour ==
  ASSUME NEW p \in Calls, NEW q \in Calls, NEW r \in Calls, NEW s \in Calls
  PROVE  Joined(p, q, r, s)
<1>. DEFINE four == <<p, q, r, s>>
            x == <<p, q, r>> \o <<s>>  y == <<p>> \o <<q, r, s>>  z == <<p, q>> \o <<r, s>>
            Same(u) == /\ u \in Seq(Calls) /\ Len(u) = 4
                       /\ u[1] = p /\ u[2] = q /\ u[3] = r /\ u[4] = s
<1>1. Same(four)
  OBVIOUS
<1>2. Same(x)
  OBVIOUS
<1>3. Same(y)
  OBVIOUS
<1>4. Same(z)
  OBVIOUS
<1>5. \A i \in 1 .. 4 : i = 1 \/ i = 2 \/ i = 3 \/ i = 4
  OBVIOUS
<1>. HIDE DEF four, x, y, z
<1>6. ASSUME NEW u, Same(u) PROVE u = four
  <2>1. \A i \in 1 .. 4 : u[i] = four[i]
    BY <1>1, <1>5, <1>6
  <2>. QED BY <1>1, <1>6, <2>1, SeqEqual
<1>7. x = four /\ y = four /\ z = four
  <2>. HIDE DEF Same
  <2>. QED BY <1>2, <1>3, <1>4, <1>6
<1>. QED BY <1>7 DEF Joined, four, x, y, z

LEMMA JoinedToFive ==
  ASSUME NEW p \in Calls, NEW q \in Calls, NEW r \in Calls, NEW s \in Calls, NEW t \in Calls
  PROVE  JoinedAround(p, q, r, s, t)
<1>. DEFINE four == <<p, q, r, s>>  five == <<p, q, r, s, t>>  x == four \o <<t>>
            Same(u) == /\ u \in Seq(Calls) /\ Len(u) = 5
                       /\ u[1] = p /\ u[2] = q /\ u[3] = r /\ u[4] = s /\ u[5] = t
<1>1. Same(five)
  OBVIOUS
<1>2. Same(x)
  OBVIOUS
<1>3. <<p>> \o <<q, r, s>> = four
  <2>1. Joined(p, q, r, s)
    BY JoinedToFour
  <2>. QED BY <2>1 DEF Joined
<1>4. \A i \in 1 .. 5 : i = 1 \/ i = 2 \/ i = 3 \/ i = 4 \/ i = 5
  OBVIOUS
<1>. HIDE DEF four, five, x
<1>5. x = five
  <2>1. \A i \in 1 .. 5 : x[i] = five[i]
    BY <1>1, <1>2, <1>4
  <2>. QED BY <1>1, <1>2, <2>1, SeqEqual
<1>. QED BY <1>3, <1>5 DEF JoinedAround, five, x

(* Formatted integers: the calls in the order of the alignment.            *)
Planned(a, p, d) ==
  LET c == PrintInt!Calls(a)  n == PrintInt!FillCount(a) IN
  /\ p \in {"prefixed", "complement"} /\ d \in {"digits", "grouped"}
  /\ d = "digits" => PrintInt!SepCount(a) = 0
  /\ n = 0 => c = <<p, "zeros", d>>
  /\ n # 0 /\ a.align = "left" => c = <<p, "zeros", d, "fill">>
  /\ n # 0 /\ a.align = "right" => c = <<"fill", p, "zeros", d>>
  /\ n # 0 /\ a.align = "split" => c = <<"complement", "fill", "zeros", d>>
  /\ n # 0 /\ a.align = "center" => c = <<"fill_half", p, "zeros", d, "fill_rest">>

LEMMA FormattedCalls ==
  ASSUME NEW a \in Args, a.printer = "format"
  PROVE  \E p, d : Planned(a, p, d)
<1>. DEFINE p == IF PrintInt!SepCount(a) = 0 THEN "prefixed" ELSE "complement"
            d == IF PrintInt!SepCount(a) = 0 THEN "digits" ELSE "grouped"
            c == PrintInt!Calls(a)  n == PrintInt!FillCount(a)
<1>1. PrintInt!Content(a) = <<p, "zeros", d>> /\ PrintInt!WriteDigits(a) = <<"zeros", d>>
  BY DEF PrintInt!Content, PrintInt!WriteDigits
<1>2. p \in {"prefixed", "complement"} /\ d \in {"digits", "grouped"}
      /\ (d = "digits" => PrintInt!SepCount(a) = 0)
  OBVIOUS
<1>. HIDE DEF p, d
<1>8. /\ p \in Calls /\ d \in Calls /\ "zeros" \in Calls /\ "fill" \in Calls
      /\ "complement" \in Calls /\ "fill_half" \in Calls /\ "fill_rest" \in Calls
  BY <1>2 DEF Calls
<1>3. n = 0 => c = <<p, "zeros", d>>
  BY <1>1 DEF PrintInt!Calls
<1>4. n # 0 /\ a.align = "left" => c = <<p, "zeros", d, "fill">>
  <2>1. Joined(p, "zeros", d, "fill")
    BY <1>8, JoinedToFour, Zenon
  <2>. QED BY <1>1, <2>1 DEF Joined, PrintInt!Calls
<1>5. n # 0 /\ a.align = "right" => c = <<"fill", p, "zeros", d>>
  <2>1. Joined("fill", p, "zeros", d)
    BY <1>8, JoinedToFour, Zenon
  <2>. QED BY <1>1, <2>1 DEF Joined, PrintInt!Calls
<1>6. n # 0 /\ a.align = "split" => c = <<"complement", "fill", "zeros", d>>
  <2>1. Joined("complement", "fill", "zeros", d)
    BY <1>8, JoinedToFour, Zenon
  <2>. QED BY <1>1, <2>1 DEF Joined, PrintInt!Calls
<1>7. n # 0 /\ a.align = "center" => c = <<"fill_half", p, "zeros", d, "fill_rest">>
  <2>1. JoinedAround("fill_half", p, "zeros", d, "fill_rest")
    BY <1>8, JoinedToFive, Zenon
  <2>. QED BY <1>1, <2>1 DEF JoinedAround, PrintInt!Calls
<1>9. Planned(a, p, d)
  BY <1>2, <1>3, <1>4, <1>5, <1>6, <1>7 DEF Planned
<1>. QED BY <1>9

-----------------------------------------------------------------------------
LEMMA FilledTexts ==
  ASSUME NEW a \in Args, NEW n, n = PrintInt!FillCount(a)
  PROVE  LET S == PrintInt!Sign(a)  N == PrintInt!Number(a)  F(k) == PrintInt!Filled(k) IN
         /\ n = 0 => WholeText(a) = S \o N
         /\ a.align = "left" => WholeText(a) = (S \o N) \o F(n)
         /\ a.align = "right" => WholeText(a) = (F(n) \o S) \o N
         /\ a.align = "split" => WholeText(a) = (S \o F(n)) \o N
         /\ a.align = "center" => WholeText(a) = ((F(n \div 2) \o S) \o N) \o F(n - n \div 2)
<1>. DEFINE S == PrintInt!Sign(a)  N == PrintInt!Number(a)  F(k) == PrintInt!Filled(k)
<1>1. a.align = "left" => WholeText(a) = (S \o N) \o F(n)
  BY DEF WholeText
<1>2. a.align = "right" => WholeText(a) = (F(n) \o S) \o N
  BY DEF WholeText
<1>3. a.align = "split" => WholeText(a) = (S \o F(n)) \o N
  BY DEF WholeText
<1>4. a.align = "center" => WholeText(a) = ((F(n \div 2) \o S) \o N) \o F(n - n \div 2)
  BY DEF WholeText
<1>5. a.align \in {"left", "right", "split", "center"}
  BY DEF Args, PrintInt!Plain, PrintInt!Punct, PrintInt!Formatted
<1>6. ASSUME n = 0 PROVE WholeText(a) = S \o N
  <2>1. F(0) = <<>>
    BY NoTimes DEF PrintInt!Filled
  <2>2. n \div 2 = 0 /\ n - n \div 2 = 0
    BY <1>6
  <2>3. S \in Seq(Int) /\ N \in Seq(Int)
    <3>1. \A s, t \in Seq(Int) : s \o t \in Seq(Int)
      OBVIOUS
    <3>. QED BY <3>1, PartsSeq
  <2>4. S \o N \in Seq(Int)
    <3>. HIDE DEF S, N
    <3>. QED BY <2>3
  <2>5. /\ (S \o N) \o <<>> = S \o N /\ <<>> \o S = S /\ S \o <<>> = S
    <3>. HIDE DEF S, N
    <3>1. \A s \in Seq(Int) : s \o <<>> = s /\ <<>> \o s = s
      OBVIOUS
    <3>. QED BY <2>3, <2>4, <3>1
  <2>6. F(n) = <<>> /\ F(n \div 2) = <<>> /\ F(n - n \div 2) = <<>>
    BY <2>1, <2>2, <1>6
  <2>. HIDE DEF S, N, F
  <2>7. CASE a.align = "left"
    BY <1>1, <2>5, <2>6, <2>7
  <2>8. CASE a.align = "right"
    BY <1>2, <2>5, <2>6, <2>8
  <2>9. CASE a.align = "split"
    BY <1>3, <2>5, <2>6, <2>9
  <2>10. CASE a.align = "center"
    BY <1>4, <2>5, <2>6, <2>10
  <2>. QED BY <1>5, <2>7, <2>8, <2>9, <2>10
<1>. QED BY <1>1, <1>2, <1>3, <1>4, <1>6

LEMMA FormattedPlan ==
  ASSUME NEW a \in Args, PrintInt!DigCount(a) = a.digits, a.printer = "format"
  PROVE  Plan(a, PrintInt!Calls(a))
<1>1. PICK p, d : Planned(a, p, d)
  BY FormattedCalls
<1>. DEFINE n == PrintInt!FillCount(a)  c == PrintInt!Calls(a)
            S == PrintInt!Sign(a)  G == PrintInt!Grouped(a)  N == PrintInt!Number(a)
            Z == PrintInt!Times(Padding(a), PrintInt!Zero)  F(k) == PrintInt!Filled(k)
<1>2. /\ p \in {"prefixed", "complement"} /\ d \in {"digits", "grouped"}
      /\ d = "digits" => PrintInt!SepCount(a) = 0
  BY <1>1 DEF Planned
<1>3. /\ n = 0 => c = <<p, "zeros", d>>
      /\ n # 0 /\ a.align = "left" => c = <<p, "zeros", d, "fill">>
      /\ n # 0 /\ a.align = "right" => c = <<"fill", p, "zeros", d>>
      /\ n # 0 /\ a.align = "split" => c = <<"complement", "fill", "zeros", d>>
      /\ n # 0 /\ a.align = "center" => c = <<"fill_half", p, "zeros", d, "fill_rest">>
  BY <1>1 DEF Planned
<1>4. /\ Piece(a, p) = S /\ Piece(a, "complement") = S
      /\ Piece(a, "zeros") = Z /\ Piece(a, d) = G
      /\ Piece(a, "fill") = F(n) /\ Piece(a, "fill_half") = F(n \div 2)
      /\ Piece(a, "fill_rest") = F(n - n \div 2)
  <2>1. Piece(a, p) = S /\ Piece(a, "complement") = S
    BY <1>2 DEF Piece
  <2>2. Piece(a, d) = G
    BY <1>2 DEF Piece
  <2>3. Piece(a, "zeros") = Z
    BY DEF Piece
  <2>4. /\ Piece(a, "fill") = F(n) /\ Piece(a, "fill_half") = F(n \div 2)
        /\ Piece(a, "fill_rest") = F(n - n \div 2)
    BY DEF Piece
  <2>. QED BY <2>1, <2>2, <2>3, <2>4
<1>5. /\ S \in Seq(Int) /\ G \in Seq(Int) /\ Z \in Seq(Int) /\ N = Z \o G
      /\ F(n) \in Seq(Int) /\ F(n \div 2) \in Seq(Int) /\ F(n - n \div 2) \in Seq(Int)
  BY PartsSeq, FillFacts
<1>6. a.align \in {"left", "right", "split", "center"}
  BY DEF Args, PrintInt!Plain, PrintInt!Punct, PrintInt!Formatted
<1>7. d = "digits" => Len(TextGroups(a)) = 1
  BY <1>2, CountedGroups
<1>8. /\ n = 0 => WholeText(a) = S \o N
      /\ a.align = "left" => WholeText(a) = (S \o N) \o F(n)
      /\ a.align = "right" => WholeText(a) = (F(n) \o S) \o N
      /\ a.align = "split" => WholeText(a) = (S \o F(n)) \o N
      /\ a.align = "center" => WholeText(a) = ((F(n \div 2) \o S) \o N) \o F(n - n \div 2)
  BY FilledTexts
<1>. DEFINE f == F(n)  g == F(n \div 2)  h == F(n - n \div 2)
<1>9. /\ S \o (Z \o (G \o f)) = (S \o (Z \o G)) \o f
      /\ f \o (S \o (Z \o G)) = (f \o S) \o (Z \o G)
      /\ S \o (f \o (Z \o G)) = (S \o f) \o (Z \o G)
      /\ g \o (S \o (Z \o (G \o h))) = ((g \o S) \o (Z \o G)) \o h
  <2>. HIDE DEF S, Z, G, f, g, h
  <2>1. /\ S \in Seq(Int) /\ G \in Seq(Int) /\ Z \in Seq(Int)
        /\ f \in Seq(Int) /\ g \in Seq(Int) /\ h \in Seq(Int)
    BY <1>5 DEF f, g, h
  <2>2. AlignedTexts(S, Z, G, f, f) /\ AlignedTexts(S, Z, G, g, h)
    BY <2>1, Aligned, Zenon
  <2>. QED BY <2>2, Zenon DEF AlignedTexts
<1>10. ASSUME Rest(a, c) = WholeText(a),
              c = <<p, "zeros", d>> \/ c = <<p, "zeros", d, "fill">> \/ c = <<"fill", p, "zeros", d>>
              \/ c = <<"complement", "fill", "zeros", d>>
              \/ c = <<"fill_half", p, "zeros", d, "fill_rest">>
       PROVE  Plan(a, c)
  <2>. HIDE DEF c
  <2>1. Len(c) \in 3 .. 5
    BY <1>10
  <2>2. \A i \in 1 .. Len(c) : c[i] \in {p, "zeros", d, "fill", "complement", "fill_half", "fill_rest"}
    <3>1. \A i \in 1 .. Len(c) : i \in {1, 2, 3, 4, 5}
      <4>1. \A k \in 3 .. 5 : \A i \in 1 .. k : i = 1 \/ i = 2 \/ i = 3 \/ i = 4 \/ i = 5
        OBVIOUS
      <4>. QED BY <2>1, <4>1, Zenon
    <3>2. CASE c = <<p, "zeros", d>>
      BY <3>1, <3>2
    <3>3. CASE c = <<p, "zeros", d, "fill">>
      BY <3>1, <3>3
    <3>4. CASE c = <<"fill", p, "zeros", d>>
      BY <3>1, <3>4
    <3>5. CASE c = <<"complement", "fill", "zeros", d>>
      BY <3>1, <3>5
    <3>6. CASE c = <<"fill_half", p, "zeros", d, "fill_rest">>
      BY <3>1, <3>6
    <3>. QED BY <1>10, <3>2, <3>3, <3>4, <3>5, <3>6
  <2>3. \A i \in 1 .. Len(c) : c[i] \in {"direct", "digits", "bits"} => Len(TextGroups(a)) = 1
    <3>. SUFFICES ASSUME NEW i \in 1 .. Len(c), c[i] \in {"direct", "digits", "bits"}
                  PROVE  Len(TextGroups(a)) = 1
      OBVIOUS
    <3>1. c[i] \in {p, "zeros", d, "fill", "complement", "fill_half", "fill_rest"}
      BY <2>2
    <3>2. c[i] = "digits" /\ d = "digits"
      BY <1>2, <3>1
    <3>. QED BY <1>7, <3>2
  <2>. QED BY <1>10, <2>1, <2>3 DEF Plan
<1>. HIDE DEF S, Z, G, N, f, g, h, F, c, n
<1>11. ASSUME n = 0 PROVE Plan(a, c)
  <2>1. Rest(a, c) = S \o (Z \o G)
    <3>1. Rest(a, <<p, "zeros", d>>) = Piece(a, p) \o (Piece(a, "zeros") \o Piece(a, d))
      BY RestOfThree, Zenon
    <3>. QED BY <1>3, <1>4, <1>11, <3>1
  <2>. QED BY <1>3, <1>5, <1>8, <1>10, <1>11, <2>1
<1>12. ASSUME n # 0 /\ a.align = "left" PROVE Plan(a, c)
  <2>1. Rest(a, c) = S \o (Z \o (G \o f))
    <3>1. Rest(a, <<p, "zeros", d, "fill">>)
            = Piece(a, p) \o (Piece(a, "zeros") \o (Piece(a, d) \o Piece(a, "fill")))
      BY RestOfFour, Zenon
    <3>. QED BY <1>3, <1>4, <1>12, <3>1 DEF f
  <2>2. WholeText(a) = (S \o (Z \o G)) \o f
    BY <1>5, <1>8, <1>12 DEF f
  <2>. QED BY <1>3, <1>9, <1>10, <1>12, <2>1, <2>2
<1>13. ASSUME n # 0 /\ a.align = "right" PROVE Plan(a, c)
  <2>1. Rest(a, c) = f \o (S \o (Z \o G))
    <3>1. Rest(a, <<"fill", p, "zeros", d>>)
            = Piece(a, "fill") \o (Piece(a, p) \o (Piece(a, "zeros") \o Piece(a, d)))
      BY RestOfFour, Zenon
    <3>. QED BY <1>3, <1>4, <1>13, <3>1 DEF f
  <2>2. WholeText(a) = (f \o S) \o (Z \o G)
    BY <1>5, <1>8, <1>13 DEF f
  <2>. QED BY <1>3, <1>9, <1>10, <1>13, <2>1, <2>2
<1>14. ASSUME n # 0 /\ a.align = "split" PROVE Plan(a, c)
  <2>1. Rest(a, c) = S \o (f \o (Z \o G))
    <3>1. Rest(a, <<"complement", "fill", "zeros", d>>)
            = Piece(a, "complement") \o (Piece(a, "fill") \o (Piece(a, "zeros") \o Piece(a, d)))
      BY RestOfFour, Zenon
    <3>. QED BY <1>3, <1>4, <1>14, <3>1 DEF f
  <2>2. WholeText(a) = (S \o f) \o (Z \o G)
    BY <1>5, <1>8, <1>14 DEF f
  <2>. QED BY <1>3, <1>9, <1>10, <1>14, <2>1, <2>2
<1>15. ASSUME n # 0 /\ a.align = "center" PROVE Plan(a, c)
  <2>1. Rest(a, c) = g \o (S \o (Z \o (G \o h)))
    <3>1. Rest(a, <<"fill_half", p, "zeros", d, "fill_rest">>)
            = Piece(a, "fill_half") \o (Piece(a, p) \o (Piece(a, "zeros")
                \o (Piece(a, d) \o Piece(a, "fill_rest"))))
      BY RestOfFive, ZenonT(60)
    <3>. QED BY <1>3, <1>4, <1>15, <3>1 DEF g, h
  <2>2. WholeText(a) = ((g \o S) \o (Z \o G)) \o h
    BY <1>5, <1>8, <1>15 DEF g, h
  <2>. QED BY <1>3, <1>9, <1>10, <1>15, <2>1, <2>2
<1>16. c = PrintInt!Calls(a)
  BY DEF c
<1>. QED BY <1>6, <1>11, <1>12, <1>13, <1>14, <1>15, <1>16

-----------------------------------------------------------------------------
LEMMA WholeTextSeq == ASSUME NEW a \in Args PROVE WholeText(a) \in Seq(Int)
<1>. DEFINE n == PrintInt!FillCount(a)  S == PrintInt!Sign(a)  N == PrintInt!Number(a)
            f == PrintInt!Filled(n)  g == PrintInt!Filled(n \div 2)
            h == PrintInt!Filled(n - n \div 2)
<1>1. \A s, t \in Seq(Int) : s \o t \in Seq(Int)
  OBVIOUS
<1>2. /\ S \in Seq(Int) /\ f \in Seq(Int) /\ g \in Seq(Int) /\ h \in Seq(Int)
  BY PartsSeq, FillFacts
<1>3. N \in Seq(Int)
  BY <1>1, PartsSeq
<1>4. a.align \in {"left", "right", "split", "center"}
  BY DEF Args, PrintInt!Plain, PrintInt!Punct, PrintInt!Formatted
<1>5. \/ WholeText(a) = (S \o N) \o f \/ WholeText(a) = (f \o S) \o N
      \/ WholeText(a) = (S \o f) \o N \/ WholeText(a) = ((g \o S) \o N) \o h
  BY <1>4, FilledTexts
<1>6. /\ (S \o N) \o f \in Seq(Int) /\ (f \o S) \o N \in Seq(Int)
      /\ (S \o f) \o N \in Seq(Int) /\ ((g \o S) \o N) \o h \in Seq(Int)
  <2>. HIDE DEF S, N, f, g, h
  <2>. QED BY <1>1, <1>2, <1>3
<1>. QED BY <1>5, <1>6

LEMMA IntTextStarts == ASSUME PrintInt!Init PROVE IntTextInv
<1>1. IntInv
  BY IntStarts
<1>2. arg \in Args /\ todo = PrintInt!Calls(arg) /\ out = <<>>
  BY <1>1 DEF IntInv, PrintInt!Init
<1>3. ASSUME PrintInt!DigCount(arg) = arg.digits
      PROVE  Len(todo) <= 5 /\ IntAlone /\ IntPlace /\ IntSays
  <2>1. Plan(arg, todo)
    BY <1>2, <1>3, UnformattedPlan, FormattedPlan
  <2>2. todo # <<>> => Head(todo) \notin Loops
    <3>1. CASE arg.printer # "format"
      <4>1. \/ PrintInt!Calls(arg) = <<"direct">>
            \/ PrintInt!Calls(arg) = <<"complement", "grouped">>
        BY <1>2, <3>1, ArgFacts DEF PrintInt!Calls
      <4>. QED BY <1>2, <4>1 DEF Loops
    <3>2. CASE arg.printer = "format"
      <4>1. PICK p, d : Planned(arg, p, d)
        BY <1>2, <3>2, FormattedCalls
      <4>2. p \in {"prefixed", "complement"}
        BY <4>1 DEF Planned
      <4>3. arg.align \in {"left", "right", "split", "center"}
        BY <1>2 DEF Args, PrintInt!Plain, PrintInt!Punct, PrintInt!Formatted
      <4>4. \/ todo = <<p, "zeros", d>> \/ todo = <<p, "zeros", d, "fill">>
            \/ todo = <<"fill", p, "zeros", d>> \/ todo = <<"complement", "fill", "zeros", d>>
            \/ todo = <<"fill_half", p, "zeros", d, "fill_rest">>
        BY <1>2, <4>1, <4>3 DEF Planned
      <4>5. Head(todo) \in {p, "fill", "complement", "fill_half"}
        BY <4>4
      <4>. QED BY <4>2, <4>5 DEF Loops
    <3>. QED BY <3>1, <3>2
  <2>3. IntPlace
    BY <2>2 DEF IntPlace, PrintInt!Call, Loops
  <2>4. IntSays
    <3>1. <<>> \in Seq(Int) /\ <<>> \o <<>> = <<>>
      OBVIOUS
    <3>2. todo # <<>> => Partial(arg, Head(todo), dig) = <<>>
      BY <2>2, NoPartial
    <3>3. <<>> \o Rest(arg, todo) = WholeText(arg)
      <4>1. Rest(arg, todo) = WholeText(arg)
        BY <2>1 DEF Plan
      <4>2. WholeText(arg) \in Seq(Int)
        BY <1>2, WholeTextSeq
      <4>. QED BY <4>1, <4>2
    <3>. QED BY <1>2, <3>1, <3>2, <3>3 DEF IntSays
  <2>5. Len(todo) <= 5 /\ IntAlone
    BY <2>1 DEF Plan, IntAlone
  <2>. QED BY <2>3, <2>4, <2>5
<1>. QED BY <1>3 DEF IntTextInv

(* When print_to returns, the text is written.                             *)
LEMMA IntTextWritten ==
  ASSUME IntInv, IntTextInv, PrintInt!DigCount(arg) = arg.digits, PrintInt!Printed
  PROVE  out = WholeText(arg)
<1>1. todo = <<>> /\ IntSays
  BY DEF IntTextInv, PrintInt!Printed
<1>2. PICK before \in Seq(Int) : out = before \o <<>> /\ before \o Rest(arg, <<>>) = WholeText(arg)
  BY <1>1 DEF IntSays
<1>. QED BY <1>2, NoRest

-----------------------------------------------------------------------------
LEMMA LengthJoined ==
  ASSUME NEW s \in Seq(Int), NEW t \in Seq(Int)
  PROVE  s \o t \in Seq(Int) /\ Len(s \o t) = Len(s) + Len(t)
OBVIOUS

(* The separators of a text.                                               *)
SepsIn(s) == {i \in 1 .. Len(s) : s[i] = PrintInt!Separator}

LEMMA SepsFinite ==
  ASSUME NEW s \in Seq(Int)
  PROVE  IsFiniteSet(SepsIn(s)) /\ Cardinality(SepsIn(s)) \in Nat
<1>1. IsFiniteSet(1 .. Len(s)) /\ SepsIn(s) \in SUBSET (1 .. Len(s))
  <2>1. 1 \in Int /\ Len(s) \in Int
    OBVIOUS
  <2>2. IsFiniteSet(1 .. Len(s))
    BY <2>1, FS_Interval
  <2>. QED BY <2>2 DEF SepsIn
<1>2. IsFiniteSet(SepsIn(s))
  BY <1>1, FS_Subset
<1>. QED BY <1>2, FS_CardinalityType

LEMMA SepsJoined ==
  ASSUME NEW s \in Seq(Int), NEW t \in Seq(Int)
  PROVE  Cardinality(SepsIn(s \o t)) = Cardinality(SepsIn(s)) + Cardinality(SepsIn(t))
<1>. DEFINE A == SepsIn(s)  B == SepsIn(t)  C == SepsIn(s \o t)  n == Len(s)
            D == {i \in C : i > n}  f == [i \in B |-> i + n]
<1>1. n \in Nat /\ Len(t) \in Nat /\ s \o t \in Seq(Int) /\ Len(s \o t) = n + Len(t)
  OBVIOUS
<1>2. /\ \A i \in 1 .. n : (s \o t)[i] = s[i]
      /\ \A i \in 1 .. Len(t) : (s \o t)[n + i] = t[i]
  OBVIOUS
<1>3. A \cup D = C /\ A \cap D = {}
  <2>1. ASSUME NEW i \in A PROVE i \in C /\ i \notin D
    BY <1>1, <1>2 DEF SepsIn
  <2>2. ASSUME NEW i \in C, i \notin D PROVE i \in A
    <3>1. i \in 1 .. Len(s \o t) /\ (s \o t)[i] = PrintInt!Separator /\ ~(i > n)
      BY <2>2 DEF SepsIn
    <3>2. i \in 1 .. n
      BY <1>1, <3>1
    <3>3. s[i] = PrintInt!Separator
      BY <1>2, <3>1, <3>2
    <3>. QED BY <3>2, <3>3 DEF SepsIn
  <2>. HIDE DEF A, C
  <2>. QED BY <2>1, <2>2
<1>4. f \in Bijection(B, D)
  <2>1. ASSUME NEW i \in B PROVE i + n \in D /\ i \in Nat
    <3>1. i \in 1 .. Len(t) /\ t[i] = PrintInt!Separator
      BY DEF SepsIn
    <3>2. i + n \in 1 .. Len(s \o t) /\ (s \o t)[n + i] = t[i] /\ i + n = n + i /\ i + n > n
      BY <1>1, <1>2, <3>1
    <3>. QED BY <3>1, <3>2 DEF SepsIn
  <2>2. ASSUME NEW j \in D PROVE \E i \in B : i + n = j
    <3>1. j \in 1 .. Len(s \o t) /\ (s \o t)[j] = PrintInt!Separator /\ j > n
      BY DEF SepsIn
    <3>2. j - n \in 1 .. Len(t) /\ n + (j - n) = j /\ (j - n) + n = j
      BY <1>1, <3>1
    <3>3. t[j - n] = PrintInt!Separator
      BY <1>2, <3>1, <3>2
    <3>4. j - n \in B
      BY <3>2, <3>3 DEF SepsIn
    <3>. QED BY <3>2, <3>4
  <2>. HIDE DEF B, D, n
  <2>3. \A i, j \in B : i + n = j + n => i = j
    BY <1>1, <2>1
  <2>4. f \in [B -> D] /\ \A i \in B : f[i] = i + n
    BY <2>1
  <2>. HIDE DEF f
  <2>. QED BY <2>2, <2>3, <2>4 DEF Bijection, Injection, Surjection, IsInjective
<1>5. IsFiniteSet(A) /\ IsFiniteSet(B) /\ IsFiniteSet(C)
  BY <1>1, SepsFinite
<1>6. IsFiniteSet(D) /\ Cardinality(D) = Cardinality(B)
  <2>1. ExistsBijection(B, D)
    <3>. HIDE DEF f, B, D
    <3>. QED BY <1>4 DEF ExistsBijection
  <2>. HIDE DEF B, D
  <2>. QED BY <1>5, <2>1, FS_Bijection
<1>7. Cardinality(A \cup D) = Cardinality(A) + Cardinality(D) - Cardinality(A \cap D)
  <2>. HIDE DEF A, D
  <2>. QED BY <1>5, <1>6, FS_Union
<1>8. Cardinality(A \cap D) = 0
  BY <1>3, FS_EmptySet
<1>9. Cardinality(A) \in Nat /\ Cardinality(B) \in Nat
  BY SepsFinite
<1>. HIDE DEF A, B, C, D
<1>10. Cardinality(C) = Cardinality(A) + Cardinality(B)
  <2>. DEFINE a == Cardinality(A)  b == Cardinality(B)
  <2>1. Cardinality(C) = a + b - 0
    BY <1>3, <1>6, <1>7, <1>8, Zenon
  <2>2. a \in Nat /\ b \in Nat
    BY <1>9
  <2>. HIDE DEF a, b
  <2>. QED BY <2>1, <2>2 DEF a, b
<1>. QED BY <1>10 DEF A, B, C

LEMMA NoSepsIn ==
  ASSUME NEW s \in Seq(Int), \A i \in 1 .. Len(s) : s[i] # PrintInt!Separator
  PROVE  Cardinality(SepsIn(s)) = 0
<1>1. SepsIn(s) = {}
  BY DEF SepsIn
<1>. QED BY <1>1, FS_EmptySet
LEMMA NoSepsInNothing == Cardinality(SepsIn(<<>>)) = 0
<1>1. SepsIn(<<>>) = {}
  BY DEF SepsIn
<1>. QED BY <1>1, FS_EmptySet

LEMMA SepsInTimes ==
  ASSUME NEW n \in Nat, NEW x \in Int, x # PrintInt!Separator
  PROVE  Cardinality(SepsIn(PrintInt!Times(n, x))) = 0
<1>1. PrintInt!Times(n, x) \in Seq(Int) /\ Len(PrintInt!Times(n, x)) = n
  BY TimesSeq
<1>2. \A i \in 1 .. n : PrintInt!Times(n, x)[i] = x
  BY DEF PrintInt!Times
<1>. QED BY <1>1, <1>2, NoSepsIn

(* The digits and the separators among them.                               *)
LEMMA SepsInDigits ==
  ASSUME NEW F, NEW gaps, NEW n, Laid(F, gaps, n)
  PROVE  Len(F[n]) = n + Cardinality(SepsIn(F[n]))
<1>. DEFINE P(k) == Len(F[k]) = k + Cardinality(SepsIn(F[k]))
            S == {k \in Nat : k <= n => P(k)}
<1>1. n \in Nat /\ F[0] = <<>>
  BY DEF Laid
<1>2. 0 \in S
  <2>1. <<>> \in Seq(Int) /\ Len(<<>>) = 0
    OBVIOUS
  <2>2. Cardinality(SepsIn(<<>>)) = 0
    BY NoSepsInNothing
  <2>3. 0 = 0 + Cardinality(SepsIn(<<>>))
    BY <2>2
  <2>. QED BY <1>1, <2>1, <2>3
<1>3. ASSUME NEW k \in Nat, k \in S PROVE k + 1 \in S
  <2>. SUFFICES ASSUME k + 1 <= n PROVE P(k + 1)
    OBVIOUS
  <2>1. k \in 0 .. n /\ k + 1 \in 1 .. n /\ (k + 1) - 1 = k /\ k <= n
    BY <1>1
  <2>. DEFINE r == F[k]  sep == IF k + 1 \in gaps THEN <<PrintInt!Separator>> ELSE <<>>
              d == <<k + 1>>
  <2>2. F[k + 1] = (r \o sep) \o d /\ r \in Seq(Int)
    <3>1. F[k + 1] = Ahead(F, gaps, k + 1) \o <<k + 1>> /\ F[k] \in Seq(Int)
      BY <2>1 DEF Laid
    <3>2. Ahead(F, gaps, k + 1) = r \o sep
      BY <2>1 DEF Ahead
    <3>. QED BY <3>1, <3>2
  <2>3. sep \in Seq(Int) /\ Len(sep) = Cardinality(SepsIn(sep)) /\ Len(sep) \in Nat
    <3>1. PrintInt!Separator \in Int
      BY DEF PrintInt!Separator
    <3>2. CASE k + 1 \in gaps
      <4>. DEFINE one == <<PrintInt!Separator>>
      <4>1. one \in Seq(Int) /\ Len(one) = 1 /\ one[1] = PrintInt!Separator
        BY <3>1
      <4>2. SepsIn(one) = {1}
        <5>. HIDE DEF one
        <5>. QED BY <4>1 DEF SepsIn
      <4>3. Cardinality(SepsIn(one)) = 1
        BY <4>2, FS_Singleton
      <4>4. sep = one
        BY <3>2
      <4>. HIDE DEF one, sep
      <4>. QED BY <4>1, <4>3, <4>4
    <3>3. CASE k + 1 \notin gaps
      <4>1. <<>> \in Seq(Int) /\ Len(<<>>) = 0
        OBVIOUS
      <4>2. Cardinality(SepsIn(<<>>)) = 0
        BY NoSepsInNothing
      <4>3. sep = <<>>
        BY <3>3
      <4>. HIDE DEF sep
      <4>. QED BY <4>1, <4>2, <4>3
    <3>. QED BY <3>2, <3>3
  <2>4. d \in Seq(Int) /\ Len(d) = 1 /\ Cardinality(SepsIn(d)) = 0
    <3>1. d \in Seq(Int) /\ Len(d) = 1 /\ d[1] = k + 1
      OBVIOUS
    <3>2. k + 1 # PrintInt!Separator
      BY DEF PrintInt!Separator
    <3>3. \A i \in 1 .. Len(d) : d[i] # PrintInt!Separator
      <4>. HIDE DEF d
      <4>1. \A i \in 1 .. Len(d) : i = 1
        BY <3>1
      <4>. QED BY <3>1, <3>2, <4>1
    <3>. HIDE DEF d
    <3>. QED BY <3>1, <3>3, NoSepsIn
  <2>5. P(k)
    BY <1>3, <2>1
  <2>6. Cardinality(SepsIn(r)) \in Nat
    BY <2>2, SepsFinite
  <2>. HIDE DEF sep, d
  <2>7. r \o sep \in Seq(Int) /\ Len(r \o sep) = Len(r) + Len(sep)
        /\ Len((r \o sep) \o d) = Len(r) + Len(sep) + Len(d)
    <3>. HIDE DEF r
    <3>. DEFINE rs == r \o sep
    <3>1. rs \in Seq(Int) /\ Len(rs) = Len(r) + Len(sep)
      BY <2>2, <2>3, LengthJoined
    <3>. HIDE DEF rs
    <3>2. Len(rs \o d) = Len(rs) + Len(d)
      BY <2>4, <3>1, LengthJoined
    <3>. QED BY <3>1, <3>2 DEF rs
  <2>8. Cardinality(SepsIn(r \o sep)) = Cardinality(SepsIn(r)) + Cardinality(SepsIn(sep))
        /\ Cardinality(SepsIn((r \o sep) \o d))
              = Cardinality(SepsIn(r \o sep)) + Cardinality(SepsIn(d))
    <3>. HIDE DEF r
    <3>. QED BY <2>2, <2>3, <2>4, <2>7, SepsJoined
  <2>. DEFINE x == Cardinality(SepsIn(r))  y == Len(sep)  z == Len(r)
  <2>9. Len(F[k + 1]) = z + y + 1 /\ Cardinality(SepsIn(F[k + 1])) = x + y + 0 /\ z = k + x
    BY <2>2, <2>3, <2>4, <2>5, <2>7, <2>8
  <2>10. x \in Nat /\ y \in Nat
    BY <2>3, <2>6
  <2>. HIDE DEF x, y, z
  <2>. QED BY <2>9, <2>10
<1>. HIDE DEF S
<1>4. n \in S
  <2>1. \A k \in Nat : k \in S
    BY <1>2, <1>3, Induct
  <2>. QED BY <1>1, <2>1
<1>. QED BY <1>1, <1>4 DEF S

(* How long the digits are, and how many separators are among them.        *)
LEMMA GroupedCounts ==
  ASSUME NEW a \in Args
  PROVE  /\ Len(PrintInt!Grouped(a)) = a.digits + Len(TextGroups(a)) - 1
         /\ Cardinality(SepsIn(PrintInt!Grouped(a))) = Len(TextGroups(a)) - 1
         /\ Len(TextGroups(a)) \in Nat \ {0} /\ a.digits \in Nat
<1>. DEFINE F == FirstDigits(a)  n == a.digits  s == TextGroups(a)  g == PrintInt!Grouped(a)
<1>1. Grid(s, LeftOf(a), F, n) /\ g = F[n]
  BY TheGrid DEF ArgGrid
<1>2. Len(F[n]) = n + Len(s) - 1
  BY <1>1, LengthOfGroups
<1>3. Laid(F, Gaps(s, LeftOf(a)), n)
  BY <1>1 DEF Grid
<1>4. Len(F[n]) = n + Cardinality(SepsIn(F[n]))
  BY <1>3, SepsInDigits
<1>5. Len(s) \in Nat /\ Len(s) >= 1 /\ n \in Nat
  BY <1>1, GridFacts
<1>6. g \in Seq(Int)
  BY PartsSeq
<1>7. Cardinality(SepsIn(g)) \in Nat
  BY <1>6, SepsFinite
<1>. DEFINE c == Cardinality(SepsIn(g))  l == Len(s)
<1>8. Len(g) = n + l - 1 /\ Len(g) = n + c
  BY <1>1, <1>2, <1>4
<1>. HIDE DEF F, s, g, c, l, n
<1>9. c = l - 1
  BY <1>5, <1>7, <1>8 DEF c, l
<1>. QED BY <1>5, <1>8, <1>9 DEF s, g, c, l, n

-----------------------------------------------------------------------------
(* The characters and the separators of the whole text, added up from its  *)
(* pieces.                                                                 *)
Counts(s, long, seps) ==
  s \in Seq(Int) /\ Len(s) = long /\ Cardinality(SepsIn(s)) = seps

LEMMA CountsJoined ==
  ASSUME NEW s, NEW t, NEW l \in Nat, NEW m \in Nat, NEW c \in Nat, NEW d \in Nat,
         Counts(s, l, c), Counts(t, m, d)
  PROVE  Counts(s \o t, l + m, c + d)
<1>1. s \in Seq(Int) /\ Len(s) = l /\ t \in Seq(Int) /\ Len(t) = m
  BY DEF Counts
<1>2. s \o t \in Seq(Int) /\ Len(s \o t) = l + m
  BY <1>1, LengthJoined
<1>3. Cardinality(SepsIn(s \o t)) = Cardinality(SepsIn(s)) + Cardinality(SepsIn(t))
  BY <1>1, SepsJoined
<1>4. Cardinality(SepsIn(s)) = c /\ Cardinality(SepsIn(t)) = d
  BY DEF Counts
<1>. QED BY <1>2, <1>3, <1>4 DEF Counts

LEMMA TimesCounts ==
  ASSUME NEW n \in Nat, NEW x \in Int, x # PrintInt!Separator
  PROVE  Counts(PrintInt!Times(n, x), n, 0)
BY TimesSeq, SepsInTimes DEF Counts

(* What is filled: the prefix, the zeros, the digits and the separators.   *)
ContentLength(a) == a.prefix + Padding(a) + a.digits + (Len(TextGroups(a)) - 1)

LEMMA ContentCounts ==
  ASSUME NEW a \in Args
  PROVE  LET seps == Len(TextGroups(a)) - 1 IN
         /\ Counts(PrintInt!Sign(a), a.prefix, 0)
         /\ Counts(PrintInt!Number(a), Padding(a) + (a.digits + seps), seps)
         /\ a.prefix \in Nat /\ Padding(a) \in Nat /\ a.digits \in Nat /\ seps \in Nat
         /\ \A k \in Nat : Counts(PrintInt!Filled(k), k, 0)
<1>. DEFINE seps == Len(TextGroups(a)) - 1  G == PrintInt!Grouped(a)
            Z == PrintInt!Times(Padding(a), PrintInt!Zero)
<1>1. a.prefix \in Nat /\ Padding(a) \in Nat /\ a.digits \in Nat /\ seps \in Nat
  <2>1. a.prefix \in 0 .. 2
    BY ArgFacts
  <2>2. Padding(a) \in Nat
    BY PartsSeq
  <2>3. a.digits \in Nat /\ Len(TextGroups(a)) \in Nat \ {0}
    BY GroupedCounts
  <2>. QED BY <2>1, <2>2, <2>3
<1>2. Counts(PrintInt!Sign(a), a.prefix, 0)
  <2>1. PrintInt!Prefix \in Int /\ PrintInt!Prefix # PrintInt!Separator
    BY DEF PrintInt!Prefix, PrintInt!Separator
  <2>. QED BY <1>1, <2>1, TimesCounts DEF PrintInt!Sign
<1>3. Counts(Z, Padding(a), 0)
  <2>1. PrintInt!Zero \in Int /\ PrintInt!Zero # PrintInt!Separator
    BY DEF PrintInt!Zero, PrintInt!Separator
  <2>. QED BY <1>1, <2>1, TimesCounts
<1>4. Counts(G, a.digits + seps, seps)
  <2>1. G \in Seq(Int) /\ Cardinality(SepsIn(G)) = seps
    BY PartsSeq, GroupedCounts
  <2>2. Len(G) = a.digits + seps
    BY <1>1, GroupedCounts
  <2>. HIDE DEF G, seps
  <2>. QED BY <2>1, <2>2 DEF Counts
<1>5. PrintInt!Number(a) = Z \o G
  BY PartsSeq
<1>6. Counts(Z \o G, Padding(a) + (a.digits + seps), 0 + seps)
  <2>1. a.digits + seps \in Nat
    BY <1>1
  <2>. HIDE DEF Z, G, seps
  <2>. QED BY <1>1, <1>3, <1>4, <2>1, CountsJoined
<1>7. \A k \in Nat : Counts(PrintInt!Filled(k), k, 0)
  <2>1. PrintInt!FillChar \in Int /\ PrintInt!FillChar # PrintInt!Separator
    BY DEF PrintInt!FillChar, PrintInt!Separator
  <2>. QED BY <2>1, TimesCounts DEF PrintInt!Filled
<1>8. 0 + seps = seps
  BY <1>1
<1>. HIDE DEF seps
<1>. QED BY <1>1, <1>2, <1>5, <1>6, <1>7, <1>8 DEF seps

LEMMA WholeTextCounts ==
  ASSUME NEW a \in Args
  PROVE  /\ Counts(WholeText(a), PrintInt!FillCount(a) + ContentLength(a), Len(TextGroups(a)) - 1)
         /\ PrintInt!FillCount(a) \in Nat /\ ContentLength(a) \in Nat
<1>. DEFINE n == PrintInt!FillCount(a)  S == PrintInt!Sign(a)  N == PrintInt!Number(a)
            f == PrintInt!Filled(n)  g == PrintInt!Filled(n \div 2)
            h == PrintInt!Filled(n - n \div 2)
            c == Len(TextGroups(a)) - 1  p == a.prefix  l == Padding(a) + (a.digits + c)
            x == n \div 2  y == n - n \div 2
<1>1. n \in Nat /\ x \in Nat /\ y \in Nat
  BY FillFacts
<1>2. Counts(S, p, 0) /\ Counts(N, l, c) /\ p \in Nat /\ l \in Nat /\ c \in Nat
  BY ContentCounts
<1>3. Counts(f, n, 0) /\ Counts(g, x, 0) /\ Counts(h, y, 0)
  BY <1>1, ContentCounts
<1>4. x + y = n
  <2>. HIDE DEF n
  <2>. QED BY <1>1
<1>5. ContentLength(a) = p + l
  BY ContentCounts DEF ContentLength
<1>6. a.align \in {"left", "right", "split", "center"}
  BY DEF Args, PrintInt!Plain, PrintInt!Punct, PrintInt!Formatted
<1>7. \/ WholeText(a) = (S \o N) \o f \/ WholeText(a) = (f \o S) \o N
      \/ WholeText(a) = (S \o f) \o N \/ WholeText(a) = ((g \o S) \o N) \o h
  BY <1>6, FilledTexts
<1>. HIDE DEF n, S, N, f, g, h, c, p, l, x, y
<1>8. Counts((S \o N) \o f, n + (p + l), c)
  <2>1. Counts(S \o N, p + l, 0 + c) /\ p + l \in Nat /\ 0 + c = c
    BY <1>2, CountsJoined
  <2>2. Counts((S \o N) \o f, (p + l) + n, c + 0)
    BY <1>1, <1>2, <1>3, <2>1, CountsJoined
  <2>3. (p + l) + n = n + (p + l) /\ c + 0 = c
    BY <1>1, <1>2
  <2>. QED BY <2>2, <2>3
<1>9. Counts((f \o S) \o N, n + (p + l), c)
  <2>1. Counts(f \o S, n + p, 0 + 0) /\ n + p \in Nat /\ 0 + 0 = 0
    BY <1>1, <1>2, <1>3, CountsJoined
  <2>2. Counts((f \o S) \o N, (n + p) + l, 0 + c)
    BY <1>2, <2>1, CountsJoined
  <2>3. (n + p) + l = n + (p + l) /\ 0 + c = c
    BY <1>1, <1>2
  <2>. QED BY <2>2, <2>3
<1>10. Counts((S \o f) \o N, n + (p + l), c)
  <2>1. Counts(S \o f, p + n, 0 + 0) /\ p + n \in Nat /\ 0 + 0 = 0
    BY <1>1, <1>2, <1>3, CountsJoined
  <2>2. Counts((S \o f) \o N, (p + n) + l, 0 + c)
    BY <1>2, <2>1, CountsJoined
  <2>3. (p + n) + l = n + (p + l) /\ 0 + c = c
    BY <1>1, <1>2
  <2>. QED BY <2>2, <2>3
<1>11. Counts(((g \o S) \o N) \o h, n + (p + l), c)
  <2>1. Counts(g \o S, x + p, 0 + 0) /\ x + p \in Nat /\ 0 + 0 = 0
    BY <1>1, <1>2, <1>3, CountsJoined
  <2>2. Counts((g \o S) \o N, (x + p) + l, 0 + c) /\ (x + p) + l \in Nat /\ 0 + c = c
    BY <1>2, <2>1, CountsJoined
  <2>3. Counts(((g \o S) \o N) \o h, ((x + p) + l) + y, c + 0)
    BY <1>1, <1>2, <1>3, <2>2, CountsJoined
  <2>4. ((x + p) + l) + y = n + (p + l) /\ c + 0 = c
    BY <1>1, <1>2, <1>4
  <2>. QED BY <2>3, <2>4
<1>12. Counts(WholeText(a), n + (p + l), c)
  BY <1>7, <1>8, <1>9, <1>10, <1>11
<1>13. p + l \in Nat
  BY <1>2
<1>. QED BY <1>1, <1>5, <1>12, <1>13 DEF n, c

(* How the counts agree with what the constructor announces, and with the  *)
(* width of the content.                                                   *)
LEMMA Announced ==
  ASSUME NEW a \in Args, PrintInt!DigCount(a) = a.digits
  PROVE  /\ PrintInt!Larger(a.precision, a.digits) = Padding(a) + a.digits
         /\ a.sep # 0 => PrintInt!SepCount(a) = Len(TextGroups(a)) - 1
         /\ a.sep = 0 => Len(TextGroups(a)) - 1 = 0
         /\ PrintInt!SepCount(a) \in Nat
<1>1. a.precision \in Nat /\ a.digits \in Nat
  BY ArgFacts
<1>2. PrintInt!Larger(a.precision, a.digits) = Padding(a) + a.digits
  BY <1>1 DEF PrintInt!Larger, Padding
<1>3. /\ a.sep # 0 => PrintInt!SepCount(a) = Len(TextGroups(a)) - 1
      /\ PrintInt!SepCount(a) \in Nat
  BY CountedGroups
<1>4. a.sep = 0 => Len(TextGroups(a)) - 1 = 0
  <2>1. a.sep = 0 => Len(TextGroups(a)) = 1
    BY CountedGroups
  <2>. QED BY <2>1
<1>. QED BY <1>2, <1>3, <1>4

LEMMA SeparatorsCounted ==
  ASSUME NEW s
  PROVE  PrintInt!Separators(s) = Cardinality(SepsIn(s))
<1>1. PrintInt!Separators(s) = PrintInt!Cardinality(SepsIn(s))
  BY DEF PrintInt!Separators, SepsIn
<1>2. PrintInt!Cardinality(SepsIn(s)) = Cardinality(SepsIn(s))
  BY DEF PrintInt!Cardinality, Cardinality, PrintInt!IsFiniteSet, IsFiniteSet
<1>. QED BY <1>1, <1>2

LEMMA ExactPreview ==
  ASSUME NEW a \in Args, PrintInt!DigCount(a) = a.digits
  PROVE  Len(WholeText(a)) + PrintInt!Separators(WholeText(a)) * (a.sep - 1)
           = PrintInt!PreviewSize(a)
<1>. DEFINE w == WholeText(a)  c == Len(TextGroups(a)) - 1  n == PrintInt!FillCount(a)
            p == a.prefix  z == Padding(a)  d == a.digits  e == a.sep
            l == PrintInt!Larger(a.precision, a.digits)  k == PrintInt!SepCount(a)
<1>1. Counts(w, n + ContentLength(a), c) /\ n \in Nat
  BY WholeTextCounts
<1>2. ContentLength(a) = p + z + d + c
  BY DEF ContentLength
<1>3. PrintInt!Separators(w) = c /\ Len(w) = n + (p + z + d + c)
  BY <1>1, <1>2, SeparatorsCounted DEF Counts
<1>4. p \in Nat /\ z \in Nat /\ d \in Nat /\ c \in Nat
  BY ContentCounts
<1>5. e \in Nat
  BY ArgFacts
<1>6. PrintInt!PreviewSize(a) = l + p + k * e + n
  BY DEF PrintInt!PreviewSize
<1>7. l = z + d /\ (e # 0 => k = c) /\ (e = 0 => c = 0) /\ k \in Nat
  BY Announced
<1>. HIDE DEF w, c, n, p, z, d, e, l, k
<1>8. n + (p + z + d + c) + c * (e - 1) = l + p + k * e + n
  <2>1. CASE e = 0
    <3>1. k * 0 = 0 /\ 0 * (0 - 1) = 0
      BY <1>7
    <3>. QED BY <1>1, <1>4, <1>7, <2>1, <3>1
  <2>2. CASE e # 0
    <3>1. c * (e - 1) = c * e - c /\ c * e \in Nat
      BY <1>4, <1>5
    <3>2. k = c
      BY <1>7, <2>2
    <3>. DEFINE ce == c * e  m == c * (e - 1)
    <3>3. m = ce - c /\ ce \in Nat /\ k * e = ce
      BY <3>1, <3>2
    <3>. HIDE DEF ce, m
    <3>4. n + (p + z + d + c) + m = l + p + ce + n
      BY <1>1, <1>4, <1>7, <3>3
    <3>. QED BY <3>3, <3>4 DEF m
  <2>. QED BY <2>1, <2>2
<1>9. Len(w) + PrintInt!Separators(w) * (e - 1) = PrintInt!PreviewSize(a)
  BY <1>3, <1>6, <1>8, Zenon
<1>. QED BY <1>9 DEF w, e

(* As long as the content is narrow enough, its width is computed right.   *)
LEMMA Narrow ==
  ASSUME NEW n \in Nat, n < Int16, Int16 \in Nat \ {0}
  PROVE  PrintInt!ToInt16(n) = n
<1>. DEFINE m == 2 * Int16  x == n + Int16
<1>1. m \in Nat \ {0} /\ x \in Nat /\ x < m
  OBVIOUS
<1>2. x % m = x
  <2>. HIDE DEF m, x
  <2>. QED BY <1>1
<1>3. x - Int16 = n
  OBVIOUS
<1>. QED BY <1>2, <1>3 DEF PrintInt!ToInt16

LEMMA FilledToWidth ==
  ASSUME NEW a \in Args, PrintInt!DigCount(a) = a.digits, a.sep # 0, ContentLength(a) < Int16
  PROVE  PrintInt!FillCount(a) + ContentLength(a) = PrintInt!Larger(a.width, ContentLength(a))
<1>. DEFINE l == ContentLength(a)  w == a.width  n == PrintInt!FillCount(a)
<1>1. PrintInt!Larger(a.precision, PrintInt!DigCount(a)) + a.prefix + PrintInt!SepCount(a) = l
  <2>. DEFINE c == Len(TextGroups(a)) - 1  p == a.prefix  z == Padding(a)  d == a.digits
              m == PrintInt!Larger(a.precision, a.digits)
  <2>1. p \in Nat /\ z \in Nat /\ d \in Nat /\ c \in Nat
    BY ContentCounts
  <2>2. l = p + z + d + c
    BY DEF ContentLength
  <2>3. m = z + d /\ PrintInt!SepCount(a) = c
    BY Announced
  <2>4. PrintInt!Larger(a.precision, PrintInt!DigCount(a)) = m
    OBVIOUS
  <2>. HIDE DEF c, p, z, d, m, l
  <2>5. m + p + c = l
    BY <2>1, <2>2, <2>3
  <2>. QED BY <2>3, <2>4, <2>5 DEF p
<1>2. l \in Nat
  BY WholeTextCounts
<1>3. PrintInt!ContentWidth(a) = l
  <2>1. PrintInt!ContentWidth(a)
          = PrintInt!ToInt16(PrintInt!Larger(a.precision, PrintInt!DigCount(a)) + a.prefix
                               + PrintInt!SepCount(a))
    BY DEF PrintInt!ContentWidth
  <2>2. PrintInt!ToInt16(l) = l
    <3>. HIDE DEF l
    <3>1. l < Int16
      BY DEF l
    <3>. QED BY <1>2, <3>1, Narrow, IntAssumption DEF PrintInt!IntPrinterAssumption
  <2>. QED BY <1>1, <2>1, <2>2
<1>4. w \in Nat /\ (a.printer # "format" => w = 0)
  BY ArgFacts, UnformattedFacts
<1>5. n = IF a.printer = "format" /\ w > l THEN w - l ELSE 0
  BY <1>3 DEF PrintInt!FillCount
<1>. HIDE DEF l, w, n
<1>6. n + l = IF w > l THEN w ELSE l
  BY <1>2, <1>4, <1>5
<1>. QED BY <1>6 DEF PrintInt!Larger, l, w, n

-----------------------------------------------------------------------------
LEMMA TextIsRight ==
  ASSUME IntInv, IntTextInv, PrintInt!DigCount(arg) = arg.digits
  PROVE  PrintInt!TextRight
<1>. SUFFICES ASSUME PrintInt!Printed
              PROVE  \E n \in 0 .. Len(out) :
                       out = CASE arg.align = "left" ->
                                    PrintInt!Sign(arg) \o PrintInt!Number(arg) \o PrintInt!Filled(n)
                               [] arg.align = "right" ->
                                    PrintInt!Filled(n) \o PrintInt!Sign(arg) \o PrintInt!Number(arg)
                               [] arg.align = "split" ->
                                    PrintInt!Sign(arg) \o PrintInt!Filled(n) \o PrintInt!Number(arg)
                               [] arg.align = "center" ->
                                    PrintInt!Filled(n \div 2) \o PrintInt!Sign(arg)
                                      \o PrintInt!Number(arg) \o PrintInt!Filled(n - n \div 2)
  BY DEF PrintInt!TextRight
<1>. DEFINE n == PrintInt!FillCount(arg)  l == ContentLength(arg)
<1>1. arg \in Args /\ out = WholeText(arg)
  BY IntTextWritten DEF IntInv
<1>2. Len(out) = n + l /\ n \in Nat /\ l \in Nat
  BY <1>1, WholeTextCounts DEF Counts
<1>3. n \in 0 .. Len(out)
  <2>. HIDE DEF n, l
  <2>. QED BY <1>2
<1>. QED BY <1>1, <1>3 DEF WholeText

LEMMA PreviewIsExact ==
  ASSUME IntInv, IntTextInv, PrintInt!DigCount(arg) = arg.digits
  PROVE  PrintInt!PreviewExact
<1>. SUFFICES ASSUME PrintInt!Printed PROVE PrintInt!Written = PrintInt!PreviewSize(arg)
  BY DEF PrintInt!PreviewExact
<1>1. arg \in Args /\ out = WholeText(arg)
  BY IntTextWritten DEF IntInv
<1>2. PrintInt!Written = Len(out) + PrintInt!Separators(out) * (arg.sep - 1)
  BY DEF PrintInt!Written
<1>. QED BY <1>1, <1>2, ExactPreview

LEMMA WidthIsFilled ==
  ASSUME IntInv, IntTextInv, PrintInt!DigCount(arg) = arg.digits
  PROVE  PrintInt!AlignedToWidth
<1>. DEFINE m == Len(PrintInt!Sign(arg) \o PrintInt!Number(arg))
<1>. SUFFICES ASSUME PrintInt!Printed, arg.sep # 0, m < Int16
              PROVE  Len(out) = PrintInt!Larger(arg.width, m)
  BY DEF PrintInt!AlignedToWidth
<1>1. arg \in Args /\ out = WholeText(arg)
  BY IntTextWritten DEF IntInv
<1>2. Len(out) = PrintInt!FillCount(arg) + ContentLength(arg)
  BY <1>1, WholeTextCounts DEF Counts
<1>3. m = ContentLength(arg)
  <2>. DEFINE S == PrintInt!Sign(arg)  N == PrintInt!Number(arg)  c == Len(TextGroups(arg)) - 1
              p == arg.prefix  z == Padding(arg)  d == arg.digits
  <2>1. /\ Counts(S, p, 0) /\ Counts(N, z + (d + c), c)
        /\ p \in Nat /\ z \in Nat /\ d \in Nat /\ c \in Nat
    BY <1>1, ContentCounts
  <2>2. m = Len(S \o N)
    OBVIOUS
  <2>3. ContentLength(arg) = p + z + d + c
    BY DEF ContentLength
  <2>. HIDE DEF S, N, c, p, z, d, m
  <2>4. Len(S \o N) = p + (z + (d + c))
    BY <2>1, LengthJoined DEF Counts
  <2>5. p + (z + (d + c)) = p + z + d + c
    BY <2>1
  <2>. QED BY <2>2, <2>3, <2>4, <2>5
<1>4. ContentLength(arg) < Int16
  BY <1>3
<1>. HIDE DEF m
<1>. QED BY <1>1, <1>2, <1>3, <1>4, FilledToWidth

-----------------------------------------------------------------------------
(* What has been written, and what print_to has still to call.             *)
IntTextInvariant == type = "int" => IntTextInv

(* Together with what is still to be written it is always the whole text.  *)
THEOREM IntTextInvariance == Spec => []IntTextInvariant
<1>1. Init => IntTextInvariant
  BY IntTextStarts DEF Init, IntTextInvariant
<1>2. IntInvariant /\ IntTextInvariant /\ [Next]_vars => IntTextInvariant'
  <2>. SUFFICES ASSUME IntInvariant, IntTextInvariant, [Next]_vars PROVE IntTextInvariant'
    OBVIOUS
  <2>1. CASE type = "int" /\ [PrintInt!Next]_(PrintInt!vars) /\ type' = type
    BY <2>1, IntTextStep DEF IntInvariant, IntTextInvariant
  <2>2. CASE type # "int" /\ type' = type
    BY <2>2 DEF IntTextInvariant
  <2>. QED BY <2>1, <2>2 DEF IntInvariant, Next, vars, ofInt, PrintInt!vars
<1>. QED BY <1>1, <1>2, IntInvariance, PTL DEF Spec

(* Unless std::countl_zero counts the digits, they are counted right.      *)
LEMMA CountedRight ==
  ASSUME LibBitops = FALSE, NEW a
  PROVE  PrintInt!DigCount(a) = a.digits
BY DEF PrintInt!DigCount

(* The text that the printers of integers write is the number, grouped as  *)
(* the numpunct facet says, with its prefix and its zeros, and with as many*)
(* fill characters, where the alignment wants them, as the width asks for: *)
(* whichever loop writes it and wherever recycle() interrupts it.  And the *)
(* constructor has announced its size exactly.  All of this depends on the *)
(* digits being counted right.                                             *)
THEOREM IntTextsOnceCounted ==
  Spec => [](type = "int" /\ PrintInt!DigCount(arg) = arg.digits =>
               PrintInt!TextRight /\ PrintInt!AlignedToWidth /\ PrintInt!PreviewExact)
<1>. DEFINE Right == type = "int" /\ PrintInt!DigCount(arg) = arg.digits =>
                       PrintInt!TextRight /\ PrintInt!AlignedToWidth /\ PrintInt!PreviewExact
<1>1. IntInvariant /\ IntTextInvariant => Right
  BY TextIsRight, WidthIsFilled, PreviewIsExact DEF IntInvariant, IntTextInvariant
<1>. HIDE DEF Right
<1>2. Spec => []Right
  BY <1>1, IntInvariance, IntTextInvariance, PTL
<1>. QED BY <1>2 DEF Right

(* The text of every integer is right, and as wide as its format asks for, *)
(* where count_digits counts the digits one by one.                        *)
THEOREM IntTextIsRight ==
  ASSUME LibBitops = FALSE
  PROVE  Spec => []IntTextRight
<1>1. IntInvariant /\ IntTextInvariant => IntTextRight
  <2>. SUFFICES ASSUME IntInv, IntTextInv PROVE PrintInt!TextRight /\ PrintInt!AlignedToWidth
    BY DEF IntInvariant, IntTextInvariant, IntTextRight
  <2>1. PrintInt!DigCount(arg) = arg.digits
    BY CountedRight
  <2>. QED BY <2>1, TextIsRight, WidthIsFilled
<1>. QED BY <1>1, IntInvariance, IntTextInvariance, PTL

(* There the constructors announce exactly the size of that text.          *)
THEOREM IntPreviewIsExact ==
  ASSUME LibBitops = FALSE
  PROVE  Spec => []IntPreviewExact
<1>1. IntInvariant /\ IntTextInvariant => IntPreviewExact
  <2>. SUFFICES ASSUME IntInv, IntTextInv PROVE PrintInt!PreviewExact
    BY DEF IntInvariant, IntTextInvariant, IntPreviewExact
  <2>1. PrintInt!DigCount(arg) = arg.digits
    BY CountedRight
  <2>. QED BY <2>1, PreviewIsExact
<1>. QED BY <1>1, IntInvariance, IntTextInvariance, PTL

-----------------------------------------------------------------------------
(* Recursion over all natural numbers: the functions up to each number     *)
(* exist, agree, and together are the one wanted.                          *)
LEMMA RecursionOnNat ==
  ASSUME NEW Stop, NEW nx \in [Nat -> Nat], \A k \in Nat : k \notin Stop => nx[k] < k,
         NEW b, NEW z, NEW how
  PROVE  Recursive(Nat, Stop, nx, b, z, how)
<1>. DEFINE V(f, x) == IF x \in Stop THEN b[x] ELSE Onto(how, z[x], f[nx[x]])
            Upto(n, f) == f = [x \in 0 .. n |-> V(f, x)]
            G(n) == CHOOSE f : Upto(n, f)
            F == [x \in Nat |-> G(x)[x]]
<1>1. ASSUME NEW n \in Nat PROVE Upto(n, G(n))
  <2>. DEFINE D == 0 .. n
              low == [x \in D |-> IF x \in Stop THEN x ELSE nx[x]]
              rank == [x \in D |-> x]
  <2>1. Descends(D, Stop, low, rank, n)
    <3>1. \A x \in D : low[x] \in D
      OBVIOUS
    <3>2. low \in [D -> D] /\ rank \in [D -> Nat] /\ \A x \in D : rank[x] <= n
      BY <3>1
    <3>3. \A x \in D : x \notin Stop => rank[low[x]] < rank[x]
      BY <3>1
    <3>. QED BY <3>2, <3>3 DEF Descends
  <2>2. PICK f : f = [x \in D |-> IF x \in Stop THEN b[x] ELSE Onto(how, z[x], f[low[x]])]
    <3>. HIDE DEF D, low, rank
    <3>1. Recursive(D, Stop, low, b, z, how)
      BY <2>1, RecursionExists, Zenon
    <3>. QED BY <3>1, Zenon DEF Recursive
  <2>3. \A x \in D : x \notin Stop => low[x] = nx[x]
    OBVIOUS
  <2>. HIDE DEF low
  <2>4. [x \in D |-> IF x \in Stop THEN b[x] ELSE Onto(how, z[x], f[low[x]])] = [x \in D |-> V(f, x)]
    BY <2>3, Zenon
  <2>5. Upto(n, f)
    BY <2>2, <2>4, Zenon
  <2>. HIDE DEF Upto
  <2>. QED BY <2>5, Zenon
<1>2. ASSUME NEW n \in Nat, NEW x \in 0 .. n PROVE G(n)[x] = V(G(n), x)
  <2>. HIDE DEF V, G
  <2>1. G(n) = [y \in 0 .. n |-> V(G(n), y)]
    BY <1>1
  <2>. QED BY <2>1, Zenon
<1>. HIDE DEF Upto, G
<1>3. ASSUME NEW n \in Nat, NEW m \in Nat, n <= m PROVE \A x \in 0 .. n : G(n)[x] = G(m)[x]
  <2>. DEFINE S == {k \in Nat : \A x \in 0 .. n : x < k => G(n)[x] = G(m)[x]}
  <2>1. 0 \in S
    OBVIOUS
  <2>2. ASSUME NEW k \in Nat, k \in S PROVE k + 1 \in S
    <3>1. ASSUME NEW x \in 0 .. n, x < k + 1 PROVE G(n)[x] = G(m)[x]
      <4>1. x \in 0 .. m /\ x \in Nat
        BY <1>3
      <4>2. G(n)[x] = V(G(n), x) /\ G(m)[x] = V(G(m), x)
        <5>. HIDE DEF V
        <5>. QED BY <1>2, <4>1
      <4>3. CASE x \in Stop
        BY <4>2, <4>3, Zenon
      <4>4. CASE x \notin Stop
        <5>1. nx[x] \in 0 .. n /\ nx[x] < k
          BY <3>1, <4>1, <4>4
        <5>2. G(n)[nx[x]] = G(m)[nx[x]]
          BY <2>2, <5>1
        <5>. QED BY <4>2, <5>2, Zenon
      <4>. QED BY <4>3, <4>4
    <3>. QED BY <3>1
  <2>. HIDE DEF S
  <2>3. \A k \in Nat : k \in S
    BY <2>1, <2>2, Induct
  <2>4. n + 1 \in S /\ \A x \in 0 .. n : x < n + 1
    BY <2>3
  <2>. QED BY <2>4 DEF S
<1>4. ASSUME NEW x \in Nat PROVE F[x] = V(F, x)
  <2>1. x \in 0 .. x /\ F[x] = G(x)[x]
    OBVIOUS
  <2>2. F[x] = V(G(x), x)
    <3>. HIDE DEF V, F
    <3>. QED BY <1>2, <2>1
  <2>3. CASE x \in Stop
    <3>. HIDE DEF F
    <3>. QED BY <2>2, <2>3, Zenon
  <2>4. CASE x \notin Stop
    <3>1. nx[x] \in Nat /\ nx[x] <= x /\ nx[x] \in 0 .. nx[x]
      BY <2>4
    <3>2. F[nx[x]] = G(x)[nx[x]]
      BY <1>3, <3>1
    <3>. HIDE DEF F
    <3>. QED BY <2>2, <3>2, Zenon
  <2>. QED BY <2>3, <2>4
<1>5. F = [x \in Nat |-> V(F, x)]
  <2>1. F = [x \in Nat |-> F[x]]
    OBVIOUS
  <2>. HIDE DEF F, V
  <2>. QED BY <1>4, <2>1, Zenon
<1>. HIDE DEF F
<1>. QED BY <1>5, Zenon DEF Recursive

-----------------------------------------------------------------------------
(* Powers.                                                                 *)
LEMMA PowerSteps ==
  ASSUME NEW b
  PROVE  /\ PrintFloat!Power(b, 0) = 1
         /\ \A n \in Nat : PrintFloat!Power(b, n + 1) = b * PrintFloat!Power(b, n)
<1>. DEFINE Stop == {0}  nx == [k \in Nat |-> IF k = 0 THEN 0 ELSE k - 1]
            one == [k \in Nat |-> 1]  z == [k \in Nat |-> b]
            V(f, k) == IF k = 0 THEN 1 ELSE b * f[k - 1]
            P == CHOOSE f : f = [k \in Nat |-> V(f, k)]
<1>1. nx \in [Nat -> Nat] /\ \A k \in Nat : k \notin Stop => nx[k] < k
  OBVIOUS
<1>2. ASSUME NEW f, NEW k \in Nat
      PROVE  V(f, k) = IF k \in Stop THEN one[k] ELSE Onto("times", z[k], f[nx[k]])
  BY DEF Onto
<1>. HIDE DEF Stop, nx, one, z
<1>3. Recursive(Nat, Stop, nx, one, z, "times")
  BY <1>1, RecursionOnNat, Zenon
<1>4. PICK f : f = [k \in Nat |-> V(f, k)]
  <2>. HIDE DEF V
  <2>1. PICK f : f = [k \in Nat |-> IF k \in Stop THEN one[k] ELSE Onto("times", z[k], f[nx[k]])]
    BY <1>3 DEF Recursive
  <2>2. [k \in Nat |-> IF k \in Stop THEN one[k] ELSE Onto("times", z[k], f[nx[k]])]
         = [k \in Nat |-> V(f, k)]
    BY <1>2, Zenon
  <2>. QED BY <2>1, <2>2, Zenon
<1>5. P = [k \in Nat |-> V(P, k)]
  BY <1>4, Zenon
<1>6. \A n : PrintFloat!Power(b, n) = P[n]
  BY Zenon DEF PrintFloat!Power
<1>. HIDE DEF P
<1>7. \A k \in Nat : P[k] = V(P, k)
  <2>. HIDE DEF V
  <2>. QED BY <1>5, Zenon
<1>8. P[0] = 1
  BY <1>7
<1>9. ASSUME NEW n \in Nat PROVE P[n + 1] = b * P[n]
  <2>1. n + 1 \in Nat /\ n + 1 # 0 /\ (n + 1) - 1 = n
    OBVIOUS
  <2>. QED BY <1>7, <2>1
<1>. QED BY <1>6, <1>8, <1>9

Pow(b, n) == PrintFloat!Power(b, n)

LEMMA PowerNat ==
  ASSUME NEW b \in Nat, b # 0
  PROVE  \A n \in Nat : Pow(b, n) \in Nat /\ Pow(b, n) # 0
<1>. DEFINE S == {n \in Nat : Pow(b, n) \in Nat /\ Pow(b, n) # 0}
<1>1. Pow(b, 0) = 1 /\ \A n \in Nat : Pow(b, n + 1) = b * Pow(b, n)
  BY PowerSteps DEF Pow
<1>2. 0 \in S
  BY <1>1
<1>3. ASSUME NEW n \in Nat, n \in S PROVE n + 1 \in S
  <2>1. \A p \in Nat : p # 0 => b * p \in Nat /\ b * p # 0
    OBVIOUS
  <2>. QED BY <1>1, <1>3, <2>1
<1>. HIDE DEF S
<1>4. \A n \in Nat : n \in S
  BY <1>2, <1>3, Induct
<1>. QED BY <1>4 DEF S

LEMMA PowerSum ==
  ASSUME NEW b \in Nat, b # 0, NEW m \in Nat
  PROVE  \A n \in Nat : Pow(b, m + n) = Pow(b, m) * Pow(b, n)
<1>. DEFINE S == {n \in Nat : Pow(b, m + n) = Pow(b, m) * Pow(b, n)}
<1>1. Pow(b, 0) = 1 /\ \A n \in Nat : Pow(b, n + 1) = b * Pow(b, n)
  BY PowerSteps DEF Pow
<1>2. 0 \in S
  BY <1>1, PowerNat
<1>3. ASSUME NEW n \in Nat, n \in S PROVE n + 1 \in S
  <2>1. Pow(b, m + (n + 1)) = b * Pow(b, m + n)
    <3>1. m + (n + 1) = (m + n) + 1 /\ m + n \in Nat
      OBVIOUS
    <3>. QED BY <1>1, <3>1
  <2>2. \A p, q \in Nat : b * (p * q) = p * (b * q)
    OBVIOUS
  <2>3. Pow(b, m) \in Nat /\ Pow(b, n) \in Nat
    BY PowerNat
  <2>4. b * (Pow(b, m) * Pow(b, n)) = Pow(b, m) * (b * Pow(b, n))
    BY <2>2, <2>3
  <2>. QED BY <1>1, <1>3, <2>1, <2>4
<1>. HIDE DEF S
<1>4. \A n \in Nat : n \in S
  BY <1>2, <1>3, Induct
<1>. QED BY <1>4 DEF S

LEMMA PowerProduct ==
  \A n \in Nat : Pow(10, n) = Pow(2, n) * Pow(5, n)
<1>. DEFINE S == {n \in Nat : Pow(10, n) = Pow(2, n) * Pow(5, n)}
<1>1. \A b \in {2, 5, 10} : Pow(b, 0) = 1 /\ \A n \in Nat : Pow(b, n + 1) = b * Pow(b, n)
  BY PowerSteps DEF Pow
<1>2. 0 \in S
  BY <1>1
<1>3. ASSUME NEW n \in Nat, n \in S PROVE n + 1 \in S
  <2>1. Pow(2, n) \in Nat /\ Pow(5, n) \in Nat
    BY PowerNat
  <2>2. \A p, q \in Nat : 10 * (p * q) = (2 * p) * (5 * q)
    OBVIOUS
  <2>3. 10 * (Pow(2, n) * Pow(5, n)) = (2 * Pow(2, n)) * (5 * Pow(5, n))
    BY <2>1, <2>2
  <2>. QED BY <1>1, <1>3, <2>3
<1>. HIDE DEF S
<1>4. \A n \in Nat : n \in S
  BY <1>2, <1>3, Induct
<1>. QED BY <1>4 DEF S

-----------------------------------------------------------------------------
(* Quotients and remainders.                                               *)
LEMMA Quotient ==
  ASSUME NEW n \in Nat, NEW d \in Nat, d # 0
  PROVE  /\ n \div d \in Nat /\ n % d \in Nat /\ n % d < d
         /\ n = d * (n \div d) + (n % d)
OBVIOUS

LEMMA OneQuotient ==
  ASSUME NEW d \in Nat, d # 0, NEW p \in Nat, NEW q \in Nat, NEW r \in Nat, NEW s \in Nat,
         r < d, s < d, d * p + r = d * q + s
  PROVE  p = q /\ r = s
<1>1. ASSUME p < q PROVE FALSE
  <2>1. PICK i \in Nat : q = p + 1 + i
    <3>1. q - p - 1 \in Nat /\ q = p + 1 + (q - p - 1)
      BY <1>1
    <3>. QED BY <3>1
  <2>2. d * q = d * p + d + d * i /\ d * i \in Nat /\ d * p \in Nat
    BY <2>1
  <2>. QED BY <2>2
<1>2. ASSUME q < p PROVE FALSE
  <2>1. PICK i \in Nat : p = q + 1 + i
    <3>1. p - q - 1 \in Nat /\ p = q + 1 + (p - q - 1)
      BY <1>2
    <3>. QED BY <3>1
  <2>2. d * p = d * q + d + d * i /\ d * i \in Nat /\ d * q \in Nat
    BY <2>1
  <2>. QED BY <2>2
<1>3. p = q
  BY <1>1, <1>2
<1>4. d * p \in Nat
  OBVIOUS
<1>. QED BY <1>3, <1>4

LEMMA QuotientIs ==
  ASSUME NEW d \in Nat, d # 0, NEW q \in Nat, NEW r \in Nat, r < d
  PROVE  (d * q + r) \div d = q /\ (d * q + r) % d = r
<1>1. d * q + r \in Nat
  OBVIOUS
<1>. DEFINE n == d * q + r
<1>2. n \div d \in Nat /\ n % d \in Nat /\ n % d < d /\ n = d * (n \div d) + (n % d)
  BY <1>1, Quotient
<1>. QED BY <1>2, OneQuotient

(* Dividing twice.                                                         *)
LEMMA QuotientOfQuotient ==
  ASSUME NEW n \in Nat, NEW c \in Nat, c # 0, NEW d \in Nat, d # 0
  PROVE  c * d \in Nat /\ c * d # 0 /\ n \div (c * d) = (n \div c) \div d
<1>. DEFINE p == n \div c  r == n % c  q == p \div d  s == p % d
<1>1. p \in Nat /\ r \in Nat /\ r < c /\ n = c * p + r
  BY Quotient
<1>2. q \in Nat /\ s \in Nat /\ s < d /\ p = d * q + s
  BY <1>1, Quotient
<1>. HIDE DEF p, q, r, s
<1>3. c * d \in Nat /\ c * d # 0
  OBVIOUS
<1>4. n = (c * d) * q + (c * s + r)
  <2>1. c * (d * q + s) = (c * d) * q + c * s
    BY <1>2
  <2>2. c * s \in Nat /\ (c * d) * q \in Nat
    BY <1>2, <1>3
  <2>. QED BY <1>1, <1>2, <2>1, <2>2
<1>5. c * s + r \in Nat /\ c * s + r < c * d
  <2>1. PICK i \in Nat : d = s + 1 + i
    <3>1. d - s - 1 \in Nat /\ d = s + 1 + (d - s - 1)
      BY <1>2
    <3>. QED BY <3>1
  <2>2. c * (s + 1 + i) = c * s + c + c * i /\ c * s \in Nat /\ c * i \in Nat
    BY <1>2, <2>1
  <2>. QED BY <1>1, <2>1, <2>2
<1>6. n \div (c * d) = q
  BY <1>2, <1>3, <1>4, <1>5, QuotientIs
<1>. QED BY <1>3, <1>6 DEF p, q

-----------------------------------------------------------------------------
(* The digits of a number.                                                 *)
Digits(n) == PrintFloat!DigitsOf(n)
Count(n) == PrintFloat!CountDigits(n)

LEMMA DigitSteps ==
  \A n \in Nat : Digits(n) = IF n < 10 THEN <<n>> ELSE Append(Digits(n \div 10), n % 10)
<1>. DEFINE Stop == {k \in Nat : k < 10}  nx == [k \in Nat |-> k \div 10]
            b == [k \in Nat |-> <<k>>]  z == [k \in Nat |-> k % 10]
            V(f, k) == IF k < 10 THEN <<k>> ELSE Append(f[k \div 10], k % 10)
            D == CHOOSE f : f = [k \in Nat |-> V(f, k)]
<1>1. nx \in [Nat -> Nat] /\ \A k \in Nat : k \notin Stop => nx[k] < k
  OBVIOUS
<1>2. ASSUME NEW f, NEW k \in Nat
      PROVE  V(f, k) = IF k \in Stop THEN b[k] ELSE Onto("append", z[k], f[nx[k]])
  BY DEF Onto
<1>. HIDE DEF Stop, nx, b, z
<1>3. Recursive(Nat, Stop, nx, b, z, "append")
  BY <1>1, RecursionOnNat, Zenon
<1>4. PICK f : f = [k \in Nat |-> V(f, k)]
  <2>. HIDE DEF V
  <2>1. PICK f : f = [k \in Nat |-> IF k \in Stop THEN b[k] ELSE Onto("append", z[k], f[nx[k]])]
    BY <1>3 DEF Recursive
  <2>2. [k \in Nat |-> IF k \in Stop THEN b[k] ELSE Onto("append", z[k], f[nx[k]])]
         = [k \in Nat |-> V(f, k)]
    BY <1>2, Zenon
  <2>. QED BY <2>1, <2>2, Zenon
<1>5. D = [k \in Nat |-> V(D, k)]
  BY <1>4, Zenon
<1>6. \A n : Digits(n) = D[n]
  BY Zenon DEF PrintFloat!DigitsOf, Digits
<1>. HIDE DEF D
<1>7. \A k \in Nat : D[k] = V(D, k)
  <2>. HIDE DEF V
  <2>. QED BY <1>5, Zenon
<1>. QED BY <1>6, <1>7

LEMMA DigitsInSeq ==
  \A n \in Nat : Digits(n) \in Seq(0 .. 9) /\ Len(Digits(n)) >= 1
<1>. DEFINE Good(n) == Digits(n) \in Seq(0 .. 9) /\ Len(Digits(n)) >= 1
            S == {k \in Nat : \A n \in 0 .. k : Good(n)}
<1>0. \A d \in 0 .. 9 : <<d>> \in Seq(0 .. 9) /\ Len(<<d>>) >= 1
  OBVIOUS
<1>1. 0 \in S
  <2>1. Digits(0) = <<0>>
    BY DigitSteps
  <2>2. Good(0)
    <3>1. 0 \in 0 .. 9
      OBVIOUS
    <3>. QED BY <1>0, <2>1, <3>1, Zenon
  <2>. HIDE DEF Good
  <2>3. \A n \in 0 .. 0 : n = 0
    OBVIOUS
  <2>. QED BY <2>2, <2>3
<1>2. ASSUME NEW k \in Nat, k \in S PROVE k + 1 \in S
  <2>1. Good(k + 1)
    <3>1. CASE k + 1 < 10
      <4>1. Digits(k + 1) = <<k + 1>> /\ k + 1 \in 0 .. 9
        BY <3>1, DigitSteps
      <4>. QED BY <1>0, <4>1, Zenon
    <3>2. CASE ~(k + 1 < 10)
      <4>1. (k + 1) \div 10 \in 0 .. k /\ (k + 1) % 10 \in 0 .. 9
        BY <3>2
      <4>2. Good((k + 1) \div 10)
        BY <1>2, <4>1
      <4>3. Digits(k + 1) = Append(Digits((k + 1) \div 10), (k + 1) % 10)
        BY <3>2, DigitSteps
      <4>4. \A s \in Seq(0 .. 9), d \in 0 .. 9 :
              Append(s, d) \in Seq(0 .. 9) /\ Len(Append(s, d)) = Len(s) + 1 /\ Len(s) \in Nat
        OBVIOUS
      <4>5. \A l \in Nat : l + 1 >= 1
        OBVIOUS
      <4>. QED BY <4>1, <4>2, <4>3, <4>4, <4>5, Zenon
    <3>. QED BY <3>1, <3>2
  <2>2. \A n \in 0 .. k + 1 : n \in 0 .. k \/ n = k + 1
    OBVIOUS
  <2>. HIDE DEF Good
  <2>. QED BY <1>2, <2>1, <2>2
<1>. HIDE DEF S
<1>3. \A k \in Nat : k \in S
  BY <1>1, <1>2, Induct
<1>. QED BY <1>3, SMTT(60) DEF S

LEMMA CountedDigits ==
  ASSUME NEW n \in Nat
  PROVE  /\ Count(n) = Len(Digits(n)) /\ Count(n) \in Nat /\ Count(n) >= 1
         /\ n < 10 => Count(n) = 1
         /\ n >= 10 => n \div 10 \in Nat /\ Count(n) = Count(n \div 10) + 1
<1>1. \A m \in Nat : Count(m) = Len(Digits(m)) /\ Digits(m) \in Seq(0 .. 9) /\ Count(m) >= 1
  BY DigitsInSeq DEF Count, Digits, PrintFloat!CountDigits
<1>2. \A m \in Nat : Count(m) \in Nat
  <2>1. \A s \in Seq(0 .. 9) : Len(s) \in Nat
    OBVIOUS
  <2>. QED BY <1>1, <2>1, Zenon
<1>3. ASSUME n < 10 PROVE Count(n) = 1
  <2>1. Digits(n) = <<n>> /\ Len(<<n>>) = 1
    BY <1>3, DigitSteps
  <2>. QED BY <1>1, <2>1, Zenon
<1>4. ASSUME n >= 10 PROVE n \div 10 \in Nat /\ Count(n) = Count(n \div 10) + 1
  <2>1. ~(n < 10) /\ n \div 10 \in Nat /\ n % 10 \in Nat
    BY <1>4
  <2>2. Digits(n) = Append(Digits(n \div 10), n % 10)
    BY <2>1, DigitSteps
  <2>3. \A s \in Seq(0 .. 9), d \in Nat : Len(Append(s, d)) = Len(s) + 1
    OBVIOUS
  <2>4. Len(Digits(n)) = Len(Digits(n \div 10)) + 1
    BY <1>1, <2>1, <2>2, <2>3, Zenon
  <2>. QED BY <1>1, <2>1, <2>4, Zenon
<1>. QED BY <1>1, <1>2, <1>3, <1>4, Zenon

(* A number below 10^k has at most k digits, and is below 10^k when k is   *)
(* how many it has.                                                        *)
LEMMA FewDigits ==
  ASSUME NEW k \in Nat
  PROVE  \A n \in Nat : n < Pow(10, k + 1) <=> Count(n) <= k + 1
<1>. DEFINE S == {j \in Nat : \A n \in Nat : n < Pow(10, j + 1) <=> Count(n) <= j + 1}
<1>1. Pow(10, 0) = 1 /\ \A j \in Nat : Pow(10, j + 1) = 10 * Pow(10, j) /\ Pow(10, j) \in Nat
  BY PowerSteps, PowerNat DEF Pow
<1>2. 0 \in S
  <2>1. Pow(10, 0 + 1) = 10
    BY <1>1
  <2>2. ASSUME NEW n \in Nat PROVE n < 10 <=> Count(n) <= 1
    <3>1. CASE n < 10
      BY <3>1, CountedDigits
    <3>2. CASE n >= 10
      <4>1. Count(n \div 10) \in Nat /\ Count(n \div 10) >= 1 /\ Count(n) = Count(n \div 10) + 1
        BY <3>2, CountedDigits
      <4>. QED BY <3>2, <4>1
    <3>. QED BY <3>1, <3>2
  <2>. QED BY <2>1, <2>2
<1>3. ASSUME NEW j \in Nat, j \in S PROVE j + 1 \in S
  <2>. DEFINE p == Pow(10, j + 1)
  <2>1. p \in Nat /\ Pow(10, (j + 1) + 1) = 10 * p
    BY <1>1
  <2>2. p >= 10
    <3>1. p = 10 * Pow(10, j) /\ Pow(10, j) \in Nat
      BY <1>1
    <3>2. Pow(10, j) # 0
      BY PowerNat
    <3>. QED BY <3>1, <3>2
  <2>. HIDE DEF p
  <2>3. ASSUME NEW n \in Nat PROVE n < 10 * p <=> Count(n) <= (j + 1) + 1
    <3>1. CASE n < 10
      BY <2>1, <2>2, <3>1, CountedDigits
    <3>2. CASE n >= 10
      <4>1. n \div 10 \in Nat /\ Count(n) = Count(n \div 10) + 1 /\ Count(n \div 10) \in Nat
        BY <3>2, CountedDigits
      <4>2. n < 10 * p <=> n \div 10 < p
        BY <2>1
      <4>3. n \div 10 < p <=> Count(n \div 10) <= j + 1
        BY <1>3, <4>1 DEF p
      <4>. QED BY <4>1, <4>2, <4>3
    <3>. QED BY <3>1, <3>2
  <2>. QED BY <2>1, <2>3
<1>. HIDE DEF S
<1>4. \A j \in Nat : j \in S
  BY <1>2, <1>3, Induct
<1>. QED BY <1>4 DEF S

(* Without its last k digits.                                              *)
LEMMA LeadingDigits ==
  ASSUME NEW k \in Nat
  PROVE  \A n \in Nat : n \div Pow(10, k) \in Nat
                     /\ (k < Count(n) => Count(n \div Pow(10, k)) = Count(n) - k)
<1>. DEFINE Holds(j, n) == n \div Pow(10, j) \in Nat
                     /\ (j < Count(n) => Count(n \div Pow(10, j)) = Count(n) - j)
            S == {j \in Nat : \A n \in Nat : Holds(j, n)}
<1>1. Pow(10, 0) = 1 /\ \A j \in Nat : Pow(10, j + 1) = 10 * Pow(10, j) /\ Pow(10, j) \in Nat /\ Pow(10, j) # 0
  BY PowerSteps, PowerNat DEF Pow
<1>2. 0 \in S
  <2>1. \A n \in Nat : n \div 1 = n /\ Count(n) \in Nat
    BY CountedDigits
  <2>. QED BY <1>1, <2>1
<1>3. ASSUME NEW j \in Nat, j \in S PROVE j + 1 \in S
  <2>1. ASSUME NEW n \in Nat PROVE Holds(j + 1, n)
    <3>1. n \div Pow(10, j + 1) = (n \div 10) \div Pow(10, j) /\ n \div 10 \in Nat
      BY <1>1, QuotientOfQuotient, SMTT(60)
    <3>2. Holds(j, n \div 10)
      BY <1>3, <3>1
    <3>3. ASSUME j + 1 < Count(n)
          PROVE  Count(n) = Count(n \div 10) + 1 /\ Count(n \div 10) \in Nat
      <4>1. n >= 10
        BY <3>3, CountedDigits
      <4>. QED BY <4>1, CountedDigits
    <3>. QED BY <3>1, <3>2, <3>3
  <2>. HIDE DEF Holds
  <2>. QED BY <2>1
<1>. HIDE DEF S
<1>4. \A j \in Nat : j \in S
  BY <1>2, <1>3, Induct
<1>5. \A n \in Nat : Holds(k, n)
  BY <1>4 DEF S
<1>. QED BY <1>5

-----------------------------------------------------------------------------
(* The largest of a set of numbers.                                        *)
LEMMA Largest ==
  ASSUME NEW n \in Nat, NEW T, T \subseteq 0 .. n, T # {}
  PROVE  PrintFloat!Max(T) \in T /\ \A x \in T : PrintFloat!Max(T) >= x
<1>. DEFINE U == {n - x : x \in T}
<1>1. \A x \in T : x \in Nat /\ x <= n /\ n - x \in Nat
  OBVIOUS
<1>2. U \subseteq Nat /\ U # {} /\ \A x \in T : n - x \in U
  <2>1. U \subseteq Nat
    BY <1>1
  <2>2. \A x \in T : n - x \in U
    OBVIOUS
  <2>. QED BY <2>1, <2>2
<1>3. PICK u \in U : \A y \in U : u <= y
  BY <1>2, Smallest
<1>4. PICK t \in T : u = n - t
  OBVIOUS
<1>. HIDE DEF U
<1>5. ASSUME NEW x \in T PROVE t >= x
  <2>1. u <= n - x
    BY <1>2, <1>3
  <2>. QED BY <1>1, <1>4, <2>1
<1>. HIDE DEF U
<1>. QED BY <1>5, Zenon DEF PrintFloat!Max

(* A number is what is left without its zeros, with them.                  *)
LEMMA ZerosFacts ==
  ASSUME NEW n \in Nat, NEW w, w = PrintFloat!WithoutZeros(n)
  PROVE  /\ w.zeros \in Nat /\ w.zeros < Count(n) /\ w.m \in Nat
         /\ n = w.m * Pow(10, w.zeros) /\ Count(w.m) = Count(n) - w.zeros
         /\ n # 0 => w.m % 10 # 0
<1>. DEFINE T == {k \in 0 .. Count(n) - 1 : n % Pow(10, k) = 0}
            z == PrintFloat!Max(T)  p == Pow(10, z)  q == n \div p
<1>1. Count(n) \in Nat /\ Count(n) >= 1
  BY CountedDigits
<1>2. \A k \in Nat : Pow(10, k) \in Nat /\ Pow(10, k) # 0 /\ Pow(10, k + 1) = 10 * Pow(10, k)
  BY PowerNat, PowerSteps DEF Pow
<1>3. z \in T /\ \A x \in T : z >= x
  <2>1. 0 \in T
    <3>1. Pow(10, 0) = 1 /\ n % 1 = 0
      BY PowerSteps DEF Pow
    <3>. QED BY <1>1, <3>1
  <2>2. Count(n) - 1 \in Nat /\ T \subseteq 0 .. Count(n) - 1
    BY <1>1
  <2>. HIDE DEF T
  <2>. QED BY <2>1, <2>2, Largest
<1>4. z \in Nat /\ z < Count(n) /\ n % p = 0
  BY <1>1, <1>3
<1>5. w.zeros = z /\ w.m = q
  BY Zenon DEF PrintFloat!WithoutZeros, Pow, Count
<1>. HIDE DEF T, z
<1>6. q \in Nat /\ n = p * q
  <2>1. p \in Nat /\ p # 0
    BY <1>2, <1>4
  <2>. QED BY <1>4, <2>1, Quotient
<1>7. Count(q) = Count(n) - z
  BY <1>4, LeadingDigits
<1>8. ASSUME n # 0, q % 10 = 0 PROVE FALSE
  <2>. DEFINE r == q \div 10  pp == Pow(10, z + 1)
  <2>1. r \in Nat /\ q = 10 * r
    BY <1>6, <1>8
  <2>2. q # 0
    <3>1. p \in Nat /\ p * 0 = 0
      BY <1>2, <1>4
    <3>. QED BY <1>6, <1>8, <3>1
  <2>3. q >= 10
    BY <2>1, <2>2
  <2>4. Count(q) >= 2
    <3>1. q \div 10 \in Nat /\ Count(q) = Count(q \div 10) + 1
      BY <1>6, <2>3, CountedDigits
    <3>2. Count(q \div 10) \in Nat /\ Count(q \div 10) >= 1
      BY <3>1, CountedDigits
    <3>. QED BY <3>1, <3>2
  <2>5. pp \in Nat /\ pp # 0 /\ pp = 10 * p /\ p \in Nat
    BY <1>2, <1>4
  <2>. HIDE DEF r, pp, p
  <2>6. n = pp * r + 0
    <3>1. \A a, b \in Nat : a * (10 * b) = (10 * a) * b
      OBVIOUS
    <3>2. p * (10 * r) = (10 * p) * r /\ pp * r \in Nat
      BY <2>1, <2>5, <3>1
    <3>. QED BY <1>6, <2>1, <2>5, <3>2
  <2>7. n % pp = 0
    <3>1. 0 \in Nat /\ 0 < pp
      BY <2>5
    <3>. QED BY <2>1, <2>5, <2>6, <3>1, QuotientIs
  <2>8. z + 1 \in T
    <3>1. z + 1 \in 0 .. Count(n) - 1
      BY <1>1, <1>4, <1>7, <2>4
    <3>. QED BY <2>7, <3>1 DEF T, pp
  <2>. QED BY <1>3, <1>4, <2>8
<1>9. n = q * p
  BY <1>2, <1>4, <1>6
<1>. QED BY <1>4, <1>5, <1>6, <1>7, <1>8, <1>9

-----------------------------------------------------------------------------
(* A number of which j zero bits behind the point have been removed.       *)
Removed(d, bits) ==
  /\ d.m \in Nat /\ d.shift \in Nat /\ d.e \in Int
  /\ \E j \in Nat : /\ bits.significand = d.m * Pow(2, j)
                    /\ bits.shift = d.shift + j /\ d.e = j - bits.shift

(* Fewer than c zero bits are left behind the point.                       *)
Fewer(d, c) == d.shift < c \/ d.m % Pow(2, c) # 0

LEMMA HalvedOnce ==
  ASSUME NEW bits, NEW d, Removed(d, bits), NEW c \in Nat, Fewer(d, c + c)
  PROVE  Removed(PrintFloat!Halved(d, c), bits) /\ Fewer(PrintFloat!Halved(d, c), c)
<1>. DEFINE h == PrintFloat!Halved(d, c)  p == Pow(2, c)
<1>0. p \in Nat /\ p # 0 /\ Pow(2, c + c) = p * p
  BY PowerNat, PowerSum
<1>1. d.m \in Nat /\ d.shift \in Nat /\ d.e \in Int
  BY DEF Removed
<1>2. CASE ~(d.shift >= c /\ d.m % p = 0)
  <2>1. h = d
    BY <1>2 DEF PrintFloat!Halved, PrintFloat!ZeroBits, Pow
  <2>2. Fewer(d, c)
    BY <1>1, <1>2 DEF Fewer
  <2>. QED BY <2>1, <2>2
<1>3. CASE d.shift >= c /\ d.m % p = 0
  <2>. DEFINE q == d.m \div p
  <2>1. h.m = q /\ h.shift = d.shift - c /\ h.e = d.e + c
    BY <1>3 DEF PrintFloat!Halved, PrintFloat!ZeroBits, Pow
  <2>2. q \in Nat /\ d.m = p * q
    BY <1>0, <1>1, <1>3, Quotient
  <2>3. h.shift \in Nat /\ h.e \in Int
    BY <1>1, <1>3, <2>1
  <2>4. PICK j \in Nat : /\ bits.significand = d.m * Pow(2, j)
                         /\ bits.shift = d.shift + j /\ d.e = j - bits.shift
    BY DEF Removed
  <2>. HIDE DEF h, q, p
  <2>5. bits.significand = h.m * Pow(2, j + c)
    <3>1. Pow(2, j + c) = Pow(2, j) * p /\ Pow(2, j) \in Nat
      BY PowerSum, PowerNat DEF p
    <3>2. \A x, y, v \in Nat : (x * y) * v = y * (v * x)
      OBVIOUS
    <3>3. (p * q) * Pow(2, j) = q * (Pow(2, j) * p)
      BY <1>0, <2>2, <3>1, <3>2
    <3>. QED BY <2>1, <2>2, <2>4, <3>1, <3>3
  <2>6. /\ j + c \in Nat /\ bits.shift = h.shift + (j + c)
        /\ h.e = (j + c) - bits.shift
    BY <1>1, <2>1, <2>3, <2>4
  <2>7. Removed(h, bits)
    BY <2>1, <2>2, <2>3, <2>5, <2>6 DEF Removed
  <2>8. Fewer(h, c)
    <3>1. CASE d.shift < c + c
      BY <1>1, <1>3, <2>1, <3>1 DEF Fewer
    <3>2. CASE d.m % (p * p) # 0
      <4>1. ASSUME q % p = 0 PROVE FALSE
        <5>. DEFINE r == q \div p
        <5>1. r \in Nat /\ q = p * r
          BY <1>0, <2>2, <4>1, Quotient
        <5>. HIDE DEF r
        <5>2. \A x, y \in Nat : x * (x * y) = (x * x) * y + 0
          OBVIOUS
        <5>3. d.m = (p * p) * r + 0
          BY <1>0, <2>2, <5>1, <5>2
        <5>4. p * p \in Nat /\ p * p # 0 /\ 0 < p * p /\ 0 \in Nat
          BY <1>0
        <5>. QED BY <3>2, <5>1, <5>3, <5>4, QuotientIs
      <4>. QED BY <2>1, <4>1 DEF Fewer, p
    <3>. QED BY <1>0, <3>1, <3>2 DEF Fewer
  <2>. QED BY <2>7, <2>8 DEF h
<1>. QED BY <1>2, <1>3

LEMMA OddProduct ==
  ASSUME NEW a \in Nat, NEW b \in Nat, a % 2 = 1, b % 2 = 1
  PROVE  (a * b) % 2 = 1
<1>1. PICK i \in Nat : a = 2 * i + 1
  <2>1. a \div 2 \in Nat /\ a = 2 * (a \div 2) + 1
    OBVIOUS
  <2>. QED BY <2>1
<1>2. a * b = 2 * (i * b) + b /\ i * b \in Nat
  BY <1>1
<1>3. PICK k \in Nat : a * b = 2 * k + b
  BY <1>2
<1>4. \A c \in Nat : c = 2 * k + b => c % 2 = 1
  OBVIOUS
<1>5. a * b \in Nat
  OBVIOUS
<1>. QED BY <1>3, <1>4, <1>5

LEMMA OddPowers ==
  \A n \in Nat : Pow(5, n) % 2 = 1
<1>. DEFINE S == {n \in Nat : Pow(5, n) % 2 = 1}
<1>1. Pow(5, 0) = 1 /\ \A n \in Nat : Pow(5, n + 1) = 5 * Pow(5, n) /\ Pow(5, n) \in Nat
  BY PowerSteps, PowerNat DEF Pow
<1>2. 0 \in S
  BY <1>1
<1>3. ASSUME NEW n \in Nat, n \in S PROVE n + 1 \in S
  BY <1>1, <1>3
<1>. HIDE DEF S
<1>4. \A n \in Nat : n \in S
  BY <1>2, <1>3, Induct
<1>. QED BY <1>4 DEF S

(* What is left when the zeros are removed from a number, and multiplied by*)
(* powers of five, does not end in a zero.                                 *)
LEMMA NoZeroLeft ==
  ASSUME NEW m \in Nat, m # 0, NEW k \in Nat, k = 0 \/ m % 2 # 0
  PROVE  (PrintFloat!WithoutZeros(m).m * Pow(5, k)) % 10 # 0
<1>. DEFINE w == PrintFloat!WithoutZeros(m)
<1>1. w.zeros \in Nat /\ w.m \in Nat /\ m = w.m * Pow(10, w.zeros) /\ w.m % 10 # 0
  BY ZerosFacts
<1>. HIDE DEF w
<1>2. CASE k = 0
  <2>1. Pow(5, k) = 1
    BY <1>2, PowerSteps DEF Pow
  <2>. QED BY <1>1, <2>1 DEF w
<1>3. CASE m % 2 # 0
  <2>1. Pow(10, w.zeros) \in Nat
    BY <1>1, PowerNat
  <2>2. ASSUME w.m % 2 # 1 PROVE FALSE
    <3>1. PICK i \in Nat : w.m = 2 * i
      <4>1. w.m \div 2 \in Nat /\ w.m = 2 * (w.m \div 2)
        BY <1>1, <2>2
      <4>. QED BY <4>1
    <3>2. \A x, y \in Nat : (2 * x) * y = 2 * (x * y) /\ x * y \in Nat
      OBVIOUS
    <3>3. m = 2 * (i * Pow(10, w.zeros)) /\ i * Pow(10, w.zeros) \in Nat
      BY <1>1, <2>1, <3>1, <3>2
    <3>. QED BY <1>3, <3>3
  <2>3. Pow(5, k) \in Nat /\ Pow(5, k) % 2 = 1
    BY OddPowers, PowerNat
  <2>4. (w.m * Pow(5, k)) % 2 = 1 /\ w.m * Pow(5, k) \in Nat
    BY <1>1, <2>2, <2>3, OddProduct
  <2>. QED BY <2>4 DEF w
<1>. QED BY <1>2, <1>3

LEMMA FloatAssumption == PrintFloat!FloatPrinterAssumption /\ PrintFloat!NumbersAssumption
BY NumberPrintersAssumption

(* The bits that trivial_float_dec and trivial_double_dec accept.          *)
LEMMA BitsFacts ==
  ASSUME NEW b \in Bits
  PROVE  /\ b.significand \in Nat /\ b.significand # 0 /\ b.shift \in Nat /\ b.double \in BOOLEAN
         /\ b.double => b.shift <= 15 \/ b.significand % Pow(2, 16) # 0
         /\ ~b.double => b.shift <= 7 \/ b.significand % Pow(2, 8) # 0
<1>1. b \in [significand: Nat \ {0}, shift: Nat, double: BOOLEAN]
  BY FloatAssumption DEF PrintFloat!FloatPrinterAssumption
<1>2. LET most == IF b.double THEN 15 ELSE 7 IN
      b.shift <= most \/ b.significand % Pow(2, most + 1) # 0
  BY FloatAssumption DEF PrintFloat!FloatPrinterAssumption, Pow
<1>3. 15 + 1 = 16 /\ 7 + 1 = 8
  OBVIOUS
<1>. QED BY <1>1, <1>2, <1>3

LEMMA DecodedExactly ==
  ASSUME NEW b \in Bits
  PROVE  PrintFloat!SameNumber(b, PrintFloat!TrivialDec(b))
<1>. DEFINE start == [m |-> b.significand, shift |-> b.shift, e |-> -b.shift]
            H(d, c) == PrintFloat!Halved(d, c)
            fewer == IF b.double THEN H(start, 8) ELSE start
            h == H(H(H(fewer, 4), 2), 1)
            w == PrintFloat!WithoutZeros(h.m)
            t == PrintFloat!TrivialDec(b)
<1>1. Removed(start, b)
  <2>1. start.m = b.significand /\ start.shift = b.shift /\ start.e = -b.shift
    OBVIOUS
  <2>2. b.significand = b.significand * Pow(2, 0) /\ b.shift = b.shift + 0 /\ -b.shift = 0 - b.shift
    <3>1. Pow(2, 0) = 1
      BY PowerSteps DEF Pow
    <3>. QED BY <3>1, BitsFacts
  <2>3. b.significand \in Nat /\ b.shift \in Nat /\ -b.shift \in Int /\ 0 \in Nat
    BY BitsFacts
  <2>. HIDE DEF start
  <2>. QED BY <2>1, <2>2, <2>3 DEF Removed
<1>2. Removed(fewer, b) /\ Fewer(fewer, 4 + 4)
  <2>0. start.m = b.significand /\ start.shift = b.shift
    OBVIOUS
  <2>. HIDE DEF start
  <2>1. CASE b.double
    <3>1. Fewer(start, 8 + 8)
      <4>1. 8 + 8 = 16
        OBVIOUS
      <4>. QED BY <2>0, <2>1, <4>1, BitsFacts DEF Fewer
    <3>2. Removed(H(start, 8), b) /\ Fewer(H(start, 8), 8)
      BY <1>1, <3>1, HalvedOnce
    <3>. HIDE DEF H
    <3>. QED BY <2>1, <3>2
  <2>2. CASE ~b.double
    <3>1. Fewer(start, 8)
      BY <2>0, <2>2, BitsFacts DEF Fewer
    <3>. HIDE DEF H
    <3>. QED BY <1>1, <2>2, <3>1
  <2>. QED BY <2>1, <2>2
<1>. HIDE DEF fewer
<1>3. Removed(h, b) /\ Fewer(h, 1)
  <2>1. Removed(H(fewer, 4), b) /\ Fewer(H(fewer, 4), 2 + 2)
    <3>1. 2 + 2 = 4
      OBVIOUS
    <3>. QED BY <1>2, <3>1, HalvedOnce
  <2>2. Removed(H(H(fewer, 4), 2), b) /\ Fewer(H(H(fewer, 4), 2), 1 + 1)
    <3>1. 1 + 1 = 2
      OBVIOUS
    <3>. QED BY <2>1, <3>1, HalvedOnce
  <2>. QED BY <2>2, HalvedOnce
<1>4. t.m = w.m * Pow(5, h.shift) /\ t.e = h.e + w.zeros
  BY DEF PrintFloat!TrivialDec, fewer, Pow
<1>. HIDE DEF h
<1>5. PICK j \in Nat : /\ b.significand = h.m * Pow(2, j)
                       /\ b.shift = h.shift + j /\ h.e = j - b.shift
  BY <1>3 DEF Removed
<1>6. h.m \in Nat /\ h.shift \in Nat /\ h.m # 0
  <2>1. Pow(2, j) \in Nat /\ 0 * Pow(2, j) = 0
    BY PowerNat
  <2>. QED BY <1>3, <1>5, <2>1, BitsFacts DEF Removed
<1>7. w.zeros \in Nat /\ w.m \in Nat /\ h.m = w.m * Pow(10, w.zeros)
  BY <1>6, ZerosFacts
<1>8. t.m % 10 # 0
  <2>1. h.shift = 0 \/ h.m % 2 # 0
    <3>1. Pow(2, 1) = 2
      <4>1. Pow(2, 0 + 1) = 2 * Pow(2, 0) /\ Pow(2, 0) = 1
        BY PowerSteps DEF Pow
      <4>. QED BY <4>1
    <3>. QED BY <1>3, <1>6, <3>1 DEF Fewer
  <2>. QED BY <1>4, <1>6, <2>1, NoZeroLeft
<1>. HIDE DEF w, t
<1>9. t.e + b.shift = j + w.zeros
  BY <1>4, <1>5, <1>6, <1>7
<1>10. t.m * Pow(10, j + w.zeros) = b.significand * Pow(5, b.shift)
  <2>. DEFINE two == Pow(2, j)  five == Pow(5, j)  ten == Pow(10, w.zeros)  rest == Pow(5, h.shift)
  <2>1. two \in Nat /\ five \in Nat /\ ten \in Nat /\ rest \in Nat
    BY <1>6, <1>7, PowerNat
  <2>2. Pow(10, j + w.zeros) = (two * five) * ten
    <3>1. 10 \in Nat /\ 10 # 0 /\ w.zeros \in Nat
      BY <1>7
    <3>2. Pow(10, j + w.zeros) = Pow(10, j) * ten
      BY <3>1, PowerSum
    <3>3. Pow(10, j) = two * five
      BY PowerProduct
    <3>. QED BY <3>2, <3>3
  <2>3. Pow(5, b.shift) = rest * five
    <3>1. 5 \in Nat /\ 5 # 0
      OBVIOUS
    <3>2. Pow(5, h.shift + j) = rest * five
      BY <1>6, <3>1, PowerSum
    <3>. QED BY <1>5, <3>2
  <2>. HIDE DEF two, five, ten, rest
  <2>4. \A x, a, c, d, e \in Nat : (x * a) * ((c * d) * e) = ((x * e) * c) * (a * d)
    OBVIOUS
  <2>5. (w.m * rest) * ((two * five) * ten) = ((w.m * ten) * two) * (rest * five)
    BY <1>7, <2>1, <2>4
  <2>. QED BY <1>4, <1>5, <1>7, <2>2, <2>3, <2>5 DEF two, ten, rest
<1>11. t = PrintFloat!TrivialDec(b)
  BY DEF t
<1>12. t.e + b.shift >= 0
  BY <1>7, <1>9
<1>13. t.m * Pow(10, t.e + b.shift) = b.significand * Pow(5, b.shift)
  BY <1>9, <1>10
<1>. QED BY <1>8, <1>11, <1>12, <1>13, Zenon DEF PrintFloat!SameNumber, Pow

(* Every number with few bits is decoded to the same number, and no zero   *)
(* is left at its end: for doubles too, which TLC cannot count.            *)
THEOREM FewBitsDecodedExactly == Spec => []DecodeExact
<1>. DEFINE Inv == type = "float" => arg \in PrintFloat!Args
<1>1. Init => Inv
  BY DEF Init, PrintFloat!Init
<1>2. Inv /\ [Next]_vars => Inv'
  BY DEF Next, vars, PrintFloat!Next, PrintFloat!Store, PrintFloat!Fill, PrintFloat!Grouped, PrintFloat!vars
<1>3. Inv => DecodeExact
  <2>1. ASSUME type = "float", arg \in PrintFloat!Args, arg.x.bits # <<>>
        PROVE  PrintFloat!SameNumber(arg.x.bits, arg.x.dec)
    <3>1. arg.x \in PrintFloat!Numbers
      BY <2>1 DEF PrintFloat!Args
    <3>2. PICK b \in Bits : arg.x = [kind |-> "number", bits |-> b, dec |-> PrintFloat!TrivialDec(b)]
      BY <2>1, <3>1 DEF PrintFloat!Numbers
    <3>3. arg.x.bits = b /\ arg.x.dec = PrintFloat!TrivialDec(b)
      BY <3>2
    <3>. QED BY <3>3, DecodedExactly
  <2>. QED BY <2>1 DEF DecodeExact, PrintFloat!DecodeExact
<1>. QED BY <1>1, <1>2, <1>3, PTL DEF Spec

-----------------------------------------------------------------------------
(* Both printers have the same facets.                                     *)
LEMMA SameNumpunct ==
  ASSUME NEW g, NEW n
  PROVE  /\ PrintFloat!GroupSizes(g, n) = PrintInt!GroupSizes(g, n)
         /\ PrintFloat!ThousandsSepCount(g, n) = PrintInt!ThousandsSepCount(g, n)
<1>1. PrintFloat!GroupSizes(g, n) = PrintInt!GroupSizes(g, n)
  BY Zenon DEF PrintFloat!GroupSizes, PrintInt!GroupSizes
<1>2. PrintFloat!ThousandsSepCount(g, n) = PrintInt!ThousandsSepCount(g, n)
  BY Zenon DEF PrintFloat!ThousandsSepCount, PrintInt!ThousandsSepCount,
               PrintFloat!Repeated, PrintInt!Repeated, PrintFloat!Last, PrintInt!Last
<1>. QED BY <1>1, <1>2

(* Sequences joined to one: what is in it, and how long it is at most.     *)
LEMMA Flattened ==
  ASSUME NEW A, NEW seqs \in Seq(Seq(A)), NEW c \in Nat, \A i \in 1 .. Len(seqs) : Len(seqs[i]) <= c
  PROVE  LET s == PrintFloat!FlattenSeq(seqs) IN
         s \in Seq(A) /\ Len(s) \in Nat /\ Len(s) <= c * Len(seqs)
<1>. DEFINE n == Len(seqs)
<1>0. n \in Nat /\ \A i \in 1 .. n : seqs[i] \in Seq(A) /\ Len(seqs[i]) \in Nat
  OBVIOUS
<1>1. CASE n = 0
  <2>1. PrintFloat!FlattenSeq(seqs) = <<>>
    BY <1>1 DEF PrintFloat!FlattenSeq
  <2>2. Len(<<>>) = 0 /\ <<>> \in Seq(A) /\ 0 <= c * 0
    OBVIOUS
  <2>. QED BY <1>1, <2>1, <2>2, Zenon
<1>2. CASE n # 0
  <2>. DEFINE V(f, i) == IF i = 1 THEN seqs[i] ELSE f[i - 1] \o seqs[i]
              g == CHOOSE g : g = [i \in 1 .. n |-> V(g, i)]
              Stop == {1}  nx == [i \in 1 .. n |-> IF i = 1 THEN 1 ELSE i - 1]
              rank == [i \in 1 .. n |-> i]  b == [i \in 1 .. n |-> seqs[i]]
  <2>1. PrintFloat!FlattenSeq(seqs) = g[n]
    BY <1>2, Zenon DEF PrintFloat!FlattenSeq
  <2>2. Descends(1 .. n, Stop, nx, rank, n)
    <3>1. nx \in [1 .. n -> 1 .. n] /\ rank \in [1 .. n -> Nat]
      BY <1>0
    <3>2. \A i \in 1 .. n : rank[i] <= n /\ (i \notin Stop => rank[nx[i]] < rank[i])
      BY <1>0
    <3>. QED BY <1>0, <3>1, <3>2 DEF Descends
  <2>3. ASSUME NEW f, NEW i \in 1 .. n
        PROVE  V(f, i) = IF i \in Stop THEN b[i] ELSE Onto("behind", b[i], f[nx[i]])
    BY DEF Onto
  <2>. HIDE DEF Stop, nx, rank, b
  <2>4. PICK f : f = [i \in 1 .. n |-> V(f, i)]
    <3>. HIDE DEF V, n
    <3>1. Recursive(1 .. n, Stop, nx, b, b, "behind")
      BY <2>2, RecursionExists, Zenon
    <3>2. PICK f : f = [i \in 1 .. n |-> IF i \in Stop THEN b[i] ELSE Onto("behind", b[i], f[nx[i]])]
      BY <3>1 DEF Recursive
    <3>3. [i \in 1 .. n |-> IF i \in Stop THEN b[i] ELSE Onto("behind", b[i], f[nx[i]])]
           = [i \in 1 .. n |-> V(f, i)]
      BY <2>3, Zenon
    <3>. QED BY <3>2, <3>3, Zenon
  <2>5. g = [i \in 1 .. n |-> V(g, i)]
    BY <2>4, Zenon
  <2>. HIDE DEF g
  <2>6. \A i \in 1 .. n : g[i] = V(g, i)
    <3>. HIDE DEF V
    <3>. QED BY <2>5, Zenon
  <2>. DEFINE T == {k \in Nat : k + 1 \in 1 .. n => g[k + 1] \in Seq(A) /\ Len(g[k + 1]) <= c * (k + 1)}
  <2>7. 0 \in T
    <3>1. 1 \in 1 .. n /\ seqs[1] \in Seq(A) /\ Len(seqs[1]) <= c * (0 + 1)
      BY <1>0, <1>2
    <3>. QED BY <2>6, <3>1
  <2>8. ASSUME NEW k \in Nat, k \in T PROVE k + 1 \in T
    <3>1. ASSUME k + 2 \in 1 .. n
          PROVE  g[k + 2] \in Seq(A) /\ Len(g[k + 2]) <= c * (k + 2)
      <4>1. k + 1 \in 1 .. n /\ (k + 2) - 1 = k + 1 /\ k + 2 # 1
        BY <3>1
      <4>2. g[k + 1] \in Seq(A) /\ Len(g[k + 1]) <= c * (k + 1)
        BY <2>8, <4>1
      <4>3. seqs[k + 2] \in Seq(A) /\ Len(seqs[k + 2]) <= c
        BY <1>0, <3>1
      <4>4. g[k + 2] = g[k + 1] \o seqs[k + 2]
        BY <2>6, <3>1, <4>1
      <4>5. \A p, q \in Seq(A) : p \o q \in Seq(A) /\ Len(p \o q) = Len(p) + Len(q)
                                 /\ Len(p) \in Nat /\ Len(q) \in Nat
        BY ConcatProperties
      <4>6. g[k + 2] \in Seq(A) /\ Len(g[k + 2]) = Len(g[k + 1]) + Len(seqs[k + 2])
            /\ Len(g[k + 1]) \in Nat /\ Len(seqs[k + 2]) \in Nat
        BY <4>2, <4>3, <4>4, <4>5, Zenon
      <4>7. c * (k + 2) = c * (k + 1) + c /\ c * (k + 1) \in Nat
        OBVIOUS
      <4>8. \A p, q, x \in Nat : p <= x /\ q <= c => p + q <= x + c
        OBVIOUS
      <4>9. Len(g[k + 1]) + Len(seqs[k + 2]) <= c * (k + 1) + c
        BY <4>2, <4>3, <4>6, <4>7, <4>8
      <4>. QED BY <4>6, <4>7, <4>9, Zenon
    <3>2. (k + 1) + 1 = k + 2
      OBVIOUS
    <3>. QED BY <3>1, <3>2
  <2>. HIDE DEF T
  <2>9. n - 1 \in T
    <3>1. n - 1 \in Nat
      BY <1>0, <1>2
    <3>2. \A k \in Nat : k \in T
      BY <2>7, <2>8, Induct
    <3>. QED BY <3>1, <3>2
  <2>10. (n - 1) + 1 = n /\ n \in 1 .. n
    BY <1>0, <1>2
  <2>11. g[n] \in Seq(A) /\ Len(g[n]) <= c * n
    BY <2>9, <2>10 DEF T
  <2>12. Len(g[n]) \in Nat
    BY <2>11
  <2>. QED BY <2>1, <2>11, <2>12
<1>. QED BY <1>1, <1>2

-----------------------------------------------------------------------------
(* The arguments of the printers of floating point numbers.                *)
LEMMA FloatConstants ==
  /\ FloatMinSize \in Nat /\ FloatRooms \subseteq Nat
  /\ \A w \in FloatWindows : w \in Nat /\ w >= FloatMinSize
  /\ MaxExponent \in Nat /\ Replacement \in 1 .. 4
  /\ Int16 \in Nat /\ Int16 # 0 /\ Unsigned \in Nat /\ Unsigned > FloatMinSize
BY FloatAssumption DEF PrintFloat!FloatPrinterAssumption

(* The decimal digits of a number, as decoded.                             *)
DigitsIn(a) == Count(a.x.dec.m)

LEMMA FloatArgFacts ==
  ASSUME NEW a \in PrintFloat!Args
  PROVE  /\ a.printer \in PrintFloat!Printers /\ a.negative \in BOOLEAN
         /\ a.x.dec.m \in Nat /\ a.x.dec.e \in -900 .. 900
         /\ DigitsIn(a) \in 1 .. 90 /\ DigitsIn(a) + 8 <= FloatMinSize
         /\ PrintFloat!HasPunct(a) => 2 * DigitsIn(a) <= FloatMinSize
<1>0. a.x \in PrintFloat!Numbers /\ a.printer \in PrintFloat!Printers /\ a.negative \in BOOLEAN
  BY DEF PrintFloat!Args
<1>1. LET digits == DigitsIn(a) IN
      /\ a.x.dec \in [m: Nat, e: -900 .. 900]
      /\ digits + 8 <= FloatMinSize /\ digits <= 90
      /\ a.x.bits = <<>> => 2 * digits <= FloatMinSize
  BY <1>0, FloatAssumption DEF PrintFloat!NumbersAssumption, DigitsIn, Count
<1>2. a.x.dec.m \in Nat /\ a.x.dec.e \in -900 .. 900
  BY <1>1, ZenonT(60)
<1>3. DigitsIn(a) \in Nat /\ DigitsIn(a) >= 1
  BY <1>2, CountedDigits DEF DigitsIn
<1>4. PrintFloat!HasPunct(a) => a.x.bits = <<>>
  <2>1. a.x.bits # <<>> => a.printer = "fast_double"
    BY DEF PrintFloat!Args
  <2>. QED BY <2>1 DEF PrintFloat!HasPunct
<1>5. DigitsIn(a) \in 1 .. 90
  <2>1. DigitsIn(a) <= 90
    BY <1>1
  <2>. QED BY <1>3, <2>1
<1>6. PrintFloat!HasPunct(a) => 2 * DigitsIn(a) <= FloatMinSize
  BY <1>1, <1>4
<1>7. DigitsIn(a) + 8 <= FloatMinSize
  BY <1>1
<1>. QED BY <1>0, <1>2, <1>5, <1>6, <1>7, ZenonT(60)

LEMMA FormatFacts ==
  ASSUME NEW a \in PrintFloat!Args
  PROVE  /\ a.fmt.notation \in {"general", "fixed", "scientific"}
         /\ a.fmt.precision \in Nat \cup {-1} /\ a.fmt.width \in Nat
         /\ a.fmt.align \in {"left", "right", "split", "center"}
         /\ PrintFloat!IsFast(a) => a.fmt = PrintFloat!Default
<1>1. a.fmt \in Formats \cup {PrintFloat!Default} /\ (PrintFloat!IsFast(a) => a.fmt = PrintFloat!Default)
  BY DEF PrintFloat!Args
<1>2. \A f \in Formats : /\ f.notation \in {"general", "fixed", "scientific"}
                         /\ f.precision \in Nat \cup {-1} /\ f.width \in Nat
                         /\ f.align \in {"left", "right", "split", "center"}
  BY FloatAssumption DEF PrintFloat!FloatPrinterAssumption
<1>3. LET f == PrintFloat!Default IN
      /\ f.notation \in {"general", "fixed", "scientific"}
      /\ f.precision \in Nat \cup {-1} /\ f.width \in Nat
      /\ f.align \in {"left", "right", "split", "center"}
  BY DEF PrintFloat!Default, PrintFloat!Unspecified
<1>. QED BY <1>1, <1>2, <1>3

LEMMA PunctFacts ==
  ASSUME NEW a \in PrintFloat!Args
  PROVE  /\ a.punct.grouping \in Seq(Nat) \ {<<>>}
         /\ a.punct.sep \in 0 .. 4 /\ a.punct.point \in 0 .. 4
<1>1. a.punct \in Puncts \cup {PrintFloat!NoPunct}
  BY DEF PrintFloat!Args
<1>2. ASSUME NEW p \in Puncts
      PROVE  p.grouping \in Seq(Nat) \ {<<>>} /\ p.sep \in 0 .. 4 /\ p.point \in 0 .. 4
  <2>1. p.grouping \in Seq(0 .. Byte - 1) \ {<<>>} /\ p.sep \in 0 .. 4 /\ p.point \in 0 .. 4
    BY FloatAssumption DEF PrintFloat!FloatPrinterAssumption
  <2>2. \A size \in 0 .. Byte - 1 : size \in Nat
    OBVIOUS
  <2>3. p.grouping \in Seq(Nat)
    BY <2>1, <2>2, SeqOfMore, Zenon
  <2>. QED BY <2>1, <2>3
<1>3. LET p == PrintFloat!NoPunct IN
      p.grouping \in Seq(Nat) \ {<<>>} /\ p.sep \in 0 .. 4 /\ p.point \in 0 .. 4
  <2>1. <<0>> \in Seq(Nat) \ {<<>>}
    OBVIOUS
  <2>. QED BY <2>1 DEF PrintFloat!NoPunct
<1>. QED BY <1>1, <1>2, <1>3

-----------------------------------------------------------------------------
(* The digits, the exponent and the notation that double_printer_data      *)
(* chooses.                                                                *)
LEMMA RoundedNat ==
  ASSUME NEW m \in Nat, NEW k \in Nat
  PROVE  PrintFloat!Rounded(m, k) \in Nat
<1>. DEFINE p == Pow(10, k)  q == m \div p
            up == PrintFloat!Bit(m % p > p \div 2 \/ (m % p = p \div 2 /\ q % 2 = 1))
<1>1. p \in Nat /\ p # 0
  BY PowerNat
<1>2. q \in Nat
  BY <1>1, Quotient
<1>3. up \in Nat
  BY DEF PrintFloat!Bit
<1>4. PrintFloat!Rounded(m, k) = q + up
  BY Zenon DEF PrintFloat!Rounded, Pow
<1>. HIDE DEF q, up
<1>. QED BY <1>2, <1>3, <1>4

(* The point is there whenever the number is printed with one.             *)
DataOK(a, f) ==
  /\ f.m \in Nat /\ f.e \in Int /\ f.digits \in Int /\ f.extra \in Nat
  /\ PrintFloat!Finite(a) =>
       /\ f.e + f.digits = a.x.dec.e + DigitsIn(a) /\ f.digits <= DigitsIn(a)
       /\ f.sci /\ f.digits > 1 => f.point
       /\ ~f.sci /\ f.e < 0 => f.point
       /\ a.printer = "fast_double" /\ f.sci /\ f.digits = 1 => ~f.point

(* What the digits and the exponent of a number may be.                    *)
LEMMA DecimalFacts ==
  ASSUME NEW a \in PrintFloat!Args
  PROVE  /\ a.x.dec.m \in Nat /\ a.x.dec.e \in Int /\ -900 <= a.x.dec.e /\ a.x.dec.e <= 900
         /\ DigitsIn(a) \in Nat /\ 1 <= DigitsIn(a) /\ DigitsIn(a) <= 90
         /\ DigitsIn(a) + 8 <= FloatMinSize
<1>1. a.x.dec.m \in Nat /\ DigitsIn(a) + 8 <= FloatMinSize
  BY FloatArgFacts, SMTT(60)
<1>2. a.x.dec.e \in -900 .. 900
  BY FloatArgFacts, SMTT(60)
<1>3. DigitsIn(a) \in 1 .. 90
  BY FloatArgFacts
<1>4. \A e : e \in -900 .. 900 => e \in Int /\ -900 <= e /\ e <= 900
  OBVIOUS
<1>5. \A d : d \in 1 .. 90 => d \in Nat /\ 1 <= d /\ d <= 90
  OBVIOUS
<1>6. a.x.dec.e \in Int /\ -900 <= a.x.dec.e /\ a.x.dec.e <= 900
  BY <1>2, <1>4, ZenonT(60)
<1>7. DigitsIn(a) \in Nat /\ 1 <= DigitsIn(a) /\ DigitsIn(a) <= 90
  BY <1>3, <1>5, Zenon
<1>. QED BY <1>1, <1>6, <1>7, Zenon

LEMMA DataWithoutPrecision ==
  ASSUME NEW a \in PrintFloat!Args, NEW f, f = PrintFloat!WithoutPrecision(a)
  PROVE  DataOK(a, f)
<1>. DEFINE d == DigitsIn(a)  e == a.x.dec.e
            sci == CASE a.fmt.notation = "general" -> PrintFloat!Shortest(a, d)
                     [] OTHER -> a.fmt.notation = "scientific"
<1>1. f = [m |-> a.x.dec.m, e |-> e, digits |-> d, extra |-> 0, sci |-> sci,
           point |-> a.fmt.showpoint \/ (IF sci THEN d > 1 ELSE e < 0)]
  BY Zenon DEF PrintFloat!WithoutPrecision, DigitsIn, Count
<1>. HIDE DEF sci
<1>2. /\ f.m = a.x.dec.m /\ f.e = e /\ f.digits = d /\ f.extra = 0 /\ f.sci = sci
      /\ f.point = (a.fmt.showpoint \/ (IF sci THEN d > 1 ELSE e < 0))
  <2>. DEFINE point == a.fmt.showpoint \/ (IF sci THEN d > 1 ELSE e < 0)
  <2>1. f = [m |-> a.x.dec.m, e |-> e, digits |-> d, extra |-> 0, sci |-> sci, point |-> point]
    BY <1>1
  <2>. HIDE DEF point, d, e
  <2>2. /\ f.m = a.x.dec.m /\ f.e = e /\ f.digits = d /\ f.extra = 0 /\ f.sci = sci
        /\ f.point = point
    BY <2>1
  <2>. QED BY <2>2 DEF point
<1>3. a.x.dec.m \in Nat /\ e \in Int /\ d \in Int /\ d <= d
  <2>1. d \in Nat /\ a.x.dec.m \in Nat /\ e \in Int
    BY DecimalFacts
  <2>. HIDE DEF d, e
  <2>. QED BY <2>1
<1>4. a.printer = "fast_double" => ~a.fmt.showpoint
  BY FormatFacts DEF PrintFloat!IsFast, PrintFloat!Default
<1>. HIDE DEF d, e
<1>5. f.sci /\ f.digits > 1 => f.point
  BY <1>2, Zenon
<1>6. ~f.sci /\ f.e < 0 => f.point
  BY <1>2, Zenon
<1>7. a.printer = "fast_double" /\ f.sci /\ f.digits = 1 => ~f.point
  <2>1. ~(1 > 1)
    OBVIOUS
  <2>. QED BY <1>2, <1>4, <2>1, Zenon
<1>8. f.m \in Nat /\ f.e \in Int /\ f.digits \in Int /\ f.extra \in Nat
  BY <1>2, <1>3
<1>. QED BY <1>2, <1>3, <1>5, <1>6, <1>7, <1>8, Zenon DEF DataOK, d, e

LEMMA DataWithPrecision ==
  ASSUME NEW a \in PrintFloat!Args, a.fmt.precision # PrintFloat!Unspecified,
         NEW f, f = PrintFloat!WithPrecision(a)
  PROVE  DataOK(a, f)
<1>. DEFINE m == a.x.dec.m  e == a.x.dec.e  d == DigitsIn(a)  p == a.fmt.precision
            xz == PrintFloat!Zeros(a, d)
            general == a.fmt.notation = "general"
            sci == CASE general -> e + d - 1 < -4 \/ e + d - 1 >= PrintFloat!Larger(p, 1)
                     [] OTHER -> a.fmt.notation = "scientific"
            point == a.fmt.showpoint \/ (IF general THEN (IF sci THEN d # 1 ELSE e < 0) ELSE p # 0)
            short == IF general THEN PrintFloat!WithoutZeros(PrintFloat!Rounded(m, -xz))
                                ELSE [m |-> PrintFloat!Rounded(m, -xz), zeros |-> 0]
            digits == d + xz - short.zeros
            exp == e - xz + short.zeros
            frac == IF sci THEN digits - 1 ELSE PrintFloat!Larger(-exp, 0)
<1>1. f = IF xz >= 0
          THEN [m |-> m, e |-> e, digits |-> d, extra |-> xz, sci |-> sci, point |-> point]
          ELSE [m |-> short.m, e |-> exp, digits |-> digits, extra |-> 0, sci |-> sci,
                point |-> IF general THEN a.fmt.showpoint \/ frac # 0 ELSE point]
  BY Zenon DEF PrintFloat!WithPrecision, DigitsIn, Count
<1>2. m \in Nat /\ e \in Int /\ d \in Nat /\ d >= 1 /\ p \in Nat
  <2>1. m \in Nat /\ e \in Int /\ d \in Nat /\ 1 <= d
    BY DecimalFacts
  <2>2. p \in Nat
    BY FormatFacts DEF PrintFloat!Unspecified
  <2>. HIDE DEF m, e, d, p
  <2>. QED BY <2>1, <2>2
<1>3. a.fmt.notation \in {"general", "fixed", "scientific"}
  BY FormatFacts
<1>4. /\ a.fmt.notation = "fixed" => xz = p - PrintFloat!Larger(-e, 0)
      /\ a.fmt.notation = "scientific" => xz = p - (d - 1)
      /\ xz \in Int
  <2>1. a.fmt.notation = "fixed" => xz = p - PrintFloat!Larger(-e, 0)
    BY DEF PrintFloat!Zeros
  <2>2. a.fmt.notation = "scientific" => xz = p - (d - 1)
    BY DEF PrintFloat!Zeros
  <2>3. general => xz = IF PrintFloat!Larger(p, 1) < d \/ a.fmt.showpoint THEN PrintFloat!Larger(p, 1) - d ELSE 0
    BY DEF PrintFloat!Zeros
  <2>. HIDE DEF xz, d, e, p
  <2>4. PrintFloat!Larger(-e, 0) \in Int /\ PrintFloat!Larger(p, 1) \in Int
    BY <1>2 DEF PrintFloat!Larger
  <2>. QED BY <1>2, <1>3, <2>1, <2>2, <2>3, <2>4
<1>5. /\ ~sci /\ ~general => a.fmt.notation = "fixed"
      /\ sci /\ ~general => a.fmt.notation = "scientific"
  BY <1>3
<1>6. ~(a.printer = "fast_double")
  BY FormatFacts DEF PrintFloat!IsFast, PrintFloat!Default
<1>. HIDE DEF sci, xz
<1>7. CASE xz >= 0
  <2>1. /\ f.m = m /\ f.e = e /\ f.digits = d /\ f.extra = xz /\ f.sci = sci /\ f.point = point
    <3>. HIDE DEF short, digits, exp, frac, point, m, e, d
    <3>1. f = [m |-> m, e |-> e, digits |-> d, extra |-> xz, sci |-> sci, point |-> point]
      BY <1>1, <1>7, Zenon
    <3>. QED BY <3>1
  <2>. HIDE DEF m, e, d, p, general, sci, short
  <2>2. f.sci /\ f.digits > 1 => f.point
    <3>1. ASSUME sci, d > 1 PROVE point
      <4>1. CASE general
        BY <1>2, <3>1, <4>1
      <4>2. CASE ~general
        BY <1>2, <1>4, <1>5, <1>7, <3>1, <4>2
      <4>. QED BY <4>1, <4>2
    <3>. HIDE DEF point
    <3>. QED BY <2>1, <3>1, Zenon
  <2>3. ~f.sci /\ f.e < 0 => f.point
    <3>1. ASSUME ~sci, e < 0 PROVE point
      <4>1. CASE general
        BY <3>1, <4>1
      <4>2. CASE ~general
        <5>1. xz = p + e
          BY <1>2, <1>4, <1>5, <3>1, <4>2 DEF PrintFloat!Larger
        <5>. QED BY <1>2, <1>7, <3>1, <4>2, <5>1
      <4>. QED BY <4>1, <4>2
    <3>. HIDE DEF point
    <3>. QED BY <2>1, <3>1, Zenon
  <2>4. f.m \in Nat /\ f.e \in Int /\ f.digits \in Int /\ f.extra \in Nat
    BY <1>2, <1>4, <1>7, <2>1
  <2>5. f.e + f.digits = e + d /\ f.digits <= d
    BY <1>2, <2>1
  <2>. QED BY <1>6, <2>2, <2>3, <2>4, <2>5, Zenon DEF DataOK, d, e
<1>8. CASE ~(xz >= 0)
  <2>1. /\ f.m = short.m /\ f.e = exp /\ f.digits = digits /\ f.extra = 0 /\ f.sci = sci
        /\ f.point = (IF general THEN a.fmt.showpoint \/ frac # 0 ELSE point)
    <3>. HIDE DEF short, digits, exp, frac, point, m, e, d
    <3>. DEFINE shown == IF general THEN a.fmt.showpoint \/ frac # 0 ELSE point
    <3>1. f = [m |-> short.m, e |-> exp, digits |-> digits, extra |-> 0, sci |-> sci,
               point |-> shown]
      BY <1>1, <1>8, Zenon
    <3>. HIDE DEF shown
    <3>2. /\ f.m = short.m /\ f.e = exp /\ f.digits = digits /\ f.extra = 0 /\ f.sci = sci
          /\ f.point = shown
      BY <3>1
    <3>. QED BY <3>2 DEF shown
  <2>2. PrintFloat!Rounded(m, -xz) \in Nat
    <3>1. -xz \in Nat
      BY <1>4, <1>8
    <3>. QED BY <1>2, <3>1, RoundedNat
  <2>3. short.m \in Nat /\ short.zeros \in Nat /\ (~general => short.zeros = 0)
    <3>1. CASE general
      BY <2>2, <3>1, ZerosFacts
    <3>2. CASE ~general
      BY <2>2, <3>2
    <3>. QED BY <3>1, <3>2
  <2>. HIDE DEF m, e, d, p, general, short
  <2>4. digits \in Int /\ exp \in Int /\ digits <= d /\ exp + digits = e + d
    BY <1>2, <1>4, <1>8, <2>3
  <2>5. f.sci /\ f.digits > 1 => f.point
    <3>1. ASSUME sci, digits > 1 PROVE IF general THEN a.fmt.showpoint \/ frac # 0 ELSE point
      <4>1. CASE general
        <5>1. frac = digits - 1
          BY <3>1
        <5>2. frac # 0
          <6>. HIDE DEF digits, frac
          <6>. QED BY <2>4, <3>1, <5>1
        <5>. QED BY <4>1, <5>2
      <4>2. CASE ~general
        <5>1. digits = p + 1
          BY <1>2, <1>4, <1>5, <2>3, <3>1, <4>2
        <5>2. p # 0
          BY <1>2, <3>1, <5>1
        <5>. QED BY <4>2, <5>2
      <4>. QED BY <4>1, <4>2
    <3>. HIDE DEF digits, exp, frac, point
    <3>. QED BY <2>1, <3>1, Zenon
  <2>6. ~f.sci /\ f.e < 0 => f.point
    <3>1. ASSUME ~sci, exp < 0 PROVE IF general THEN a.fmt.showpoint \/ frac # 0 ELSE point
      <4>1. CASE general
        <5>1. frac = PrintFloat!Larger(-exp, 0)
          BY <3>1
        <5>2. frac # 0
          <6>. HIDE DEF exp, frac
          <6>. QED BY <2>4, <3>1, <5>1 DEF PrintFloat!Larger
        <5>. QED BY <4>1, <5>2
      <4>2. CASE ~general
        <5>1. xz = p - PrintFloat!Larger(-e, 0) /\ exp = e - xz
          BY <1>2, <1>4, <1>5, <2>3, <3>1, <4>2
        <5>2. p # 0
          <6>. HIDE DEF exp
          <6>. QED BY <1>2, <1>8, <2>4, <3>1, <5>1 DEF PrintFloat!Larger
        <5>. QED BY <4>2, <5>2
      <4>. QED BY <4>1, <4>2
    <3>. HIDE DEF digits, exp, frac, point
    <3>. QED BY <2>1, <3>1, Zenon
  <2>7. f.m \in Nat /\ f.e \in Int /\ f.digits \in Int /\ f.extra \in Nat
    BY <2>1, <2>3, <2>4
  <2>8. f.e + f.digits = e + d /\ f.digits <= d
    BY <2>1, <2>4
  <2>. QED BY <1>6, <2>5, <2>6, <2>7, <2>8, Zenon DEF DataOK, d, e
<1>. QED BY <1>7, <1>8

LEMMA DataFacts ==
  ASSUME NEW a \in PrintFloat!Args
  PROVE  DataOK(a, PrintFloat!Data(a))
<1>1. CASE ~PrintFloat!Finite(a)
  <2>1. PrintFloat!Data(a) = [m |-> 0, e |-> 0, digits |-> 0, extra |-> 0, sci |-> FALSE, point |-> FALSE]
    BY <1>1 DEF PrintFloat!Data
  <2>. QED BY <1>1, <2>1 DEF DataOK
<1>2. CASE PrintFloat!Finite(a) /\ a.fmt.precision = PrintFloat!Unspecified
  BY <1>2, DataWithoutPrecision DEF PrintFloat!Data
<1>3. CASE PrintFloat!Finite(a) /\ a.fmt.precision # PrintFloat!Unspecified
  BY <1>3, DataWithPrecision DEF PrintFloat!Data
<1>. QED BY <1>1, <1>2, <1>3

-----------------------------------------------------------------------------
(* No group is larger, with its separator, than what recycle() leaves; and *)
(* the groups are as many as the digits need: ~LargeGroup and              *)
(* GroupsSuffice, of some argument and its data.                           *)
InWindow(a) ==
  LET f == PrintFloat!Data(a) IN
  ~ /\ PrintFloat!Amplifies(a, f)
    /\ \E size \in PrintFloat!ToSet(PrintFloat!StoredSizes(a, f)) : size + a.punct.sep > FloatMinSize

Suffice(a) ==
  LET f == PrintFloat!Data(a) IN PrintFloat!Amplifies(a, f) => ~PrintFloat!GroupsRunOut(a, f)

(* A piece that keeps to what it asked ensure() for.  Only the pieces of   *)
(* groups may ask for more than recycle() leaves.                          *)
Fits(a, p) ==
  \/ /\ p.op = "store" /\ p.need \in Nat /\ p.units \in Nat /\ p.units <= p.need
     /\ InWindow(a) => p.need <= FloatMinSize
  \/ p.op = "fill" /\ Len(p.text) \in Nat
  \/ /\ p.op = "grouped"
     /\ a.punct.sep = 1 => PrintFloat!Units(a, p.text) \in 0 .. FloatMinSize

AllFit(a, s) == \E A : s \in Seq(A) /\ \A p \in A : Fits(a, p)

LEMMA NothingFits == ASSUME NEW a PROVE AllFit(a, <<>>)
<1>. DEFINE A == {}
<1>1. <<>> \in Seq(A) /\ \A p \in A : Fits(a, p)
  OBVIOUS
<1>. HIDE DEF A
<1>. QED BY <1>1, Zenon DEF AllFit

LEMMA OneFits ==
  ASSUME NEW a, NEW p, Fits(a, p)
  PROVE  AllFit(a, <<p>>)
<1>. DEFINE A == {p}
<1>1. <<p>> \in Seq(A) /\ \A q \in A : q = p
  OBVIOUS
<1>2. \A q \in A : Fits(a, q)
  BY <1>1, Zenon
<1>. HIDE DEF A
<1>. QED BY <1>1, <1>2, Zenon DEF AllFit

LEMMA BothFit ==
  ASSUME NEW a, NEW s, NEW t, AllFit(a, s), AllFit(a, t)
  PROVE  AllFit(a, s \o t)
<1>1. PICK A : s \in Seq(A) /\ \A p \in A : Fits(a, p)
  BY DEF AllFit
<1>2. PICK B : t \in Seq(B) /\ \A p \in B : Fits(a, p)
  BY DEF AllFit
<1>. DEFINE C == A \cup B
<1>3. s \in Seq(C) /\ t \in Seq(C)
  <2>1. \A x \in A : x \in C
    OBVIOUS
  <2>2. \A x \in B : x \in C
    OBVIOUS
  <2>. HIDE DEF C
  <2>. QED BY <1>1, <1>2, <2>1, <2>2, SeqOfMore, Zenon
<1>4. s \o t \in Seq(C)
  BY <1>3
<1>5. \A p \in C : Fits(a, p)
  BY <1>1, <1>2
<1>. QED BY <1>4, <1>5 DEF AllFit

LEMMA FirstFits ==
  ASSUME NEW a, NEW s, AllFit(a, s), s # <<>>
  PROVE  Fits(a, Head(s)) /\ AllFit(a, Tail(s))
<1>1. PICK A : s \in Seq(A) /\ \A p \in A : Fits(a, p)
  BY DEF AllFit
<1>2. Head(s) \in A /\ Tail(s) \in Seq(A)
  BY <1>1, TailWithin
<1>. QED BY <1>1, <1>2, Zenon DEF AllFit

LEMMA FlattenedFit ==
  ASSUME NEW a, NEW n \in Nat, NEW seqs, seqs = [i \in 1 .. n |-> seqs[i]],
         \A i \in 1 .. n : AllFit(a, seqs[i]), \A i \in 1 .. n : Len(seqs[i]) <= 2
  PROVE  AllFit(a, PrintFloat!FlattenSeq(seqs))
<1>. DEFINE A == UNION {{seqs[i][j] : j \in 1 .. Len(seqs[i])} : i \in 1 .. n}
<1>1. ASSUME NEW i \in 1 .. n
      PROVE  /\ seqs[i] \in Seq(A)
             /\ \A j \in 1 .. Len(seqs[i]) : Fits(a, seqs[i][j])
  <2>1. PICK B : seqs[i] \in Seq(B) /\ \A p \in B : Fits(a, p)
    BY DEF AllFit
  <2>2. /\ Len(seqs[i]) \in Nat /\ seqs[i] = [j \in 1 .. Len(seqs[i]) |-> seqs[i][j]]
        /\ \A j \in 1 .. Len(seqs[i]) : seqs[i][j] \in B
    BY <2>1
  <2>3. \A j \in 1 .. Len(seqs[i]) : seqs[i][j] \in A
    OBVIOUS
  <2>. HIDE DEF A
  <2>4. seqs[i] \in Seq(A)
    BY <2>2, <2>3
  <2>. QED BY <2>1, <2>2, <2>4
<1>2. \A p \in A : Fits(a, p)
  <2>1. ASSUME NEW p \in A PROVE Fits(a, p)
    <3>1. PICK i \in 1 .. n : p \in {seqs[i][j] : j \in 1 .. Len(seqs[i])}
      BY Zenon
    <3>2. PICK j \in 1 .. Len(seqs[i]) : p = seqs[i][j]
      BY <3>1, Zenon
    <3>. QED BY <1>1, <3>2, Zenon
  <2>. HIDE DEF A
  <2>. QED BY <2>1
<1>. HIDE DEF A
<1>3. seqs \in Seq(Seq(A)) /\ Len(seqs) = n
  BY <1>1
<1>4. \A i \in 1 .. Len(seqs) : Len(seqs[i]) <= 2
  BY <1>3
<1>5. 2 \in Nat
  OBVIOUS
<1>6. PrintFloat!FlattenSeq(seqs) \in Seq(A)
  BY <1>3, <1>4, <1>5, Flattened, Zenon
<1>. QED BY <1>2, <1>6, Zenon DEF AllFit

LEMMA RunFits ==
  ASSUME NEW a, NEW n \in Int, NEW x
  PROVE  AllFit(a, PrintFloat!Run(n, x))
<1>1. CASE n <= 0
  BY <1>1, NothingFits DEF PrintFloat!Run
<1>2. CASE ~(n <= 0)
  <2>. DEFINE p == [op |-> "fill", text |-> PrintFloat!Times(n, x)]
  <2>1. PrintFloat!Run(n, x) = <<p>>
    BY <1>2, Zenon DEF PrintFloat!Run
  <2>2. Len(PrintFloat!Times(n, x)) = n /\ n \in Nat
    BY <1>2 DEF PrintFloat!Times
  <2>3. Fits(a, p)
    <3>1. p.op = "fill" /\ p.text = PrintFloat!Times(n, x)
      OBVIOUS
    <3>. HIDE DEF p
    <3>. QED BY <2>2, <3>1, Zenon DEF Fits
  <2>. HIDE DEF p
  <2>. QED BY <2>1, <2>3, OneFits, Zenon
<1>. QED BY <1>1, <1>2

LEMMA GroupPieceFits ==
  ASSUME NEW a, NEW need \in Nat, NEW units \in Nat, units <= need,
         InWindow(a) => need <= FloatMinSize, NEW text
  PROVE  AllFit(a, PrintFloat!Piece(need, text, units))
<1>. DEFINE p == [op |-> "store", need |-> need, text |-> text, units |-> units]
<1>1. PrintFloat!Piece(need, text, units) = <<p>>
  BY Zenon DEF PrintFloat!Piece
<1>2. p.op = "store" /\ p.need = need /\ p.units = units
  OBVIOUS
<1>. HIDE DEF p
<1>3. Fits(a, p)
  BY <1>2, Zenon DEF Fits
<1>. QED BY <1>1, <1>3, OneFits, Zenon

LEMMA PieceFits ==
  ASSUME NEW a, NEW need \in Nat, NEW units \in Nat, units <= need, need <= FloatMinSize, NEW text
  PROVE  AllFit(a, PrintFloat!Piece(need, text, units))
BY GroupPieceFits

LEMMA SmallUnsigned ==
  ASSUME NEW n \in Nat, n <= FloatMinSize
  PROVE  PrintFloat!ToUnsigned(n) = n
<1>1. n < Unsigned /\ Unsigned \in Nat /\ Unsigned # 0
  BY FloatConstants
<1>2. n = Unsigned * 0 + n
  BY <1>1
<1>3. (Unsigned * 0 + n) % Unsigned = n
  BY <1>1, QuotientIs
<1>. QED BY <1>2, <1>3 DEF PrintFloat!ToUnsigned

LEMMA WriteIntFits ==
  ASSUME NEW a, NEW n, NEW digits \in Nat, digits <= FloatMinSize
  PROVE  AllFit(a, PrintFloat!WriteInt(n, digits))
BY SmallUnsigned, PieceFits DEF PrintFloat!WriteInt

-----------------------------------------------------------------------------
(* How many units a text takes.                                            *)
LEMMA SameCardinality ==
  ASSUME NEW S
  PROVE  PrintFloat!Cardinality(S) = Cardinality(S)
BY Zenon DEF PrintFloat!Cardinality, Cardinality

LEMMA NowhereIn ==
  ASSUME NEW s \in Seq(Int), NEW x, \A i \in 1 .. Len(s) : s[i] # x
  PROVE  Cardinality({i \in DOMAIN s : s[i] = x}) = 0
<1>1. {i \in DOMAIN s : s[i] = x} = {}
  OBVIOUS
<1>. QED BY <1>1, FS_EmptySet, Zenon

LEMMA UnitsWithoutPoint ==
  ASSUME NEW a \in PrintFloat!Args, NEW s \in Seq(Int),
         \A i \in 1 .. Len(s) : s[i] # PrintFloat!Point,
         a.punct.sep = 1 \/ \A i \in 1 .. Len(s) : s[i] # PrintFloat!Separator
  PROVE  PrintFloat!Units(a, s) = Len(s)
<1>. DEFINE seps == Cardinality({i \in DOMAIN s : s[i] = PrintFloat!Separator})
            points == Cardinality({i \in DOMAIN s : s[i] = PrintFloat!Point})
<1>1. PrintFloat!Units(a, s) = Len(s) + (a.punct.sep - 1) * seps + (PrintFloat!PointUnits(a) - 1) * points
  BY SameCardinality, Zenon DEF PrintFloat!Units
<1>2. points = 0
  BY NowhereIn, Zenon
<1>3. seps \in Nat
  <2>. DEFINE S == {i \in DOMAIN s : s[i] = PrintFloat!Separator}
  <2>1. IsFiniteSet(1 .. Len(s)) /\ S \in SUBSET (1 .. Len(s))
    <3>1. 1 \in Int /\ Len(s) \in Int
      OBVIOUS
    <3>2. IsFiniteSet(1 .. Len(s))
      BY <3>1, FS_Interval
    <3>. QED BY <3>2
  <2>. HIDE DEF S
  <2>2. IsFiniteSet(S)
    BY <2>1, FS_Subset, Zenon
  <2>3. Cardinality(S) \in Nat
    BY <2>2, FS_CardinalityType, Zenon
  <2>. QED BY <2>3 DEF S
<1>4. a.punct.sep = 1 \/ seps = 0
  BY NowhereIn, Zenon
<1>5. a.punct.sep \in Int /\ PrintFloat!PointUnits(a) \in Int /\ Len(s) \in Nat
  <2>1. a.punct.sep \in Int /\ a.punct.point \in Int
    BY PunctFacts, SMTT(60)
  <2>2. Replacement \in Int
    BY FloatConstants
  <2>. QED BY <2>1, <2>2 DEF PrintFloat!PointUnits
<1>. HIDE DEF seps, points
<1>6. (a.punct.sep - 1) * seps = 0
  BY <1>3, <1>4, <1>5
<1>7. (PrintFloat!PointUnits(a) - 1) * points = 0
  BY <1>2, <1>5
<1>. QED BY <1>1, <1>5, <1>6, <1>7

LEMMA PointUnitsFacts ==
  ASSUME NEW a \in PrintFloat!Args
  PROVE  PrintFloat!PointUnits(a) \in Nat /\ 1 <= PrintFloat!PointUnits(a) /\ PrintFloat!PointUnits(a) <= 4
<1>1. a.punct.point \in 0 .. 4
  BY PunctFacts
<1>2. Replacement \in 1 .. 4
  BY FloatConstants
<1>. QED BY <1>1, <1>2 DEF PrintFloat!PointUnits

(* A point alone, or behind one digit.                                     *)
LEMMA UnitsWithPoint ==
  ASSUME NEW a \in PrintFloat!Args, NEW d \in Nat
  PROVE  /\ PrintFloat!Units(a, <<PrintFloat!Point>>) = PrintFloat!PointUnits(a)
         /\ PrintFloat!Units(a, <<d, PrintFloat!Point>>) = 1 + PrintFloat!PointUnits(a)
<1>. DEFINE P == PrintFloat!Point  S == PrintFloat!Separator  u == PrintFloat!PointUnits(a)
            places(s, x) == Cardinality({i \in DOMAIN s : s[i] = x})
<1>0. P = -6 /\ S = -1
  BY DEF PrintFloat!Point, PrintFloat!Separator
<1>1. ASSUME NEW s, NEW k \in Nat, Len(s) = k, places(s, S) = 0, places(s, P) = 1
      PROVE  PrintFloat!Units(a, s) = k - 1 + u
  <2>1. PrintFloat!Units(a, s) = Len(s) + (a.punct.sep - 1) * places(s, S) + (u - 1) * places(s, P)
    BY SameCardinality, Zenon DEF PrintFloat!Units
  <2>2. a.punct.sep \in Int /\ u \in Int
    BY PunctFacts, PointUnitsFacts
  <2>. HIDE DEF places
  <2>. QED BY <1>1, <2>1, <2>2
<1>2. ASSUME NEW s \in Seq(Int), \A i \in 1 .. Len(s) : s[i] # S PROVE places(s, S) = 0
  BY <1>2, NowhereIn, Zenon
<1>3. ASSUME NEW s, NEW k, {i \in DOMAIN s : s[i] = P} = {k} PROVE places(s, P) = 1
  BY <1>3, FS_Singleton, Zenon
<1>4. PrintFloat!Units(a, <<P>>) = u
  <2>. DEFINE s == <<P>>
  <2>1. s \in Seq(Int) /\ Len(s) = 1 /\ \A i \in 1 .. Len(s) : s[i] # S
    BY <1>0
  <2>2. {i \in DOMAIN s : s[i] = P} = {1}
    OBVIOUS
  <2>. HIDE DEF s, P, S
  <2>3. places(s, S) = 0 /\ places(s, P) = 1
    BY <1>2, <1>3, <2>1, <2>2, Zenon
  <2>. HIDE DEF places
  <2>4. PrintFloat!Units(a, s) = 1 - 1 + u
    <3>1. 1 \in Nat
      OBVIOUS
    <3>. QED BY <1>1, <2>1, <2>3, <3>1, Zenon
  <2>5. u \in Int
    BY PointUnitsFacts
  <2>. QED BY <2>4, <2>5 DEF s
<1>5. PrintFloat!Units(a, <<d, P>>) = 1 + u
  <2>. DEFINE s == <<d, P>>
  <2>1. s \in Seq(Int) /\ Len(s) = 2 /\ \A i \in 1 .. Len(s) : s[i] # S
    BY <1>0
  <2>2. {i \in DOMAIN s : s[i] = P} = {2}
    BY <1>0
  <2>. HIDE DEF s, P, S
  <2>3. places(s, S) = 0 /\ places(s, P) = 1
    BY <1>2, <1>3, <2>1, <2>2, Zenon
  <2>. HIDE DEF places
  <2>4. PrintFloat!Units(a, s) = 2 - 1 + u
    <3>1. 2 \in Nat
      OBVIOUS
    <3>. QED BY <1>1, <2>1, <2>3, <3>1, Zenon
  <2>5. u \in Int
    BY PointUnitsFacts
  <2>. QED BY <2>4, <2>5 DEF s
<1>. QED BY <1>4, <1>5

LEMMA EnsuredFits ==
  ASSUME NEW a, NEW text, PrintFloat!Units(a, text) \in Nat, PrintFloat!Units(a, text) <= FloatMinSize
  PROVE  AllFit(a, PrintFloat!Ensured(a, text))
<1>1. CASE text = <<>>
  BY <1>1, NothingFits DEF PrintFloat!Ensured
<1>2. CASE text # <<>>
  <2>. DEFINE u == PrintFloat!Units(a, text)
  <2>1. u \in Nat /\ u <= FloatMinSize /\ u <= u
    OBVIOUS
  <2>2. PrintFloat!Ensured(a, text) = PrintFloat!Piece(u, text, u)
    BY <1>2 DEF PrintFloat!Ensured
  <2>. HIDE DEF u
  <2>. QED BY <2>1, <2>2, PieceFits, Zenon
<1>. QED BY <1>1, <1>2

-----------------------------------------------------------------------------
(* The texts that are stored, and how long they are.                       *)
Plain(s) ==
  /\ s \in Seq(Int)
  /\ \A i \in 1 .. Len(s) : s[i] # PrintFloat!Point /\ s[i] # PrintFloat!Separator

(* What stands for a digit, for a sign, or for something else.             *)
PlainUnit(x) == x \in Int /\ x # -6 /\ x # -1

LEMMA PlainIs ==
  ASSUME NEW A, \A x \in A : PlainUnit(x), NEW s \in Seq(A)
  PROVE  Plain(s)
<1>1. \A x \in A : x \in Int
  BY DEF PlainUnit
<1>2. s \in Seq(Int)
  BY <1>1, SeqOfMore, Zenon
<1>3. \A i \in 1 .. Len(s) : s[i] \in A
  OBVIOUS
<1>. QED BY <1>2, <1>3 DEF Plain, PlainUnit, PrintFloat!Point, PrintFloat!Separator

LEMMA PlainFits ==
  ASSUME NEW a \in PrintFloat!Args, NEW s, Plain(s), Len(s) <= FloatMinSize
  PROVE  AllFit(a, PrintFloat!Ensured(a, s))
<1>1. PrintFloat!Units(a, s) = Len(s) /\ Len(s) \in Nat
  BY UnitsWithoutPoint DEF Plain
<1>. QED BY <1>1, EnsuredFits

LEMMA SignFacts ==
  ASSUME NEW a \in PrintFloat!Args
  PROVE  Plain(PrintFloat!SignText(a)) /\ Len(PrintFloat!SignText(a)) <= 1
<1>. DEFINE A == {-4, -5}
<1>1. \A x \in A : PlainUnit(x)
  BY DEF PlainUnit
<1>2. /\ <<>> \in Seq(A) /\ <<-4>> \in Seq(A) /\ <<-5>> \in Seq(A)
      /\ Len(<<>>) <= 1 /\ Len(<<-4>>) <= 1 /\ Len(<<-5>>) <= 1
  OBVIOUS
<1>. HIDE DEF A
<1>3. Plain(<<>>) /\ Plain(<<-4>>) /\ Plain(<<-5>>)
  BY <1>1, <1>2, PlainIs, Zenon
<1>4. \/ PrintFloat!SignText(a) = <<>> \/ PrintFloat!SignText(a) = <<-4>>
      \/ PrintFloat!SignText(a) = <<-5>>
  BY DEF PrintFloat!SignText, PrintFloat!Minus, PrintFloat!Plus
<1>. QED BY <1>2, <1>3, <1>4, Zenon

LEMMA SpecialFacts ==
  ASSUME NEW a \in PrintFloat!Args
  PROVE  Plain(PrintFloat!Special(a)) /\ Len(PrintFloat!Special(a)) = 3
<1>. DEFINE A == {-8, -9}
<1>1. \A x \in A : PlainUnit(x)
  BY DEF PlainUnit
<1>2. PrintFloat!Special(a) \in Seq(A) /\ Len(PrintFloat!Special(a)) = 3
  BY DEF PrintFloat!Special, PrintFloat!Times, PrintFloat!NotANumber, PrintFloat!Infinite
<1>. HIDE DEF A
<1>. QED BY <1>1, <1>2, PlainIs, Zenon

(* The exponent has two or three digits.                                   *)
LEMMA TwoOrThree ==
  ASSUME NEW n \in Nat, n <= 999
  PROVE  Count(n) \in 1 .. 3 /\ (Count(n) <= 2 <=> n <= 99)
<1>1. Pow(10, 1 + 1) = 100 /\ Pow(10, 2 + 1) = 1000
  <2>1. /\ Pow(10, 0 + 1) = 10 * Pow(10, 0) /\ Pow(10, 1 + 1) = 10 * Pow(10, 1)
        /\ Pow(10, 2 + 1) = 10 * Pow(10, 2) /\ Pow(10, 0) = 1
    BY PowerSteps DEF Pow
  <2>2. 0 + 1 = 1 /\ 1 + 1 = 2
    OBVIOUS
  <2>. QED BY <2>1, <2>2
<1>2. Count(n) \in Nat /\ Count(n) >= 1
  BY CountedDigits
<1>3. n < 100 <=> Count(n) <= 1 + 1
  <2>1. 1 \in Nat
    OBVIOUS
  <2>2. n < Pow(10, 1 + 1) <=> Count(n) <= 1 + 1
    BY <2>1, FewDigits
  <2>. QED BY <1>1, <2>2
<1>4. n < 1000 <=> Count(n) <= 2 + 1
  <2>1. 2 \in Nat
    OBVIOUS
  <2>2. n < Pow(10, 2 + 1) <=> Count(n) <= 2 + 1
    BY <2>1, FewDigits
  <2>. QED BY <1>1, <2>2
<1>. QED BY <1>2, <1>3, <1>4

LEMMA ExponentFacts ==
  ASSUME NEW f, PrintFloat!ExponentOf(f) \in -999 .. 999
  PROVE  /\ Plain(PrintFloat!ExponentText(f))
         /\ Len(PrintFloat!ExponentText(f)) = PrintFloat!ExponentUnits(f)
         /\ PrintFloat!ExponentUnits(f) \in 4 .. 5
<1>. DEFINE e == PrintFloat!ExponentOf(f)  n == PrintFloat!Abs(e)  t == Digits(n)
            sign == IF e < 0 THEN PrintFloat!Minus ELSE PrintFloat!Plus
            zero == IF Len(t) = 1 THEN <<0>> ELSE <<>>
            D == 0 .. 9  A == D \cup {-7, -4, -5}
<1>1. n \in Nat /\ n <= 999
  BY SMTT(60) DEF PrintFloat!Abs
<1>2. Len(t) \in 1 .. 3 /\ (Len(t) <= 2 <=> n <= 99) /\ t \in Seq(0 .. 9)
  <2>. HIDE DEF n
  <2>1. Count(n) \in 1 .. 3 /\ (Count(n) <= 2 <=> n <= 99)
    BY <1>1, TwoOrThree
  <2>2. Count(n) = Len(t) /\ t \in Seq(0 .. 9)
    BY <1>1, CountedDigits, DigitsInSeq
  <2>. HIDE DEF t
  <2>. QED BY <2>1, <2>2
<1>3. PrintFloat!ExponentText(f) = (<<PrintFloat!Exponent, sign>> \o zero) \o t
  BY ZenonT(60) DEF PrintFloat!ExponentText, Digits
<1>4. PrintFloat!ExponentUnits(f) = IF n > 99 THEN 5 ELSE 4
  BY DEF PrintFloat!ExponentUnits, PrintFloat!Bit
<1>5. <<PrintFloat!Exponent, sign>> \in Seq(A) /\ Len(<<PrintFloat!Exponent, sign>>) = 2
  BY DEF PrintFloat!Exponent, PrintFloat!Minus, PrintFloat!Plus
<1>. HIDE DEF n, t, sign
<1>6. zero \in Seq(A) /\ Len(zero) = (IF Len(t) = 1 THEN 1 ELSE 0)
  <2>1. <<0>> \in Seq(A) /\ Len(<<0>>) = 1
    OBVIOUS
  <2>2. <<>> \in Seq(A) /\ Len(<<>>) = 0
    OBVIOUS
  <2>. HIDE DEF A
  <2>3. CASE Len(t) = 1
    <3>1. zero = <<0>>
      BY <2>3, ZenonT(60)
    <3>. HIDE DEF zero
    <3>. QED BY <2>1, <2>3, <3>1
  <2>4. CASE Len(t) # 1
    <3>1. zero = <<>>
      BY <2>4, ZenonT(60)
    <3>. HIDE DEF zero
    <3>. QED BY <2>2, <2>4, <3>1
  <2>. QED BY <2>3, <2>4
<1>7. t \in Seq(A)
  <2>1. t \in Seq(D)
    BY <1>2
  <2>. HIDE DEF D
  <2>2. \A x \in D : x \in A
    OBVIOUS
  <2>. HIDE DEF A
  <2>. QED BY <2>1, <2>2, SeqOfMore, ZenonT(60)
<1>8. \A x \in A : PlainUnit(x)
  BY DEF PlainUnit
<1>. HIDE DEF A, zero
<1>9. \A p, q \in Seq(A) : p \o q \in Seq(A) /\ Len(p \o q) = Len(p) + Len(q)
  OBVIOUS
<1>10. /\ PrintFloat!ExponentText(f) \in Seq(A)
       /\ Len(PrintFloat!ExponentText(f)) = (2 + Len(zero)) + Len(t)
  <2>. DEFINE head == <<PrintFloat!Exponent, sign>>
  <2>1. head \in Seq(A) /\ Len(head) = 2
    BY <1>5
  <2>2. PrintFloat!ExponentText(f) = (head \o zero) \o t
    BY <1>3
  <2>. HIDE DEF head
  <2>3. head \o zero \in Seq(A) /\ Len(head \o zero) = 2 + Len(zero)
    BY <2>1, <1>6, <1>9, ZenonT(60)
  <2>4. (head \o zero) \o t \in Seq(A) /\ Len((head \o zero) \o t) = Len(head \o zero) + Len(t)
    BY <2>3, <1>7, <1>9
  <2>. QED BY <2>2, <2>3, <2>4
<1>11. Plain(PrintFloat!ExponentText(f))
  BY <1>8, <1>10, PlainIs, ZenonT(60)
<1>12. Len(PrintFloat!ExponentText(f)) = IF n > 99 THEN 5 ELSE 4
  <2>1. Len(zero) \in Nat /\ Len(t) \in Nat
    BY <1>2, <1>6
  <2>. DEFINE l == Len(t)  k == Len(zero)  x == Len(PrintFloat!ExponentText(f))
  <2>4. /\ l \in 1 .. 3 /\ (l <= 2 <=> n <= 99) /\ k = (IF l = 1 THEN 1 ELSE 0) /\ x = (2 + k) + l
    BY <1>2, <1>6, <1>10
  <2>5. n \in Nat
    BY <1>1
  <2>. HIDE DEF l, k, x
  <2>6. x = IF n > 99 THEN 5 ELSE 4
    BY <2>4, <2>5
  <2>. QED BY <2>6 DEF x
<1>. QED BY <1>4, <1>11, <1>12

(* What holds of the data when the digits have been counted right.         *)
CountedOK(a, f) ==
  /\ PrintFloat!Finite(a) /\ DataOK(a, f)
  /\ f.digits = Count(f.m)

LEMMA CountedFacts ==
  ASSUME NEW a \in PrintFloat!Args, NEW f, CountedOK(a, f)
  PROVE  /\ f.m \in Nat /\ f.e \in Int /\ f.extra \in Nat
         /\ f.digits \in Nat /\ 1 <= f.digits /\ f.digits <= DigitsIn(a)
         /\ f.digits <= 90 /\ f.digits + 8 <= FloatMinSize
         /\ Digits(f.m) \in Seq(0 .. 9) /\ Len(Digits(f.m)) = f.digits
         /\ PrintFloat!ExponentOf(f) \in -999 .. 999
<1>1. f.m \in Nat /\ f.e \in Int /\ f.extra \in Nat /\ f.digits \in Int
      /\ f.e + f.digits = a.x.dec.e + DigitsIn(a) /\ f.digits <= DigitsIn(a) /\ f.digits = Count(f.m)
  BY DEF CountedOK, DataOK
<1>2. Count(f.m) >= 1 /\ Count(f.m) = Len(Digits(f.m)) /\ Digits(f.m) \in Seq(0 .. 9)
  BY <1>1, CountedDigits, DigitsInSeq
<1>3. /\ a.x.dec.e \in Int /\ -900 <= a.x.dec.e /\ a.x.dec.e <= 900
      /\ DigitsIn(a) \in Nat /\ 1 <= DigitsIn(a) /\ DigitsIn(a) <= 90 /\ DigitsIn(a) + 8 <= FloatMinSize
      /\ FloatMinSize \in Nat
  BY DecimalFacts, FloatConstants
<1>4. /\ f.digits \in Nat /\ 1 <= f.digits /\ f.digits <= 90 /\ f.digits + 8 <= FloatMinSize
  BY <1>1, <1>2, <1>3
<1>5. f.e + f.digits - 1 \in -999 .. 999
  BY <1>1, <1>3, SMTT(60)
<1>. QED BY <1>1, <1>2, <1>4, <1>5 DEF PrintFloat!ExponentOf

LEMMA MantissaFacts ==
  ASSUME NEW a \in PrintFloat!Args, NEW f, CountedOK(a, f)
  PROVE  /\ PrintFloat!Mantissa(f) \in Seq(Int)
         /\ Len(PrintFloat!Mantissa(f)) = f.digits + PrintFloat!Bit(f.digits > 1 \/ f.point)
<1>. DEFINE t == Digits(f.m)
<1>1. f.m \in Nat /\ f.digits \in Nat /\ 1 <= f.digits /\ t \in Seq(0 .. 9) /\ Len(t) = f.digits
  BY CountedFacts
<1>2. CASE f.digits = 1
  <2>1. PrintFloat!Mantissa(f) = <<f.m>> \o (IF f.point THEN <<PrintFloat!Point>> ELSE <<>>)
    BY <1>2 DEF PrintFloat!Mantissa
  <2>2. <<f.m>> \in Seq(Int) /\ Len(<<f.m>>) = 1
    BY <1>1
  <2>3. ASSUME NEW s \in Seq(Int) PROVE <<f.m>> \o s \in Seq(Int) /\ Len(<<f.m>> \o s) = 1 + Len(s)
    BY <2>2
  <2>4. <<PrintFloat!Point>> \in Seq(Int) /\ Len(<<PrintFloat!Point>>) = 1 /\ <<>> \in Seq(Int) /\ Len(<<>>) = 0
    BY DEF PrintFloat!Point
  <2>5. CASE f.point
    BY <1>2, <2>1, <2>3, <2>4, <2>5 DEF PrintFloat!Bit
  <2>6. CASE ~f.point
    <3>1. PrintFloat!Mantissa(f) = <<f.m>> \o <<>>
      BY <2>1, <2>6
    <3>2. <<f.m>> \o <<>> \in Seq(Int) /\ Len(<<f.m>> \o <<>>) = 1 + 0
      BY <2>3, <2>4
    <3>3. PrintFloat!Bit(f.digits > 1 \/ f.point) = 0
      BY <1>2, <2>6 DEF PrintFloat!Bit
    <3>. QED BY <1>2, <3>1, <3>2, <3>3
  <2>. QED BY <2>5, <2>6
<1>3. CASE f.digits # 1
  <2>1. PrintFloat!Mantissa(f)
          = <<t[(Len(t) - f.digits) + 1], PrintFloat!Point>> \o SubSeq(t, (Len(t) - f.digits) + 2, Len(t))
    BY <1>1, <1>3, SMTT(60) DEF PrintFloat!Mantissa, Digits
  <2>2. Len(t) - f.digits + 1 = 1 /\ Len(t) - f.digits + 2 = 2 /\ f.digits > 1
    BY <1>1, <1>3
  <2>. HIDE DEF t
  <2>3. t \in Seq(Int) /\ t[1] \in Int /\ SubSeq(t, 2, Len(t)) \in Seq(Int)
        /\ Len(SubSeq(t, 2, Len(t))) = f.digits - 1
    BY <1>1, <2>2
  <2>4. <<t[1], PrintFloat!Point>> \in Seq(Int) /\ Len(<<t[1], PrintFloat!Point>>) = 2
    BY <2>3 DEF PrintFloat!Point
  <2>5. \A p, q \in Seq(Int) : p \o q \in Seq(Int) /\ Len(p \o q) = Len(p) + Len(q)
    OBVIOUS
  <2>6. /\ PrintFloat!Mantissa(f) \in Seq(Int)
        /\ Len(PrintFloat!Mantissa(f)) = 2 + (f.digits - 1)
    BY <2>1, <2>2, <2>3, <2>4, <2>5
  <2>. QED BY <1>1, <2>2, <2>6 DEF PrintFloat!Bit
<1>. QED BY <1>2, <1>3

(* The last k digits of a number are k, and those before them the rest.    *)
LEMMA FractionFacts ==
  ASSUME NEW n \in Nat, NEW k \in Nat, k # 0
  PROVE  PrintFloat!Fraction(n, k) \in Seq(Int) /\ Len(PrintFloat!Fraction(n, k)) = k
<1>. DEFINE r == n % Pow(10, k)  t == Digits(r)  zeros == PrintFloat!Times(k - Len(t), 0)
<1>1. r \in Nat /\ r < Pow(10, k)
  <2>1. Pow(10, k) \in Nat /\ Pow(10, k) # 0
    BY PowerNat
  <2>. QED BY <2>1, Quotient
<1>. HIDE DEF r
<1>2. Count(r) <= k
  <2>1. k - 1 \in Nat /\ (k - 1) + 1 = k
    OBVIOUS
  <2>2. r < Pow(10, (k - 1) + 1) <=> Count(r) <= (k - 1) + 1
    BY <1>1, <2>1, FewDigits
  <2>. QED BY <1>1, <2>1, <2>2
<1>3. t \in Seq(0 .. 9) /\ Len(t) = Count(r)
  BY <1>1, CountedDigits, DigitsInSeq
<1>4. PrintFloat!Fraction(n, k) = zeros \o t
  BY Zenon DEF PrintFloat!Fraction, Digits, Pow, r
<1>. HIDE DEF t
<1>5. zeros \in Seq(Int) /\ Len(zeros) = k - Len(t)
  BY <1>2, <1>3 DEF PrintFloat!Times
<1>6. t \in Seq(Int)
  BY <1>3
<1>. HIDE DEF zeros
<1>7. zeros \o t \in Seq(Int) /\ Len(zeros \o t) = Len(zeros) + Len(t) /\ Len(t) \in Nat
  BY <1>5, <1>6
<1>. QED BY <1>4, <1>5, <1>7

LEMMA IntegralFacts ==
  ASSUME NEW n \in Nat, NEW k \in Nat, k < Count(n)
  PROVE  /\ n \div PrintFloat!Power(10, k) \in Nat
         /\ Digits(n \div PrintFloat!Power(10, k)) \in Seq(0 .. 9)
         /\ Len(Digits(n \div PrintFloat!Power(10, k))) = Count(n) - k
<1>1. n \div Pow(10, k) \in Nat /\ Count(n \div Pow(10, k)) = Count(n) - k
  BY LeadingDigits
<1>2. Digits(n \div Pow(10, k)) \in Seq(0 .. 9) /\ Len(Digits(n \div Pow(10, k))) = Count(n \div Pow(10, k))
  BY <1>1, CountedDigits, DigitsInSeq
<1>. QED BY <1>1, <1>2, Zenon DEF Pow

LEMMA PointInsideFacts ==
  ASSUME NEW a \in PrintFloat!Args, NEW f, CountedOK(a, f), f.e < 0, -f.e < f.digits
  PROVE  /\ PrintFloat!PointInside(f) \in Seq(Int)
         /\ Len(PrintFloat!PointInside(f)) = f.digits + 1
<1>. DEFINE k == PrintFloat!Abs(f.e)  s == Digits(f.m \div PrintFloat!Power(10, k))
            t == PrintFloat!Fraction(f.m, k)  p == <<PrintFloat!Point>>
<1>1. f.m \in Nat /\ f.digits = Count(f.m) /\ f.digits \in Nat /\ f.e \in Int
  BY CountedFacts DEF CountedOK
<1>2. k \in Nat /\ k # 0 /\ k < Count(f.m)
  BY <1>1 DEF PrintFloat!Abs
<1>. HIDE DEF k
<1>3. s \in Seq(0 .. 9) /\ Len(s) = Count(f.m) - k
  BY <1>1, <1>2, IntegralFacts
<1>4. t \in Seq(Int) /\ Len(t) = k
  BY <1>1, <1>2, FractionFacts
<1>5. PrintFloat!PointInside(f) = (s \o p) \o t
  BY Zenon DEF PrintFloat!PointInside, Digits, k
<1>. HIDE DEF s, t
<1>6. s \in Seq(Int) /\ p \in Seq(Int) /\ Len(p) = 1
  BY <1>3 DEF PrintFloat!Point
<1>. HIDE DEF p
<1>7. \A u, v \in Seq(Int) : u \o v \in Seq(Int) /\ Len(u \o v) = Len(u) + Len(v)
  OBVIOUS
<1>8. (s \o p) \o t \in Seq(Int) /\ Len((s \o p) \o t) = (Len(s) + Len(p)) + Len(t)
  <2>. DEFINE u == s \o p
  <2>1. u \in Seq(Int) /\ Len(u) = Len(s) + Len(p)
    BY <1>6, <1>7
  <2>. HIDE DEF u
  <2>2. u \o t \in Seq(Int) /\ Len(u \o t) = Len(u) + Len(t)
    BY <2>1, <1>4, <1>7
  <2>. QED BY <2>1, <2>2 DEF u
<1>. QED BY <1>1, <1>2, <1>3, <1>4, <1>5, <1>6, <1>8

-----------------------------------------------------------------------------
(* The pieces of every printer.  What is known when the digits and the     *)
(* exponent have been counted right and ensure() has been asked for all:   *)
(* the premises of WindowSafe, of some argument and its data.              *)
Counted(a, f) ==
  /\ PrintFloat!Finite(a) => f.digits = Count(f.m)
  /\ PrintFloat!HasPunct(a) \/ ~f.sci \/ PrintFloat!ExponentGuess(f) = PrintFloat!ExponentUnits(f)
  /\ PrintFloat!Finite(a) =>
       IF f.sci THEN a.printer = "double" => f.extra = 0
                ELSE a.printer = "fast_double" => f.e # -f.digits

LEMMA SmallNumbers ==
  /\ \A b : PrintFloat!Bit(b) \in {0, 1}
  /\ PrintFloat!Bit(TRUE) = 1 /\ PrintFloat!Bit(FALSE) = 0
  /\ FloatMinSize \in Nat
BY FloatConstants DEF PrintFloat!Bit

LEMMA FastSign ==
  ASSUME NEW a \in PrintFloat!Args, NEW sign,
         sign = IF a.negative THEN <<PrintFloat!Minus>> ELSE <<>>
  PROVE  sign \in Seq(Int) /\ Len(sign) \in Nat /\ Len(sign) <= 1
<1>1. <<-4>> \in Seq(Int) /\ Len(<<-4>>) = 1
  OBVIOUS
<1>2. <<>> \in Seq(Int) /\ Len(<<>>) = 0
  OBVIOUS
<1>3. sign = <<-4>> \/ sign = <<>>
  BY DEF PrintFloat!Minus
<1>4. CASE sign = <<-4>>
  BY <1>1, <1>4
<1>5. CASE sign = <<>>
  BY <1>2, <1>5
<1>. QED BY <1>3, <1>4, <1>5

(* A text behind the sign.                                                 *)
LEMMA BehindSign ==
  ASSUME NEW a \in PrintFloat!Args, NEW sign \in Seq(Int), Len(sign) <= 1,
         NEW need \in Nat, need + 1 <= FloatMinSize, NEW text \in Seq(Int), Len(text) <= need
  PROVE  AllFit(a, PrintFloat!Piece(Len(sign) + need, sign \o text, Len(sign \o text)))
<1>. DEFINE k == Len(sign)  l == Len(text)
<1>1. k \in Nat /\ l \in Nat /\ Len(sign \o text) = k + l /\ FloatMinSize \in Nat
  BY FloatConstants
<1>2. k <= 1 /\ l <= need
  OBVIOUS
<1>. HIDE DEF k, l
<1>3. k + need \in Nat /\ k + l \in Nat /\ k + l <= k + need /\ k + need <= FloatMinSize
  BY <1>1, <1>2
<1>4. AllFit(a, PrintFloat!Piece(k + need, sign \o text, k + l))
  BY <1>3, PieceFits, Zenon
<1>. QED BY <1>1, <1>4, Zenon DEF k

LEMMA FastPiecesFit ==
  ASSUME NEW a \in PrintFloat!Args, a.printer = "fast_double", NEW f, DataOK(a, f), Counted(a, f)
  PROVE  AllFit(a, PrintFloat!FastPieces(a, f))
<1>. DEFINE sign == IF a.negative THEN <<PrintFloat!Minus>> ELSE <<>>
            stored(n, text) == PrintFloat!Piece(Len(sign) + n, sign \o text, Len(sign \o text))
            t == Digits(f.m)
            need == f.digits * PrintFloat!Bit(f.e > -f.digits)
                    + PrintFloat!Bit(f.e < -f.digits) + PrintFloat!Bit(f.e < 0)
            needSci == f.digits + PrintFloat!Bit(f.digits # 1) + PrintFloat!ExponentGuess(f)
            zero == <<0, PrintFloat!Point>>
<1>1. sign \in Seq(Int) /\ Len(sign) \in Nat /\ Len(sign) <= 1
  BY FastSign
<1>2. PrintFloat!FastPieces(a, f) =
        CASE a.x.kind = "nan" -> PrintFloat!Ensured(a, PrintFloat!Special(a))
          [] a.x.kind = "infinity" -> stored(3, PrintFloat!Special(a))
          [] PrintFloat!Finite(a) /\ f.sci ->
               stored(needSci, PrintFloat!Mantissa(f) \o PrintFloat!ExponentText(f))
          [] PrintFloat!Finite(a) /\ ~f.sci ->
               IF f.e >= 0 THEN stored(need, t) \o PrintFloat!Run(f.e, 0)
               ELSE IF -f.e >= f.digits
               THEN stored(need, zero) \o PrintFloat!LeadingZeros(f) \o PrintFloat!WriteInt(f.m, f.digits)
               ELSE stored(need, PrintFloat!PointInside(f))
  BY Zenon DEF PrintFloat!FastPieces, Digits
<1>. HIDE DEF sign
<1>3. ASSUME NEW n \in Nat, n + 1 <= FloatMinSize, NEW s \in Seq(Int), Len(s) <= n
      PROVE  AllFit(a, stored(n, s))
  BY <1>1, <1>3, BehindSign
<1>4. FloatMinSize \in Nat /\ 9 <= FloatMinSize
  BY DecimalFacts, FloatConstants
<1>5. Plain(PrintFloat!Special(a)) /\ Len(PrintFloat!Special(a)) = 3
  BY SpecialFacts
<1>. HIDE DEF stored, t, need, needSci, zero
<1>6. CASE a.x.kind = "nan"
  <2>1. PrintFloat!FastPieces(a, f) = PrintFloat!Ensured(a, PrintFloat!Special(a))
    BY <1>2, <1>6 DEF PrintFloat!Finite
  <2>2. Len(PrintFloat!Special(a)) <= FloatMinSize
    BY <1>4, <1>5
  <2>. QED BY <1>5, <2>1, <2>2, PlainFits, Zenon
<1>7. CASE a.x.kind = "infinity"
  <2>1. PrintFloat!FastPieces(a, f) = stored(3, PrintFloat!Special(a))
    BY <1>2, <1>7, SMTT(60) DEF PrintFloat!Finite
  <2>2. 3 \in Nat /\ 3 + 1 <= FloatMinSize /\ PrintFloat!Special(a) \in Seq(Int)
        /\ Len(PrintFloat!Special(a)) <= 3
    BY <1>4, <1>5 DEF Plain
  <2>. QED BY <1>3, <2>1, <2>2, Zenon
<1>8. ASSUME PrintFloat!Finite(a), f.sci
      PROVE  AllFit(a, PrintFloat!FastPieces(a, f))
  <2>. DEFINE s == PrintFloat!Mantissa(f)  x == PrintFloat!ExponentText(f)
              u == PrintFloat!ExponentUnits(f)  g == PrintFloat!ExponentGuess(f)
  <2>1. PrintFloat!FastPieces(a, f) = stored(needSci, s \o x)
    BY <1>2, <1>8 DEF PrintFloat!Finite
  <2>2. CountedOK(a, f)
    BY <1>8 DEF CountedOK, Counted
  <2>3. f.digits \in Nat /\ 1 <= f.digits /\ f.digits + 8 <= FloatMinSize
        /\ PrintFloat!ExponentOf(f) \in -999 .. 999
    BY <2>2, CountedFacts
  <2>4. s \in Seq(Int) /\ Len(s) = f.digits + PrintFloat!Bit(f.digits > 1 \/ f.point)
    BY <2>2, MantissaFacts
  <2>5. Plain(x) /\ Len(x) = u
    BY <2>3, ExponentFacts
  <2>6. u \in 4 .. 5
    BY <2>3, ExponentFacts
  <2>7. x \in Seq(Int) /\ g = u
    BY <1>8, <2>5 DEF Plain, Counted, PrintFloat!HasPunct
  <2>8. (f.digits = 1 => ~f.point) /\ (f.digits > 1 => f.point)
    BY <1>8 DEF DataOK
  <2>9. PrintFloat!Bit(f.digits > 1 \/ f.point) = PrintFloat!Bit(f.digits # 1)
    BY <2>3, <2>8 DEF PrintFloat!Bit
  <2>. HIDE DEF s, x, u, g
  <2>10. Len(s \o x) = Len(s) + Len(x) /\ s \o x \in Seq(Int)
    BY <2>4, <2>7, SMTT(60)
  <2>11. needSci = f.digits + PrintFloat!Bit(f.digits # 1) + g
    BY DEF needSci, g
  <2>12. PICK p \in {0, 1} : p = PrintFloat!Bit(f.digits # 1)
    BY SmallNumbers
  <2>14. Len(s \o x) = (f.digits + p) + u
    BY <2>4, <2>5, <2>9, <2>10, <2>12, Zenon
  <2>15. needSci = (f.digits + p) + u
    BY <2>7, <2>11, <2>12, Zenon
  <2>16. (f.digits + p) + u \in Nat /\ f.digits + p + u + 1 <= FloatMinSize
    BY <1>4, <2>3, <2>6, <2>12
  <2>13. Len(s \o x) <= needSci /\ needSci \in Nat /\ needSci + 1 <= FloatMinSize
    <3>. DEFINE n == (f.digits + p) + u
    <3>1. n \in Nat /\ n + 1 <= FloatMinSize /\ Len(s \o x) = n /\ needSci = n
      BY <2>14, <2>15, <2>16
    <3>. HIDE DEF n
    <3>2. n <= n
      BY <3>1
    <3>. QED BY <3>1, <3>2, Zenon
  <2>. QED BY <1>3, <2>1, <2>10, <2>13, Zenon
<1>9. ASSUME PrintFloat!Finite(a), ~f.sci
      PROVE  AllFit(a, PrintFloat!FastPieces(a, f))
  <2>1. CountedOK(a, f)
    BY <1>9 DEF CountedOK, Counted
  <2>2. f.digits \in Nat /\ 1 <= f.digits /\ f.digits + 8 <= FloatMinSize /\ f.e \in Int
        /\ t \in Seq(0 .. 9) /\ Len(t) = f.digits
    BY <2>1, CountedFacts DEF t
  <2>3. f.e # -f.digits
    BY <1>9 DEF Counted
  <2>4. CASE f.e >= 0
    <3>1. PrintFloat!FastPieces(a, f) = stored(need, t) \o PrintFloat!Run(f.e, 0)
      BY <1>2, <1>9, <2>4 DEF PrintFloat!Finite
    <3>2. f.e > -f.digits /\ ~(f.e < -f.digits) /\ ~(f.e < 0)
      BY <2>2, <2>4
    <3>3. need = f.digits
      BY <2>2, <3>2 DEF need, PrintFloat!Bit
    <3>4. need \in Nat /\ need + 1 <= FloatMinSize /\ t \in Seq(Int) /\ Len(t) <= need
      BY <1>4, <2>2, <3>3
    <3>5. AllFit(a, stored(need, t)) /\ AllFit(a, PrintFloat!Run(f.e, 0))
      BY <1>3, <2>2, <3>4, RunFits, Zenon
    <3>. QED BY <3>1, <3>5, BothFit, Zenon
  <2>5. CASE f.e < 0 /\ -f.e >= f.digits
    <3>. DEFINE first == stored(need, zero)  second == PrintFloat!LeadingZeros(f)
                third == PrintFloat!WriteInt(f.m, f.digits)
    <3>1. PrintFloat!FastPieces(a, f) = (first \o second) \o third
      BY <1>2, <1>9, <2>2, <2>5 DEF PrintFloat!Finite
    <3>2. ~(f.e > -f.digits) /\ f.e < -f.digits
      BY <2>2, <2>3, <2>5
    <3>3. need = 2
      BY <2>2, <2>5, <3>2 DEF need, PrintFloat!Bit
    <3>4. zero \in Seq(Int) /\ Len(zero) = 2
      BY DEF zero, PrintFloat!Point
    <3>5. need \in Nat /\ need + 1 <= FloatMinSize /\ Len(zero) <= need
      BY <1>4, <3>3, <3>4
    <3>6. -f.e - f.digits \in Int /\ f.digits <= FloatMinSize
      BY <1>4, <2>2
    <3>7. AllFit(a, first)
      BY <1>3, <3>4, <3>5, Zenon
    <3>8. AllFit(a, second)
      BY <3>6, RunFits, Zenon DEF PrintFloat!LeadingZeros
    <3>9. AllFit(a, third)
      BY <2>2, <3>6, WriteIntFits, Zenon
    <3>. HIDE DEF first, second, third
    <3>. QED BY <3>1, <3>7, <3>8, <3>9, BothFit, Zenon
  <2>6. CASE f.e < 0 /\ ~(-f.e >= f.digits)
    <3>. DEFINE s == PrintFloat!PointInside(f)
    <3>1. PrintFloat!FastPieces(a, f) = stored(need, s)
      BY <1>2, <1>9, <2>2, <2>6 DEF PrintFloat!Finite
    <3>2. f.e > -f.digits /\ ~(f.e < -f.digits) /\ -f.e < f.digits
      BY <2>2, <2>6
    <3>3. need = f.digits + 1
      BY <2>2, <2>6, <3>2 DEF need, PrintFloat!Bit
    <3>4. s \in Seq(Int) /\ Len(s) = f.digits + 1
      BY <2>1, <2>6, <3>2, PointInsideFacts
    <3>5. need \in Nat /\ need + 1 <= FloatMinSize /\ Len(s) <= need
      BY <1>4, <2>2, <3>3, <3>4
    <3>. HIDE DEF s
    <3>. QED BY <1>3, <3>1, <3>4, <3>5, Zenon
  <2>. QED BY <2>2, <2>4, <2>5, <2>6
<1>10. a.x.kind \in {"number", "infinity", "nan"}
  BY DEF PrintFloat!Args, PrintFloat!Numbers
<1>. QED BY <1>6, <1>7, <1>8, <1>9, <1>10 DEF PrintFloat!Finite

-----------------------------------------------------------------------------
(* The printer without punctuation.                                        *)
LEMMA DoubleScientific ==
  ASSUME NEW a \in PrintFloat!Args, a.printer = "double", PrintFloat!Finite(a),
         NEW f, DataOK(a, f), Counted(a, f), f.sci
  PROVE  AllFit(a, PrintFloat!DoublePieces(a, f))
<1>. DEFINE s == PrintFloat!Mantissa(f)  x == PrintFloat!ExponentText(f)
            u == PrintFloat!ExponentUnits(f)  g == PrintFloat!ExponentGuess(f)
            n == f.digits + PrintFloat!Bit(f.point) + g
<1>1. PrintFloat!DoublePieces(a, f) = PrintFloat!Piece(n, s \o x, Len(s \o x))
  <2>1. f.extra = 0
    BY DEF Counted
  <2>. QED BY <2>1 DEF PrintFloat!DoublePieces
<1>2. CountedOK(a, f)
  BY DEF CountedOK, Counted
<1>3. f.digits \in Nat /\ 1 <= f.digits /\ f.digits + 8 <= FloatMinSize
      /\ PrintFloat!ExponentOf(f) \in -999 .. 999
  BY <1>2, CountedFacts
<1>4. s \in Seq(Int) /\ Len(s) = f.digits + PrintFloat!Bit(f.digits > 1 \/ f.point)
  BY <1>2, MantissaFacts
<1>5. Plain(x) /\ Len(x) = u
  BY <1>3, ExponentFacts
<1>6. u \in 4 .. 5
  BY <1>3, ExponentFacts
<1>7. x \in Seq(Int) /\ g = u
  BY <1>5 DEF Plain, Counted, PrintFloat!HasPunct
<1>8. PrintFloat!Bit(f.digits > 1 \/ f.point) = PrintFloat!Bit(f.point)
  <2>1. f.digits > 1 => f.point
    BY DEF DataOK
  <2>. QED BY <2>1 DEF PrintFloat!Bit
<1>9. PrintFloat!Bit(f.point) \in {0, 1} /\ FloatMinSize \in Nat
  BY SmallNumbers
<1>. HIDE DEF s, x, u, g
<1>10. Len(s \o x) = Len(s) + Len(x) /\ s \o x \in Seq(Int)
  BY <1>4, <1>7
<1>11. Len(s \o x) \in Nat /\ n \in Nat /\ Len(s \o x) <= n /\ n <= FloatMinSize
  BY <1>3, <1>4, <1>5, <1>6, <1>7, <1>8, <1>9, <1>10, SMTT(60)
<1>. HIDE DEF n
<1>. QED BY <1>1, <1>11, PieceFits, Zenon

LEMMA DoubleFixed ==
  ASSUME NEW a \in PrintFloat!Args, a.printer = "double", PrintFloat!Finite(a),
         NEW f, DataOK(a, f), Counted(a, f), ~f.sci
  PROVE  AllFit(a, PrintFloat!DoublePieces(a, f))
<1>. DEFINE total == PrintFloat!Bit(f.point) + f.digits + PrintFloat!Bit(f.e < -f.digits)
            digits == PrintFloat!ToUnsigned(f.digits)  need == PrintFloat!ToUnsigned(total)
            extra == PrintFloat!Run(f.extra, 0)  zeros == PrintFloat!Run(f.e, 0)
            zero == <<0, PrintFloat!Point>>  point == <<PrintFloat!Point>>
            number == PrintFloat!Piece(need, Digits(f.m), digits)
            behind == IF f.point THEN PrintFloat!Piece(1, point, Len(point)) ELSE <<>>
            first == PrintFloat!Piece(need, zero, Len(zero))
            second == PrintFloat!LeadingZeros(f)
            third == PrintFloat!WriteInt(f.m, f.digits)
            inside == PrintFloat!Piece(need, PrintFloat!PointInside(f), digits + 1)
<1>1. ASSUME f.e >= 0 PROVE PrintFloat!DoublePieces(a, f) = ((number \o zeros) \o behind) \o extra
  <2>1. ~(f.e < 0)
    BY <1>1 DEF DataOK
  <2>. QED BY <1>1, <2>1 DEF PrintFloat!DoublePieces, Digits
<1>2. ASSUME f.e < 0
      PROVE  PrintFloat!DoublePieces(a, f)
               = (IF -f.e >= digits THEN (first \o second) \o third ELSE inside) \o extra
  <2>1. ~(f.e >= 0)
    BY <1>2 DEF DataOK
  <2>. QED BY <1>2, <2>1 DEF PrintFloat!DoublePieces
<1>3. CountedOK(a, f)
  BY DEF CountedOK, Counted
<1>4. f.digits \in Nat /\ 1 <= f.digits /\ f.digits + 8 <= FloatMinSize /\ f.e \in Int /\ f.extra \in Nat
  BY <1>3, CountedFacts
<1>5. PrintFloat!Bit(f.point) \in {0, 1} /\ PrintFloat!Bit(f.e < -f.digits) \in {0, 1}
      /\ FloatMinSize \in Nat
  BY SmallNumbers
<1>6. total \in Nat /\ total <= FloatMinSize /\ f.digits <= total
  BY <1>4, <1>5
<1>7. need = total
  <2>. HIDE DEF total
  <2>. QED BY <1>6, SmallUnsigned
<1>8. digits = f.digits
  BY <1>4, <1>5, SmallUnsigned
<1>9. AllFit(a, extra) /\ AllFit(a, zeros)
  BY <1>4, RunFits
<1>. HIDE DEF extra, zeros
<1>10. CASE f.e >= 0
  <2>1. AllFit(a, number)
    <3>. HIDE DEF total, need, digits
    <3>. QED BY <1>4, <1>6, <1>7, <1>8, PieceFits, Zenon
  <2>2. AllFit(a, behind)
    <3>1. Len(point) = 1 /\ 1 \in Nat /\ 1 <= 1 /\ 1 <= FloatMinSize
      BY <1>4, <1>5
    <3>2. AllFit(a, PrintFloat!Piece(1, point, 1))
      BY <3>1, PieceFits, Zenon
    <3>3. behind = <<>> \/ behind = PrintFloat!Piece(1, point, 1)
      BY <3>1
    <3>. HIDE DEF behind
    <3>. QED BY <3>2, <3>3, NothingFits, Zenon
  <2>. HIDE DEF number, behind
  <2>. QED BY <1>1, <1>9, <1>10, <2>1, <2>2, BothFit, Zenon
<1>11. CASE f.e < 0 /\ -f.e >= f.digits
  <2>0. PrintFloat!DoublePieces(a, f) = ((first \o second) \o third) \o extra
    BY <1>2, <1>8, <1>11
  <2>1. Len(zero) = 2 /\ 2 <= total
    <3>1. PrintFloat!Bit(f.point) = 1
      BY <1>11 DEF DataOK, PrintFloat!Bit
    <3>. QED BY <1>4, <1>5, <3>1
  <2>. HIDE DEF total, need, digits
  <2>2. AllFit(a, first)
    <3>1. need \in Nat /\ 2 \in Nat /\ 2 <= need /\ need <= FloatMinSize
      BY <1>6, <1>7, <2>1
    <3>2. AllFit(a, PrintFloat!Piece(need, zero, 2))
      BY <3>1, PieceFits, Zenon
    <3>. QED BY <2>1, <3>2
  <2>3. AllFit(a, second)
    <3>1. -f.e - f.digits \in Int
      BY <1>4
    <3>. QED BY <3>1, RunFits, Zenon DEF PrintFloat!LeadingZeros
  <2>4. AllFit(a, third)
    <3>1. f.digits <= FloatMinSize
      BY <1>4, <1>5
    <3>. QED BY <1>4, <3>1, WriteIntFits, Zenon
  <2>. HIDE DEF first, second, third
  <2>. QED BY <2>0, <1>9, <2>2, <2>3, <2>4, BothFit, Zenon
<1>12. CASE f.e < 0 /\ ~(-f.e >= f.digits)
  <2>0. PrintFloat!DoublePieces(a, f) = inside \o extra
    BY <1>2, <1>8, <1>12
  <2>1. f.digits + 1 <= total
    <3>1. PrintFloat!Bit(f.point) = 1
      BY <1>12 DEF DataOK, PrintFloat!Bit
    <3>. QED BY <1>4, <1>5, <3>1
  <2>. HIDE DEF total, need, digits
  <2>2. AllFit(a, inside)
    <3>1. need \in Nat /\ digits + 1 \in Nat /\ digits + 1 <= need /\ need <= FloatMinSize
      BY <1>4, <1>6, <1>7, <1>8, <2>1
    <3>. QED BY <3>1, PieceFits, Zenon
  <2>. HIDE DEF inside
  <2>. QED BY <2>0, <1>9, <2>2, BothFit, Zenon
<1>. QED BY <1>4, <1>10, <1>11, <1>12

-----------------------------------------------------------------------------
(* Two texts joined, and the shortest of them.                             *)
LEMMA JoinedParts ==
  ASSUME NEW s \in Seq(Int), NEW t \in Seq(Int)
  PROVE  /\ s \o t \in Seq(Int) /\ Len(s \o t) = Len(s) + Len(t)
         /\ \A i \in 1 .. Len(s) + Len(t) : (s \o t)[i] = IF i <= Len(s) THEN s[i] ELSE t[i - Len(s)]
OBVIOUS

LEMMA TwoJoined ==
  ASSUME NEW x \in Int, NEW y \in Int
  PROVE  <<x>> \o <<y>> = <<x, y>>
<1>. DEFINE s == <<x>>  t == <<y>>  c == s \o t  d == <<x, y>>
<1>1. s \in Seq(Int) /\ Len(s) = 1 /\ s[1] = x /\ t \in Seq(Int) /\ Len(t) = 1 /\ t[1] = y
  OBVIOUS
<1>2. d \in Seq(Int) /\ Len(d) = 2 /\ d[1] = x /\ d[2] = y
  OBVIOUS
<1>. HIDE DEF s, t
<1>3. /\ c \in Seq(Int) /\ Len(c) = Len(s) + Len(t)
      /\ \A i \in 1 .. Len(s) + Len(t) : c[i] = IF i <= Len(s) THEN s[i] ELSE t[i - Len(s)]
  BY <1>1, JoinedParts, Zenon
<1>. HIDE DEF c, d
<1>4. Len(c) = 2 /\ c[1] = x /\ c[2] = y
  <2>. DEFINE k == Len(s)  l == Len(t)
  <2>1. k = 1 /\ l = 1 /\ Len(c) = k + l
    BY <1>1, <1>3
  <2>2. \A i \in 1 .. k + l : c[i] = IF i <= k THEN s[i] ELSE t[i - k]
    BY <1>3
  <2>. HIDE DEF k, l
  <2>3. \A i \in 1 .. 2 : c[i] = IF i <= 1 THEN s[i] ELSE t[i - 1]
    BY <2>1, <2>2
  <2>. QED BY <1>1, <2>1, <2>3
<1>5. c = [i \in 1 .. 2 |-> c[i]] /\ d = [i \in 1 .. 2 |-> d[i]]
  <2>1. \A u \in Seq(Int) : Len(u) = 2 => u = [i \in 1 .. 2 |-> u[i]]
    OBVIOUS
  <2>. QED BY <1>2, <1>3, <1>4, <2>1, Zenon
<1>6. \A i \in 1 .. 2 : c[i] = d[i]
  BY <1>2, <1>4
<1>7. c = d
  BY <1>5, <1>6
<1>. QED BY <1>7 DEF c, d, s, t

(* The printers with punctuation: the scientific notation.                 *)
LEMMA ScientificFits ==
  ASSUME NEW a \in PrintFloat!Args, PrintFloat!Finite(a),
         NEW f, DataOK(a, f), Counted(a, f)
  PROVE  AllFit(a, PrintFloat!ScientificPieces(a, f))
<1>. DEFINE t == Digits(f.m)  psize == PrintFloat!PointUnits(a)
            point == f.point \/ f.extra # 0
            one == <<f.m>> \o (IF point THEN <<PrintFloat!Point>> ELSE <<>>)
            n == f.digits + psize
            more == <<t[1], PrintFloat!Point>> \o Tail(t)
            exponent == PrintFloat!ExponentText(f)
            first == IF f.digits = 1 THEN PrintFloat!Ensured(a, one) ELSE PrintFloat!Piece(n, more, n)
            zeros == PrintFloat!Run(f.extra, 0)
            last == PrintFloat!Ensured(a, exponent)
<1>1. PrintFloat!ScientificPieces(a, f) = (first \o zeros) \o last
  BY Zenon DEF PrintFloat!ScientificPieces, Digits
<1>2. CountedOK(a, f)
  BY DEF CountedOK, Counted
<1>3. f.digits \in Nat /\ 1 <= f.digits /\ f.digits + 8 <= FloatMinSize /\ f.m \in Nat
      /\ PrintFloat!ExponentOf(f) \in -999 .. 999 /\ f.extra \in Nat /\ FloatMinSize \in Nat
  BY <1>2, CountedFacts, FloatConstants
<1>4. psize \in Nat /\ 1 <= psize /\ psize <= 4
  BY PointUnitsFacts
<1>5. AllFit(a, first)
  <2>1. CASE f.digits = 1
    <3>. DEFINE long == <<f.m, PrintFloat!Point>>  short == <<f.m>>
    <3>1. one = long \/ one = short
      <4>1. \A x \in Int, y \in Int : <<x>> \o <<y>> = <<x, y>>
        BY TwoJoined, ZenonT(60)
      <4>2. \A x \in Int : <<x>> \o <<>> = <<x>>
        <5>1. \A s \in Seq(Int) : s \o <<>> = s
          BY ConcatEmptySeq
        <5>. QED BY <5>1
      <4>3. f.m \in Int /\ PrintFloat!Point \in Int
        BY <1>3 DEF PrintFloat!Point
      <4>4. <<f.m>> \o <<PrintFloat!Point>> = long /\ <<f.m>> \o <<>> = short
        BY <4>1, <4>2, <4>3, Zenon
      <4>5. CASE point
        BY <4>4, <4>5, Zenon
      <4>6. CASE ~point
        BY <4>4, <4>6, Zenon
      <4>. QED BY <4>5, <4>6
    <3>2. PrintFloat!Units(a, long) = 1 + psize
      BY <1>3, UnitsWithPoint, ZenonT(60)
    <3>3. PrintFloat!Units(a, short) = 1
      <4>1. short \in Seq(Int) /\ Len(short) = 1
        BY <1>3
      <4>2. \A i \in 1 .. Len(short) : short[i] # PrintFloat!Point /\ short[i] # PrintFloat!Separator
        BY <1>3, <4>1 DEF PrintFloat!Point, PrintFloat!Separator
      <4>. HIDE DEF short
      <4>. QED BY <4>1, <4>2, UnitsWithoutPoint
    <3>4. PrintFloat!Units(a, one) \in Nat /\ PrintFloat!Units(a, one) <= FloatMinSize
      <4>. HIDE DEF one, long, short, psize
      <4>. QED BY <1>3, <1>4, <3>1, <3>2, <3>3
    <3>5. first = PrintFloat!Ensured(a, one)
      BY <2>1, Zenon
    <3>. HIDE DEF one, first
    <3>. QED BY <3>4, <3>5, EnsuredFits, Zenon
  <2>2. CASE f.digits # 1
    <3>1. first = PrintFloat!Piece(n, more, n)
      BY <2>2, Zenon
    <3>2. n \in Nat /\ n <= n /\ n <= FloatMinSize
      <4>. HIDE DEF psize
      <4>. QED BY <1>3, <1>4
    <3>. HIDE DEF n, more, first
    <3>. QED BY <3>1, <3>2, PieceFits, Zenon
  <2>. QED BY <2>1, <2>2
<1>6. AllFit(a, zeros)
  BY <1>3, RunFits
<1>7. AllFit(a, last)
  <2>1. Plain(exponent) /\ Len(exponent) = PrintFloat!ExponentUnits(f)
    BY <1>3, ExponentFacts
  <2>2. PrintFloat!ExponentUnits(f) \in 4 .. 5
    BY <1>3, ExponentFacts
  <2>. HIDE DEF exponent
  <2>3. Len(exponent) <= FloatMinSize
    BY <1>3, <2>1, <2>2
  <2>. QED BY <2>1, <2>3, PlainFits, Zenon
<1>. HIDE DEF first, zeros, last
<1>. QED BY <1>1, <1>5, <1>6, <1>7, BothFit, Zenon

-----------------------------------------------------------------------------
(* The number grouped, its zeros included.  The digits in front of each    *)
(* group are added up.                                                     *)
LEMMA BeforeGroups ==
  ASSUME NEW s \in Seq(Nat), NEW g,
         g = CHOOSE f : f = [i \in 1 .. Len(s) |-> IF i = 1 THEN 0 ELSE f[i - 1] + s[i - 1]]
  PROVE  \A i \in 1 .. Len(s) : g[i] \in Nat /\ (i = 1 => g[i] = 0)
<1>. DEFINE n == Len(s)  V(f, i) == IF i = 1 THEN 0 ELSE f[i - 1] + s[i - 1]
            Stop == {1}  nx == [i \in 1 .. n |-> IF i = 1 THEN 1 ELSE i - 1]
            rank == [i \in 1 .. n |-> i]  b == [i \in 1 .. n |-> 0]
            z == [i \in 1 .. n |-> s[i - 1]]
<1>1. n \in Nat
  OBVIOUS
<1>2. Descends(1 .. n, Stop, nx, rank, n)
  <2>1. nx \in [1 .. n -> 1 .. n] /\ rank \in [1 .. n -> Nat]
    BY <1>1
  <2>2. \A i \in 1 .. n : rank[i] <= n /\ (i \notin Stop => rank[nx[i]] < rank[i])
    BY <1>1
  <2>. QED BY <1>1, <2>1, <2>2 DEF Descends
<1>3. ASSUME NEW f, NEW i \in 1 .. n
      PROVE  V(f, i) = IF i \in Stop THEN b[i] ELSE Onto("sum", z[i], f[nx[i]])
  BY DEF Onto
<1>. HIDE DEF Stop, nx, rank, b, z
<1>4. PICK f : f = [i \in 1 .. n |-> V(f, i)]
  <2>. HIDE DEF V, n
  <2>1. Recursive(1 .. n, Stop, nx, b, z, "sum")
    BY <1>2, RecursionExists, Zenon
  <2>2. PICK f : f = [i \in 1 .. n |-> IF i \in Stop THEN b[i] ELSE Onto("sum", z[i], f[nx[i]])]
    BY <2>1 DEF Recursive
  <2>3. [i \in 1 .. n |-> IF i \in Stop THEN b[i] ELSE Onto("sum", z[i], f[nx[i]])]
         = [i \in 1 .. n |-> V(f, i)]
    BY <1>3, Zenon
  <2>. QED BY <2>2, <2>3, Zenon
<1>5. g = [i \in 1 .. n |-> V(g, i)]
  BY <1>4, Zenon
<1>6. \A i \in 1 .. n : g[i] = V(g, i)
  <2>. HIDE DEF V
  <2>. QED BY <1>5, Zenon
<1>. DEFINE T == {k \in Nat : k + 1 \in 1 .. n => g[k + 1] \in Nat}
<1>7. 0 \in T
  <2>1. 1 \in 1 .. n => g[1] = 0
    BY <1>6
  <2>. QED BY <2>1
<1>8. ASSUME NEW k \in Nat, k \in T PROVE k + 1 \in T
  <2>1. ASSUME k + 2 \in 1 .. n PROVE g[k + 2] \in Nat
    <3>1. k + 1 \in 1 .. n /\ (k + 2) - 1 = k + 1 /\ k + 2 # 1
      BY <2>1, <1>1
    <3>2. g[k + 1] \in Nat /\ s[k + 1] \in Nat
      BY <1>8, <3>1
    <3>3. g[k + 2] = g[k + 1] + s[k + 1]
      BY <1>6, <2>1, <3>1
    <3>. QED BY <3>2, <3>3
  <2>2. (k + 1) + 1 = k + 2
    OBVIOUS
  <2>. QED BY <2>1, <2>2
<1>. HIDE DEF T
<1>9. \A k \in Nat : k \in T
  BY <1>7, <1>8, Induct
<1>10. ASSUME NEW i \in 1 .. n PROVE g[i] \in Nat /\ (i = 1 => g[i] = 0)
  <2>1. i - 1 \in Nat /\ (i - 1) + 1 = i
    BY <1>1
  <2>2. g[i] \in Nat
    BY <1>9, <2>1 DEF T
  <2>. QED BY <1>6, <2>2
<1>. QED BY <1>10

(* One group of a number of so many digits.                                *)
LEMMA OneGroupFits ==
  ASSUME NEW a \in PrintFloat!Args, NEW t, NEW digits \in Nat, 1 <= digits, digits + 8 <= FloatMinSize,
         NEW size \in Nat, NEW before \in Nat, InWindow(a) => size + a.punct.sep <= FloatMinSize
  PROVE  /\ AllFit(a, PrintFloat!GroupPieces(a, t, digits, size, before))
         /\ Len(PrintFloat!GroupPieces(a, t, digits, size, before)) <= 2
<1>. DEFINE left == digits - before
            part(k) == SubSeq(t, before + 1, before + k)
            n == size + a.punct.sep
            both(text) == PrintFloat!Piece(n, text, n)
            behind == both(part(size) \o <<PrintFloat!Separator>>)
            front == both(<<PrintFloat!Separator>> \o PrintFloat!Times(size, 0))
            first == IF left > 0 THEN PrintFloat!Piece(left, part(left), left) ELSE <<>>
            zeros == IF size > left
                     THEN PrintFloat!Piece(size - left, PrintFloat!Times(size - left, 0), size - left)
                     ELSE <<>>
            pieces == PrintFloat!GroupPieces(a, t, digits, size, before)
<1>1. pieces = IF left > size THEN behind
               ELSE IF left > 0 \/ before = 0 THEN first \o zeros ELSE front
  BY Zenon DEF PrintFloat!GroupPieces
<1>2. left \in Int /\ left <= digits /\ FloatMinSize \in Nat /\ n \in Nat /\ a.punct.sep \in Nat /\ a.punct.sep <= 4
  <2>1. a.punct.sep \in 0 .. 4
    BY PunctFacts
  <2>. QED BY <2>1, FloatConstants
<1>3. \A need, text, units : Len(PrintFloat!Piece(need, text, units)) = 1
  <2>1. \A p : Len(<<p>>) = 1
    OBVIOUS
  <2>. QED BY <2>1, Zenon DEF PrintFloat!Piece
<1>4. ASSUME NEW text PROVE AllFit(a, both(text)) /\ Len(both(text)) <= 2
  <2>1. n <= n /\ (InWindow(a) => n <= FloatMinSize)
    BY <1>2
  <2>2. Len(both(text)) = 1
    BY <1>3, Zenon
  <2>. HIDE DEF n
  <2>3. AllFit(a, both(text))
    BY <1>2, <2>1, GroupPieceFits, Zenon
  <2>. HIDE DEF both
  <2>. QED BY <2>2, <2>3
<1>5. CASE left > size
  <2>1. pieces = behind
    BY <1>1, <1>5, Zenon
  <2>. HIDE DEF n, both, pieces
  <2>. QED BY <1>4, <2>1 DEF pieces
<1>6. CASE ~(left > size) /\ (left > 0 \/ before = 0)
  <2>1. pieces = first \o zeros
    BY <1>1, <1>6, Zenon
  <2>2. left > 0
    BY <1>6
  <2>. DEFINE one == PrintFloat!Piece(left, part(left), left)
              two == PrintFloat!Piece(size - left, PrintFloat!Times(size - left, 0), size - left)
  <2>3. first = one
    BY <2>2, Zenon
  <2>4. AllFit(a, one)
    <3>1. left \in Nat /\ left <= left /\ left <= FloatMinSize
      BY <1>2, <2>2
    <3>. HIDE DEF left
    <3>. QED BY <3>1, PieceFits, Zenon
  <2>5. ASSUME size > left PROVE AllFit(a, two)
    <3>. DEFINE k == size - left
    <3>1. k \in Nat /\ k <= k /\ (InWindow(a) => k <= FloatMinSize)
      BY <1>2, <2>2, <2>5
    <3>. HIDE DEF k
    <3>2. AllFit(a, PrintFloat!Piece(k, PrintFloat!Times(k, 0), k))
      BY <3>1, GroupPieceFits, Zenon
    <3>. QED BY <3>2 DEF k
  <2>6. AllFit(a, zeros)
    <3>. HIDE DEF left
    <3>. QED BY <2>5, NothingFits, Zenon
  <2>7. AllFit(a, pieces)
    <3>. HIDE DEF first, zeros, pieces, one
    <3>. QED BY <2>1, <2>3, <2>4, <2>6, BothFit, Zenon
  <2>8. Len(pieces) <= 2
    <3>1. one \in Seq({one[1]}) /\ Len(one) = 1
      BY DEF PrintFloat!Piece
    <3>2. two \in Seq({two[1]}) /\ Len(two) = 1
      BY DEF PrintFloat!Piece
    <3>. DEFINE A == {one[1], two[1]}
    <3>3. one \in Seq(A) /\ two \in Seq(A)
      <4>1. \A x : x \in {one[1]} => x \in A
        OBVIOUS
      <4>2. \A x : x \in {two[1]} => x \in A
        OBVIOUS
      <4>. HIDE DEF A, one, two
      <4>. QED BY <3>1, <3>2, <4>1, <4>2, SeqOfMore, Zenon
    <3>4. zeros = two \/ zeros = <<>>
      <4>. HIDE DEF left
      <4>. QED BY Zenon
    <3>. HIDE DEF A, one, two
    <3>5. Len(one \o two) = Len(one) + Len(two)
      BY <3>3
    <3>6. Len(one \o <<>>) = Len(one)
      <4>1. one \o <<>> = one
        BY <3>3, ConcatEmptySeq
      <4>. QED BY <4>1
    <3>. HIDE DEF first, zeros, pieces
    <3>. QED BY <2>1, <2>3, <3>1, <3>2, <3>4, <3>5, <3>6
  <2>. HIDE DEF pieces
  <2>. QED BY <2>7, <2>8 DEF pieces
<1>7. CASE ~(left > size) /\ ~(left > 0 \/ before = 0)
  <2>1. pieces = front
    BY <1>1, <1>7, Zenon
  <2>. HIDE DEF n, both, pieces
  <2>. QED BY <1>4, <2>1 DEF pieces
<1>. QED BY <1>5, <1>6, <1>7

(* The sizes in the array of a number whose zeros are grouped.             *)
LEMMA StoredFacts ==
  ASSUME NEW a \in PrintFloat!Args, NEW f, f = PrintFloat!Data(a), PrintFloat!Amplifies(a, f),
         f.digits + f.e \in Nat
  PROVE  LET sizes == PrintFloat!StoredSizes(a, f) IN
         /\ sizes \in Seq(Nat) /\ Len(sizes) \in Nat
         /\ InWindow(a) => \A i \in 1 .. Len(sizes) : sizes[i] + a.punct.sep <= FloatMinSize
<1>. DEFINE n == f.digits + f.e  r == PrintFloat!GroupSizes(a.punct.grouping, n)
            sizes == PrintFloat!StoredSizes(a, f)
<1>1. sizes = [i \in DOMAIN r |-> r[i] % Byte]
  BY Zenon DEF PrintFloat!StoredSizes
<1>2. r \in Seq(0 .. n)
  <2>1. r = PrintInt!GroupSizes(a.punct.grouping, n)
    BY SameNumpunct, Zenon
  <2>. HIDE DEF n, r
  <2>. QED BY <2>1, PunctFacts, SizesBounded DEF n, Bounded, GroupsUpTo
<1>3. Byte \in Nat /\ Byte # 0
  BY FloatAssumption DEF PrintFloat!FloatPrinterAssumption
<1>. HIDE DEF r, sizes
<1>4. DOMAIN r = 1 .. Len(r) /\ Len(r) \in Nat /\ \A i \in 1 .. Len(r) : r[i] \in Nat
  BY <1>2
<1>5. \A i \in 1 .. Len(r) : r[i] % Byte \in Nat
  BY <1>3, <1>4, Quotient
<1>6. sizes \in Seq(Nat) /\ Len(sizes) \in Nat
  BY <1>1, <1>4, <1>5
<1>7. ASSUME InWindow(a), NEW i \in 1 .. Len(sizes) PROVE sizes[i] + a.punct.sep <= FloatMinSize
  <2>1. sizes[i] \in PrintFloat!ToSet(sizes)
    BY <1>6 DEF PrintFloat!ToSet
  <2>2. ~(sizes[i] + a.punct.sep > FloatMinSize)
    BY <1>7, <2>1, Zenon DEF InWindow, sizes
  <2>3. sizes[i] \in Nat /\ a.punct.sep \in 0 .. 4 /\ FloatMinSize \in Nat
    BY <1>6, PunctFacts, FloatConstants
  <2>. QED BY <2>2, <2>3
<1>. QED BY <1>6, <1>7 DEF sizes

LEMMA AmplifiedFits ==
  ASSUME NEW a \in PrintFloat!Args, PrintFloat!HasPunct(a), PrintFloat!Finite(a),
         NEW f, f = PrintFloat!Data(a), DataOK(a, f), Counted(a, f), Suffice(a), ~f.sci, f.e >= 0,
         ~PrintFloat!NoGroupSeparation(a.punct.grouping, PrintFloat!ToUnsigned(f.digits + f.e))
  PROVE  AllFit(a, PrintFloat!Amplified(a, f))
<1>. DEFINE n == f.digits + f.e  r == PrintFloat!StoredSizes(a, f)
            sizes == PrintFloat!Reverse(r)
            before == CHOOSE h : h = [i \in 1 .. Len(sizes) |->
                                        IF i = 1 THEN 0 ELSE h[i - 1] + sizes[i - 1]]
            seqs == [i \in 1 .. Len(sizes) |->
                       PrintFloat!GroupPieces(a, Digits(f.m), f.digits, sizes[i], before[i])]
            number == PrintFloat!WriteInt(f.m, f.digits)  zeros == PrintFloat!Run(f.e, 0)
<1>1. PrintFloat!Amplified(a, f) = IF a.punct.sep = 0 THEN number \o zeros
                                   ELSE IF n < 0 \/ PrintFloat!GroupsRunOut(a, f)
                                   THEN PrintFloat!Piece(0, <<PrintFloat!Garbage>>, 1)
                                   ELSE PrintFloat!FlattenSeq(seqs)
  BY Zenon DEF PrintFloat!Amplified, Digits
<1>2. CountedOK(a, f)
  BY DEF CountedOK, Counted
<1>3. f.digits \in Nat /\ 1 <= f.digits /\ f.digits + 8 <= FloatMinSize /\ f.e \in Int /\ FloatMinSize \in Nat
  BY <1>2, CountedFacts, FloatConstants
<1>4. CASE a.punct.sep = 0
  <2>1. AllFit(a, number)
    <3>1. f.digits <= FloatMinSize
      BY <1>3
    <3>. QED BY <1>3, <3>1, WriteIntFits, Zenon
  <2>2. AllFit(a, zeros)
    BY <1>3, RunFits, Zenon
  <2>3. PrintFloat!Amplified(a, f) = number \o zeros
    BY <1>1, <1>4, Zenon
  <2>. HIDE DEF number, zeros
  <2>. QED BY <2>1, <2>2, <2>3, BothFit, Zenon
<1>5. CASE a.punct.sep # 0
  <2>1. n \in Nat /\ ~(n < 0)
    BY <1>3
  <2>2. PrintFloat!Amplifies(a, f)
    BY <1>5 DEF PrintFloat!Amplifies
  <2>3. PrintFloat!Amplified(a, f) = PrintFloat!FlattenSeq(seqs)
    <3>1. ~PrintFloat!GroupsRunOut(a, f)
      BY <2>2 DEF Suffice
    <3>. QED BY <1>1, <1>5, <2>1, <3>1, Zenon
  <2>4. /\ r \in Seq(Nat) /\ Len(r) \in Nat
        /\ InWindow(a) => \A i \in 1 .. Len(r) : r[i] + a.punct.sep <= FloatMinSize
    BY <2>1, <2>2, StoredFacts, Zenon
  <2>. HIDE DEF n
  <2>. HIDE DEF r
  <2>. DEFINE l == Len(r)
  <2>5. sizes = [i \in 1 .. l |-> r[(l - i) + 1]]
    BY DEF PrintFloat!Reverse
  <2>6. \A i \in 1 .. l : (l - i) + 1 \in 1 .. l /\ r[(l - i) + 1] \in Nat
    BY <2>4
  <2>7. sizes \in Seq(Nat) /\ Len(sizes) = l
    BY <2>4, <2>5, <2>6
  <2>. HIDE DEF sizes
  <2>8. \A i \in 1 .. Len(sizes) : before[i] \in Nat /\ (i = 1 => before[i] = 0)
    BY <2>7, BeforeGroups, Zenon
  <2>. HIDE DEF before
  <2>9. ASSUME NEW i \in 1 .. l PROVE AllFit(a, seqs[i]) /\ Len(seqs[i]) <= 2
    <3>. DEFINE size == sizes[i]  b == before[i]
    <3>1. size = r[(l - i) + 1]
      BY <2>5
    <3>2. size \in Nat /\ (InWindow(a) => size + a.punct.sep <= FloatMinSize)
      BY <2>4, <2>6, <3>1
    <3>3. b \in Nat
      BY <2>7, <2>8
    <3>4. seqs[i] = PrintFloat!GroupPieces(a, Digits(f.m), f.digits, size, b)
      BY <2>7
    <3>. HIDE DEF size, b, seqs
    <3>. QED BY <1>3, <3>2, <3>3, <3>4, OneGroupFits, Zenon
  <2>10. seqs = [i \in 1 .. l |-> seqs[i]]
    BY <2>7
  <2>11. l \in Nat
    BY <2>4
  <2>. HIDE DEF seqs, l
  <2>. QED BY <2>3, <2>9, <2>10, <2>11, FlattenedFit, Zenon
<1>. QED BY <1>4, <1>5

(* The integral digits with their separators: at most two characters each. *)
LEMMA SeparatedFits ==
  ASSUME NEW a \in PrintFloat!Args, a.punct.sep = 1,
         NEW n \in Nat, 2 * n <= FloatMinSize, NEW t \in Seq(0 .. 9), Len(t) = n, NEW ends,
         NEW text,
         text = PrintFloat!FlattenSeq(
                  [i \in 1 .. n |-> IF n - i \in ends THEN <<t[i], PrintFloat!Separator>> ELSE <<t[i]>>])
  PROVE  PrintFloat!Units(a, text) \in 0 .. FloatMinSize
<1>. DEFINE D == 0 .. 9  A == D \cup {PrintFloat!Separator}
            seqs == [i \in 1 .. n |-> IF n - i \in ends THEN <<t[i], PrintFloat!Separator>> ELSE <<t[i]>>]
<1>1. \A x \in A, y \in A : /\ <<x, y>> \in Seq(A) /\ Len(<<x, y>>) = 2
                            /\ <<x>> \in Seq(A) /\ Len(<<x>>) = 1
  OBVIOUS
<1>2. \A i \in 1 .. n : t[i] \in A
  OBVIOUS
<1>3. PrintFloat!Separator \in A
  OBVIOUS
<1>4. \A x \in A : x \in Int /\ x # PrintFloat!Point
  BY DEF PrintFloat!Separator, PrintFloat!Point
<1>. HIDE DEF A
<1>5. ASSUME NEW i \in 1 .. n PROVE seqs[i] \in Seq(A) /\ Len(seqs[i]) <= 2
  <2>. DEFINE long == <<t[i], PrintFloat!Separator>>  short == <<t[i]>>
  <2>1. seqs[i] = long \/ seqs[i] = short
    OBVIOUS
  <2>2. long \in Seq(A) /\ Len(long) = 2 /\ short \in Seq(A) /\ Len(short) = 1
    BY <1>1, <1>2, <1>3, Zenon
  <2>. HIDE DEF long, short, seqs
  <2>3. 1 <= 2 /\ 2 <= 2
    OBVIOUS
  <2>4. long \in Seq(A) /\ Len(long) <= 2 /\ short \in Seq(A) /\ Len(short) <= 2
    BY <2>2, <2>3, Zenon
  <2>. QED BY <2>1, <2>4, Zenon
<1>6. seqs \in Seq(Seq(A)) /\ Len(seqs) = n
  <2>1. seqs = [i \in 1 .. n |-> seqs[i]]
    OBVIOUS
  <2>. HIDE DEF seqs
  <2>. QED BY <1>5, <2>1, SMTT(60)
<1>7. text = PrintFloat!FlattenSeq(seqs)
  OBVIOUS
<1>. HIDE DEF seqs
<1>8. text \in Seq(A) /\ Len(text) \in Nat /\ Len(text) <= 2 * n
  <2>1. 2 \in Nat /\ \A i \in 1 .. Len(seqs) : Len(seqs[i]) <= 2
    BY <1>5, <1>6
  <2>2. Len(text) <= 2 * Len(seqs) /\ text \in Seq(A) /\ Len(text) \in Nat
    BY <1>6, <1>7, <2>1, Flattened, Zenon
  <2>. QED BY <1>6, <2>2
<1>9. text \in Seq(Int)
  BY <1>4, <1>8, SeqOfMore, Zenon
<1>10. \A i \in 1 .. Len(text) : text[i] # PrintFloat!Point
  BY <1>4, <1>8
<1>11. PrintFloat!Units(a, text) = Len(text)
  BY <1>9, <1>10, UnitsWithoutPoint
<1>12. FloatMinSize \in Nat
  BY FloatConstants
<1>. QED BY <1>8, <1>11, <1>12

LEMMA GroupedFits ==
  ASSUME NEW a \in PrintFloat!Args,
         NEW n, NEW digits \in Nat, Digits(n) \in Seq(0 .. 9), Len(Digits(n)) = digits,
         2 * digits <= FloatMinSize
  PROVE  AllFit(a, PrintFloat!GroupedInt(a, n, digits))
<1>. DEFINE t == Digits(n)  sizes == PrintFloat!GroupSizes(a.punct.grouping, digits)
            ends == {PrintFloat!FoldLeft(LAMBDA sum, k : sum + k, 0, SubSeq(sizes, 1, i)) :
                       i \in 1 .. Len(sizes) - 1}
            text == PrintFloat!FlattenSeq([i \in 1 .. digits |->
                      IF digits - i \in ends THEN <<t[i], PrintFloat!Separator>> ELSE <<t[i]>>])
            p == [op |-> "grouped", text |-> text]
<1>1. PrintFloat!GroupedInt(a, n, digits) =
        IF a.punct.sep = 0 THEN PrintFloat!WriteInt(n, digits)
        ELSE IF Len(t) # digits THEN PrintFloat!Piece(0, <<PrintFloat!Garbage>>, 1)
        ELSE <<p>>
  BY Zenon DEF PrintFloat!GroupedInt, Digits
<1>2. AllFit(a, PrintFloat!WriteInt(n, digits))
  <2>1. digits <= FloatMinSize
    BY FloatConstants
  <2>. QED BY <2>1, WriteIntFits, Zenon
<1>3. AllFit(a, <<p>>)
  <2>1. a.punct.sep = 1 => PrintFloat!Units(a, text) \in 0 .. FloatMinSize
    <3>. HIDE DEF ends
    <3>. QED BY SeparatedFits, Zenon
  <2>2. p.op = "grouped" /\ p.text = text
    <3>. HIDE DEF text
    <3>. QED OBVIOUS
  <2>. HIDE DEF p, text
  <2>3. Fits(a, p)
    BY <2>1, <2>2, Zenon DEF Fits
  <2>. QED BY <2>3, OneFits, Zenon
<1>. HIDE DEF p
<1>. QED BY <1>1, <1>2, <1>3, Zenon

LEMMA PointFits ==
  ASSUME NEW a \in PrintFloat!Args
  PROVE  AllFit(a, PrintFloat!Ensured(a, <<PrintFloat!Point>>))
<1>1. PrintFloat!PointUnits(a) \in Nat /\ PrintFloat!PointUnits(a) <= 4
  BY PointUnitsFacts
<1>2. PrintFloat!Units(a, <<PrintFloat!Point>>) = PrintFloat!PointUnits(a)
  <2>1. 0 \in Nat
    OBVIOUS
  <2>. QED BY <2>1, UnitsWithPoint
<1>3. FloatMinSize \in Nat /\ 9 <= FloatMinSize
  BY DecimalFacts, FloatConstants
<1>4. PrintFloat!PointUnits(a) <= FloatMinSize
  BY <1>1, <1>3
<1>. QED BY <1>1, <1>2, <1>4, EnsuredFits, Zenon

(* The printers with punctuation: the other notation.                      *)
LEMMA PunctFits ==
  ASSUME NEW a \in PrintFloat!Args, PrintFloat!HasPunct(a), PrintFloat!Finite(a),
         NEW f, f = PrintFloat!Data(a), DataOK(a, f), Counted(a, f), Suffice(a), ~f.sci
  PROVE  AllFit(a, PrintFloat!PunctPieces(a, f))
<1>. DEFINE point == PrintFloat!Ensured(a, <<PrintFloat!Point>>)
            extra == PrintFloat!Run(f.extra, 0)
            idigits == PrintFloat!ToUnsigned(f.digits + f.e)
            integral == f.m \div PrintFloat!Power(10, PrintFloat!Abs(f.e))
            one == PrintFloat!NoGroupSeparation(a.punct.grouping, idigits)
            number == PrintFloat!WriteInt(f.m, f.digits)
            whole == IF one THEN number \o PrintFloat!Run(f.e, 0) ELSE PrintFloat!Amplified(a, f)
            behind == IF f.point THEN point ELSE <<>>
            zero == PrintFloat!Ensured(a, <<0>>)
            zeros == PrintFloat!LeadingZeros(f)
            front == IF one THEN PrintFloat!WriteInt(integral, idigits)
                     ELSE PrintFloat!GroupedInt(a, integral, idigits)
            fraction == PrintFloat!Piece(-f.e, PrintFloat!Fraction(f.m, -f.e), -f.e)
<1>1. PrintFloat!PunctPieces(a, f) =
        IF f.e >= 0 THEN (whole \o behind) \o extra
        ELSE IF -f.e >= PrintFloat!ToUnsigned(f.digits)
        THEN (((zero \o point) \o zeros) \o number) \o extra
        ELSE ((front \o point) \o fraction) \o extra
  BY Zenon DEF PrintFloat!PunctPieces
<1>2. CountedOK(a, f)
  BY DEF CountedOK, Counted
<1>3. /\ f.digits \in Nat /\ 1 <= f.digits /\ f.digits + 8 <= FloatMinSize /\ f.e \in Int
      /\ FloatMinSize \in Nat /\ f.extra \in Nat /\ f.m \in Nat /\ f.digits <= DigitsIn(a)
      /\ f.digits = Count(f.m)
  BY <1>2, CountedFacts, FloatConstants DEF CountedOK
<1>4. PrintFloat!ToUnsigned(f.digits) = f.digits
  BY <1>3, SmallUnsigned
<1>5. AllFit(a, point) /\ AllFit(a, extra)
  BY <1>3, PointFits, RunFits
<1>6. AllFit(a, number)
  <2>1. f.digits <= FloatMinSize
    BY <1>3
  <2>. QED BY <1>3, <2>1, WriteIntFits, Zenon
<1>. HIDE DEF point, extra, number
<1>7. CASE f.e >= 0
  <2>1. PrintFloat!PunctPieces(a, f) = (whole \o behind) \o extra
    BY <1>1, <1>7, Zenon
  <2>2. AllFit(a, whole)
    <3>1. CASE one
      <4>1. whole = number \o PrintFloat!Run(f.e, 0)
        BY <3>1, Zenon
      <4>2. AllFit(a, PrintFloat!Run(f.e, 0))
        BY <1>3, RunFits, Zenon
      <4>. HIDE DEF whole
      <4>. QED BY <1>6, <4>1, <4>2, BothFit, Zenon
    <3>2. CASE ~one
      <4>1. whole = PrintFloat!Amplified(a, f)
        BY <3>2, Zenon
      <4>. HIDE DEF whole
      <4>. QED BY <1>7, <3>2, <4>1, AmplifiedFits, Zenon
    <3>. QED BY <3>1, <3>2, Zenon
  <2>3. AllFit(a, behind)
    BY <1>5, NothingFits, Zenon
  <2>. HIDE DEF whole, behind
  <2>. QED BY <1>5, <2>1, <2>2, <2>3, BothFit, Zenon
<1>8. CASE ~(f.e >= 0) /\ -f.e >= PrintFloat!ToUnsigned(f.digits)
  <2>1. PrintFloat!PunctPieces(a, f) = (((zero \o point) \o zeros) \o number) \o extra
    BY <1>1, <1>8, Zenon
  <2>2. AllFit(a, zero)
    <3>. DEFINE s == <<0>>
    <3>1. s \in Seq(Int) /\ Len(s) = 1
      OBVIOUS
    <3>2. \A i \in 1 .. Len(s) : s[i] # PrintFloat!Point /\ s[i] # PrintFloat!Separator
      BY DEF PrintFloat!Point, PrintFloat!Separator
    <3>. HIDE DEF s
    <3>3. Plain(s) /\ Len(s) <= FloatMinSize
      BY <1>3, <3>1, <3>2 DEF Plain
    <3>4. AllFit(a, PrintFloat!Ensured(a, s))
      BY <3>3, PlainFits, Zenon
    <3>. QED BY <3>4 DEF s
  <2>3. AllFit(a, zeros)
    <3>1. -f.e - f.digits \in Int
      BY <1>3
    <3>. QED BY <3>1, RunFits, Zenon DEF PrintFloat!LeadingZeros
  <2>. HIDE DEF zero, zeros
  <2>. QED BY <1>5, <1>6, <2>1, <2>2, <2>3, BothFit, Zenon
<1>9. CASE ~(f.e >= 0) /\ ~(-f.e >= PrintFloat!ToUnsigned(f.digits))
  <2>1. PrintFloat!PunctPieces(a, f) = ((front \o point) \o fraction) \o extra
    BY <1>1, <1>9, Zenon
  <2>. DEFINE k == -f.e
  <2>2. k \in Nat /\ k # 0 /\ k < f.digits /\ PrintFloat!Abs(f.e) = k /\ f.digits + f.e = f.digits - k
    BY <1>3, <1>4, <1>9 DEF PrintFloat!Abs
  <2>3. idigits = f.digits - k /\ f.digits - k \in Nat /\ f.digits - k <= FloatMinSize
    <3>. HIDE DEF k
    <3>1. f.digits - k \in Nat /\ f.digits - k <= FloatMinSize
      BY <1>3, <2>2
    <3>. QED BY <2>2, <3>1, SmallUnsigned
  <2>4. AllFit(a, front)
    <3>1. AllFit(a, PrintFloat!WriteInt(integral, idigits))
      BY <2>3, WriteIntFits, Zenon
    <3>2. AllFit(a, PrintFloat!GroupedInt(a, integral, idigits))
      <4>1. integral = f.m \div PrintFloat!Power(10, k)
        BY <2>2, Zenon
      <4>2. Digits(integral) \in Seq(0 .. 9) /\ Len(Digits(integral)) = Count(f.m) - k
        <5>. HIDE DEF k, integral
        <5>1. k < Count(f.m)
          BY <1>3, <2>2
        <5>. QED BY <1>3, <2>2, <4>1, <5>1, IntegralFacts, Zenon
      <4>3. idigits \in Nat /\ Len(Digits(integral)) = idigits
        BY <1>3, <2>3, <4>2, Zenon
      <4>4. 2 * idigits <= FloatMinSize
        <5>1. 2 * DigitsIn(a) <= FloatMinSize /\ DigitsIn(a) \in Nat
          BY FloatArgFacts, DecimalFacts
        <5>. QED BY <1>3, <2>2, <2>3, <5>1, SMTT(60)
      <4>. HIDE DEF integral, idigits
      <4>. QED BY <4>2, <4>3, <4>4, GroupedFits, Zenon
    <3>. QED BY <3>1, <3>2, Zenon
  <2>5. AllFit(a, fraction)
    <3>1. k <= FloatMinSize /\ k <= k
      BY <1>3, <2>2
    <3>. DEFINE text == PrintFloat!Fraction(f.m, k)
    <3>2. fraction = PrintFloat!Piece(k, text, k)
      OBVIOUS
    <3>. HIDE DEF k, text, fraction
    <3>. QED BY <2>2, <3>1, <3>2, PieceFits, Zenon
  <2>. HIDE DEF front, fraction
  <2>. QED BY <1>5, <2>1, <2>4, <2>5, BothFit, Zenon
<1>. QED BY <1>7, <1>8, <1>9, Zenon

-----------------------------------------------------------------------------
(* The fill characters, and all pieces in the order of the alignment.      *)
LEMMA SmallInts ==
  /\ \A b : PrintFloat!Bit(b) \in Int
  /\ \A i, j \in Int : PrintFloat!Larger(i, j) \in Int
  /\ \A f : PrintFloat!ExponentUnits(f) \in Int /\ PrintFloat!ExponentGuess(f) \in Int
  /\ \A i \in Int : PrintFloat!ToInt16(i) \in Int
<1>1. \A b : PrintFloat!Bit(b) \in 0 .. 1
  BY DEF PrintFloat!Bit
<1>2. \A i, j \in Int : PrintFloat!Larger(i, j) \in Int
  BY DEF PrintFloat!Larger
<1>3. \A b : 4 + PrintFloat!Bit(b) \in Int
  BY <1>1
<1>4. \A f : PrintFloat!ExponentUnits(f) \in Int /\ PrintFloat!ExponentGuess(f) \in Int
  BY <1>3, Zenon DEF PrintFloat!ExponentUnits, PrintFloat!ExponentGuess
<1>5. \A i \in Int : PrintFloat!ToInt16(i) \in Int
  BY FloatConstants DEF PrintFloat!ToInt16
<1>. QED BY <1>1, <1>2, <1>4, <1>5

LEMMA ContentWidthInt ==
  ASSUME NEW a \in PrintFloat!Args
  PROVE  PrintFloat!ContentWidth(a) \in Int
<1>. DEFINE f == PrintFloat!Data(a)
            b(x) == PrintFloat!Bit(x)  up == PrintFloat!Larger(f.e, 0)
            units == PrintFloat!ExponentUnits(f)  guess == PrintFloat!ExponentGuess(f)
            seps == PrintFloat!SepCount(a, f)
            sign == b(PrintFloat!ShowSign(a))  point == b(f.point)
            fixed == up + (IF f.e <= -f.digits THEN 1 - f.e - f.digits ELSE 0)
            inner == IF f.sci THEN f.digits + units
                     ELSE IF f.e <= -f.digits THEN 1 - f.e ELSE (f.digits + up) + 1 * seps
            finite == PrintFloat!Finite(a)
            wide == sign + (IF ~finite THEN 3
                            ELSE ((f.extra + point) + f.digits) + (IF f.sci THEN guess ELSE fixed))
            grouped == sign + (IF ~finite THEN 3 ELSE (f.extra + 1 * point) + inner)
<1>1. f.e \in Int /\ f.digits \in Int /\ f.extra \in Int
  BY DataFacts DEF DataOK
<1>2. up \in Int /\ units \in Int /\ guess \in Int /\ sign \in Int /\ point \in Int
  <2>1. 0 \in Int
    OBVIOUS
  <2>. QED BY <1>1, <2>1, SmallInts, Zenon
<1>3. ~(f.e <= -f.digits) => seps \in Int
  <2>. DEFINE n == f.digits + f.e  g == a.punct.grouping
  <2>1. ASSUME ~(f.e <= -f.digits) PROVE PrintFloat!ThousandsSepCount(g, n) \in Int
    <3>1. n \in Nat
      BY <1>1, <2>1
    <3>2. g \in Seq(Nat) \ {<<>>}
      BY PunctFacts
    <3>. HIDE DEF n, g
    <3>3. PrintFloat!ThousandsSepCount(g, n) = Len(PrintInt!GroupSizes(g, n)) - 1
      BY <3>1, <3>2, SeparatorsMatchGroups, SameNumpunct
    <3>4. Bounded(PrintInt!GroupSizes(g, n), n)
      BY <3>1, <3>2, SizesBounded
    <3>5. Len(PrintInt!GroupSizes(g, n)) \in Nat
      BY <3>4 DEF Bounded, GroupsUpTo
    <3>. QED BY <3>3, <3>5
  <2>2. seps = IF a.punct.sep = 0 THEN 0 ELSE PrintFloat!ThousandsSepCount(g, n)
    BY Zenon DEF PrintFloat!SepCount
  <2>. HIDE DEF n, g, seps
  <2>. QED BY <2>1, <2>2
<1>4. PrintFloat!DoubleWidth(a, f) = wide
  BY Zenon DEF PrintFloat!DoubleWidth
<1>5. PrintFloat!Punctuated(a, f, 1, 1) = grouped
  BY Zenon DEF PrintFloat!Punctuated
<1>6. PrintFloat!ContentWidth(a) = PrintFloat!ToInt16(
        IF PrintFloat!HasPunct(a) THEN PrintFloat!Punctuated(a, f, 1, 1) ELSE PrintFloat!DoubleWidth(a, f))
  BY Zenon DEF PrintFloat!ContentWidth
<1>. HIDE DEF f, up, units, guess, seps, sign, point, finite
<1>7. wide \in Int
  BY <1>1, <1>2
<1>8. grouped \in Int
  <2>1. inner \in Int
    BY <1>1, <1>2, <1>3
  <2>. HIDE DEF inner
  <2>. QED BY <1>1, <1>2, <2>1
<1>. HIDE DEF wide, grouped
<1>. QED BY <1>4, <1>5, <1>6, <1>7, <1>8, SmallInts, Zenon

LEMMA BodyFits ==
  ASSUME NEW a \in PrintFloat!Args, a.printer # "fast_double",
         NEW f, f = PrintFloat!Data(a), DataOK(a, f), Counted(a, f), Suffice(a)
  PROVE  AllFit(a, PrintFloat!Body(a, f))
<1>1. a.printer \in {"double", "fast_punct_double", "punct_double"}
  BY FloatArgFacts DEF PrintFloat!Printers
<1>2. CASE ~PrintFloat!Finite(a)
  <2>1. PrintFloat!Body(a, f) = PrintFloat!Ensured(a, PrintFloat!Special(a))
    BY <1>2 DEF PrintFloat!Body
  <2>2. Plain(PrintFloat!Special(a)) /\ Len(PrintFloat!Special(a)) = 3
    BY SpecialFacts
  <2>3. Len(PrintFloat!Special(a)) <= FloatMinSize
    BY <2>2, DecimalFacts, FloatConstants
  <2>. QED BY <2>1, <2>2, <2>3, PlainFits, Zenon
<1>3. CASE PrintFloat!Finite(a) /\ a.printer = "double"
  <2>1. PrintFloat!Body(a, f) = PrintFloat!DoublePieces(a, f)
    BY <1>3 DEF PrintFloat!Body, PrintFloat!HasPunct
  <2>2. CASE f.sci
    BY <1>3, <2>1, <2>2, DoubleScientific, Zenon
  <2>3. CASE ~f.sci
    BY <1>3, <2>1, <2>3, DoubleFixed, Zenon
  <2>. QED BY <2>2, <2>3, Zenon
<1>4. CASE PrintFloat!Finite(a) /\ a.printer # "double"
  <2>1. PrintFloat!HasPunct(a)
    BY <1>1, <1>4 DEF PrintFloat!HasPunct
  <2>2. PrintFloat!Body(a, f) = IF f.sci THEN PrintFloat!ScientificPieces(a, f)
                                ELSE PrintFloat!PunctPieces(a, f)
    BY <1>4, <2>1 DEF PrintFloat!Body
  <2>3. AllFit(a, PrintFloat!ScientificPieces(a, f))
    BY <1>4, ScientificFits, Zenon
  <2>4. ASSUME ~f.sci PROVE AllFit(a, PrintFloat!PunctPieces(a, f))
    BY <1>4, <2>1, <2>4, PunctFits, Zenon
  <2>. QED BY <2>2, <2>3, <2>4, Zenon
<1>. QED BY <1>2, <1>3, <1>4, Zenon

LEMMA PiecesFit ==
  ASSUME NEW a \in PrintFloat!Args, Counted(a, PrintFloat!Data(a)), Suffice(a)
  PROVE  AllFit(a, PrintFloat!Pieces(a))
<1>. DEFINE f == PrintFloat!Data(a)  fill(n) == PrintFloat!Run(n, PrintFloat!FillChar)
            n == PrintFloat!FillCount(a)  sign == PrintFloat!Ensured(a, PrintFloat!SignText(a))
            body == PrintFloat!Body(a, f)  align == a.fmt.align
            half == n \div 2
<1>1. DataOK(a, f)
  BY DataFacts
<1>2. AllFit(a, sign)
  <2>1. Plain(PrintFloat!SignText(a)) /\ Len(PrintFloat!SignText(a)) <= 1
    BY SignFacts
  <2>2. Len(PrintFloat!SignText(a)) \in Nat /\ 1 <= FloatMinSize /\ FloatMinSize \in Nat
    BY <2>1, DecimalFacts, FloatConstants DEF Plain
  <2>3. Len(PrintFloat!SignText(a)) <= FloatMinSize
    BY <2>1, <2>2
  <2>. QED BY <2>1, <2>3, PlainFits, Zenon
<1>3. n \in Int /\ half \in Int /\ n - half \in Int
  <2>1. a.fmt.width \in Nat /\ PrintFloat!ContentWidth(a) \in Int
    BY FormatFacts, ContentWidthInt
  <2>2. n \in Int
    BY <2>1 DEF PrintFloat!FillCount
  <2>. HIDE DEF n
  <2>. QED BY <2>2
<1>4. AllFit(a, fill(n)) /\ AllFit(a, fill(half)) /\ AllFit(a, fill(n - half))
  <2>. HIDE DEF n, half
  <2>. QED BY <1>3, RunFits, Zenon
<1>5. a.printer # "fast_double" => AllFit(a, body)
  BY <1>1, BodyFits, Zenon
<1>6. a.printer = "fast_double" => AllFit(a, PrintFloat!FastPieces(a, f))
  BY <1>1, FastPiecesFit, Zenon
<1>7. align \in {"left", "right", "split", "center"}
  BY FormatFacts
<1>8. PrintFloat!Pieces(a) =
        CASE a.printer = "fast_double" -> PrintFloat!FastPieces(a, f)
          [] a.printer = "fast_punct_double" -> sign \o body
          [] ~PrintFloat!IsFast(a) ->
               CASE align = "right" -> (fill(n) \o sign) \o body
                 [] align = "left" -> (sign \o body) \o fill(n)
                 [] align = "split" -> (sign \o fill(n)) \o body
                 [] align = "center" -> ((fill(half) \o sign) \o body) \o fill(n - half)
  BY Zenon DEF PrintFloat!Pieces
<1>. DEFINE before == fill(n)  left == fill(half)  right == fill(n - half)
            fast == PrintFloat!FastPieces(a, f)
<1>9. AllFit(a, before) /\ AllFit(a, left) /\ AllFit(a, right)
  BY <1>4
<1>10. PrintFloat!Pieces(a) =
        CASE a.printer = "fast_double" -> fast
          [] a.printer = "fast_punct_double" -> sign \o body
          [] ~PrintFloat!IsFast(a) ->
               CASE align = "right" -> (before \o sign) \o body
                 [] align = "left" -> (sign \o body) \o before
                 [] align = "split" -> (sign \o before) \o body
                 [] align = "center" -> ((left \o sign) \o body) \o right
  BY <1>8, Zenon
<1>. HIDE DEF sign, body, before, left, right, align, fast, f
<1>11. CASE a.printer = "fast_double"
  <2>1. PrintFloat!Pieces(a) = fast
    BY <1>10, <1>11 DEF PrintFloat!IsFast
  <2>. QED BY <1>6, <1>11, <2>1 DEF fast
<1>12. CASE a.printer = "fast_punct_double"
  <2>1. PrintFloat!Pieces(a) = sign \o body
    BY <1>10, <1>12 DEF PrintFloat!IsFast
  <2>2. AllFit(a, body)
    BY <1>5, <1>12
  <2>. QED BY <1>2, <2>1, <2>2, BothFit, Zenon
<1>13. CASE a.printer # "fast_double" /\ a.printer # "fast_punct_double"
  <2>1. AllFit(a, body)
    BY <1>5, <1>13
  <2>2. ~PrintFloat!IsFast(a)
    BY <1>13 DEF PrintFloat!IsFast
  <2>3. CASE align = "right"
    <3>1. PrintFloat!Pieces(a) = (before \o sign) \o body
      BY <1>10, <1>13, <2>2, <2>3
    <3>. QED BY <1>2, <1>9, <2>1, <3>1, BothFit, Zenon
  <2>4. CASE align = "left"
    <3>1. PrintFloat!Pieces(a) = (sign \o body) \o before
      BY <1>10, <1>13, <2>2, <2>4
    <3>. QED BY <1>2, <1>9, <2>1, <3>1, BothFit, Zenon
  <2>5. CASE align = "split"
    <3>1. PrintFloat!Pieces(a) = (sign \o before) \o body
      BY <1>10, <1>13, <2>2, <2>5
    <3>. QED BY <1>2, <1>9, <2>1, <3>1, BothFit, Zenon
  <2>6. CASE align = "center"
    <3>1. PrintFloat!Pieces(a) = ((left \o sign) \o body) \o right
      BY <1>10, <1>13, <2>2, <2>6
    <3>. QED BY <1>2, <1>9, <2>1, <3>1, BothFit, Zenon
  <2>. QED BY <1>7, <2>3, <2>4, <2>5, <2>6 DEF align
<1>. QED BY <1>11, <1>12, <1>13, Zenon

-----------------------------------------------------------------------------
(* The strengthening of FloatWindowSafe: what is still to be written fits, *)
(* and asks for no more than was said to be asked for.                     *)
InContract(s) == \E A : s \in Seq(A) /\ \A p \in A : p.op = "store" => p.need <= FloatMinSize

Premises ==
  /\ PrintFloat!DigitsCounted /\ PrintFloat!ExponentCounted /\ PrintFloat!RoomAsked
  /\ PrintFloat!GroupsSuffice

InItsContract == ~PrintFloat!BeyondContract(PrintFloat!Pieces(arg))

FloatFits ==
  type = "float" =>
    /\ arg \in PrintFloat!Args
    /\ Premises =>
         /\ AllFit(arg, todo)
         /\ InItsContract => room \in Nat /\ InContract(todo)

LEMMA FittingPieces ==
  ASSUME arg \in PrintFloat!Args, Premises
  PROVE  AllFit(arg, PrintFloat!Pieces(arg))
<1>1. Counted(arg, PrintFloat!Data(arg))
  BY Zenon DEF Premises, PrintFloat!DigitsCounted, PrintFloat!ExponentCounted, PrintFloat!RoomAsked, Counted, Count
<1>2. Suffice(arg)
  BY Zenon DEF Premises, PrintFloat!GroupsSuffice, Suffice
<1>. QED BY <1>1, <1>2, PiecesFit, Zenon

(* Only a group that is too large asks for more than recycle() leaves.     *)
LEMMA GroupsDecide ==
  ASSUME AllFit(arg, todo), PrintFloat!BeyondContract(todo)
  PROVE  PrintFloat!LargeGroup
<1>1. PICK A : todo \in Seq(A) /\ \A p \in A : Fits(arg, p)
  BY Zenon DEF AllFit
<1>2. PICK p \in PrintFloat!ToSet(todo) : p.op = "store" /\ p.need > FloatMinSize
  BY Zenon DEF PrintFloat!BeyondContract
<1>3. p \in A
  BY <1>1 DEF PrintFloat!ToSet
<1>4. p.need \in Nat /\ (InWindow(arg) => p.need <= FloatMinSize)
  BY <1>1, <1>2, <1>3 DEF Fits
<1>5. ~InWindow(arg)
  BY <1>2, <1>4, FloatConstants
<1>. QED BY <1>5, Zenon DEF PrintFloat!LargeGroup, InWindow

LEMMA FitsAtFirst == Init => FloatFits
<1>1. ASSUME type = "float", PrintFloat!Init PROVE FloatFits
  <2>1. arg \in PrintFloat!Args /\ room \in FloatRooms /\ todo = PrintFloat!Pieces(arg)
    BY <1>1 DEF PrintFloat!Init
  <2>2. room \in Nat
    BY <2>1, FloatConstants
  <2>3. ASSUME Premises PROVE AllFit(arg, todo)
    BY <2>1, <2>3, FittingPieces, Zenon
  <2>4. ASSUME Premises, InItsContract PROVE InContract(todo)
    <3>1. PICK A : todo \in Seq(A) /\ \A p \in A : Fits(arg, p)
      BY <2>3, <2>4, Zenon DEF AllFit
    <3>. DEFINE B == PrintFloat!ToSet(todo)
    <3>2. todo \in Seq(B) /\ \A p \in B : p \in A
      BY <3>1 DEF PrintFloat!ToSet
    <3>3. ASSUME NEW p \in B, p.op = "store" PROVE p.need <= FloatMinSize
      <4>1. ~(p.need > FloatMinSize)
        BY <2>1, <2>4, <3>3, Zenon DEF InItsContract, PrintFloat!BeyondContract
      <4>2. Fits(arg, p)
        BY <3>1, <3>2
      <4>3. p.need \in Nat
        BY <3>3, <4>2 DEF Fits
      <4>. QED BY <4>1, <4>3, FloatConstants
    <3>. HIDE DEF B
    <3>. QED BY <3>2, <3>3, Zenon DEF InContract
  <2>. QED BY <2>1, <2>2, <2>3, <2>4 DEF FloatFits
<1>2. ASSUME Init, type = "float" PROVE PrintFloat!Init
  BY <1>2 DEF Init
<1>. QED BY <1>1, <1>2 DEF FloatFits

LEMMA FirstInContract ==
  ASSUME NEW s, InContract(s), s # <<>>
  PROVE  /\ Head(s).op = "store" => Head(s).need <= FloatMinSize
         /\ InContract(Tail(s))
<1>1. PICK A : s \in Seq(A) /\ \A p \in A : p.op = "store" => p.need <= FloatMinSize
  BY DEF InContract
<1>2. Head(s) \in A /\ Tail(s) \in Seq(A)
  BY <1>1, TailWithin
<1>. QED BY <1>1, <1>2, Zenon DEF InContract

(* A piece of each of the three kinds leaves a window in which nothing has *)
(* been stored beyond the end.                                             *)
LEMMA StoreFits ==
  ASSUME AllFit(arg, todo), InContract(todo), room \in Nat, PrintFloat!Store
  PROVE  room' \in Nat
<1>. DEFINE p == Head(todo)
<1>1. todo # <<>> /\ p.op = "store" /\ todo' = Tail(todo)
      /\ \E r \in (IF room >= p.need THEN {room} ELSE FloatWindows) : room' = r - p.units
  BY DEF PrintFloat!Store, PrintFloat!Call
<1>2. Fits(arg, p) /\ p.need <= FloatMinSize
  BY <1>1, FirstFits, FirstInContract, Zenon
<1>. HIDE DEF p
<1>3. p.need \in Nat /\ p.units \in Nat /\ p.units <= p.need /\ p.need <= FloatMinSize
  BY <1>1, <1>2 DEF Fits
<1>4. PICK r \in (IF room >= p.need THEN {room} ELSE FloatWindows) : room' = r - p.units
  BY <1>1
<1>5. r \in Nat /\ r >= p.need
  <2>1. CASE room >= p.need
    BY <2>1
  <2>2. CASE ~(room >= p.need)
    <3>1. r \in FloatWindows
      BY <2>2
    <3>2. r \in Nat /\ r >= FloatMinSize /\ FloatMinSize \in Nat
      BY <3>1, FloatConstants
    <3>. QED BY <1>3, <3>2
  <2>. QED BY <2>1, <2>2
<1>. QED BY <1>2, <1>3, <1>4, <1>5

LEMMA FillFits ==
  ASSUME AllFit(arg, todo), room \in Nat, PrintFloat!Fill
  PROVE  room' \in Nat
<1>. DEFINE p == Head(todo)  n == Len(p.text)
<1>1. todo # <<>> /\ p.op = "fill" /\ todo' = Tail(todo)
      /\ (IF n <= room THEN room' = room - n ELSE room' \in 0 .. FloatMinSize)
  BY DEF PrintFloat!Fill, PrintFloat!Call
<1>2. Fits(arg, p)
  BY <1>1, FirstFits, Zenon
<1>. HIDE DEF p
<1>3. n \in Nat
  BY <1>1, <1>2 DEF Fits
<1>. HIDE DEF n
<1>. QED BY <1>1, <1>2, <1>3, FloatConstants

LEMMA GroupedStepFits ==
  ASSUME AllFit(arg, todo), room \in Nat, PrintFloat!Grouped
  PROVE  room' \in Nat
<1>. DEFINE p == Head(todo)  n == PrintFloat!Units(arg, p.text)
<1>1. todo # <<>> /\ p.op = "grouped" /\ todo' = Tail(todo)
      /\ (IF arg.punct.sep = 1
          THEN \E r \in (IF room >= n THEN {room} ELSE FloatWindows) : room' = r - n
          ELSE room' \in 0 .. FloatMinSize)
  BY Zenon DEF PrintFloat!Grouped, PrintFloat!Call
<1>2. Fits(arg, p)
  BY <1>1, FirstFits, Zenon
<1>. HIDE DEF p
<1>3. arg.punct.sep = 1 => n \in 0 .. FloatMinSize
  BY <1>1, <1>2 DEF Fits
<1>. HIDE DEF n
<1>4. CASE arg.punct.sep = 1
  <2>1. n \in Nat /\ n <= FloatMinSize /\ FloatMinSize \in Nat
    BY <1>3, <1>4, FloatConstants
  <2>2. PICK r \in (IF room >= n THEN {room} ELSE FloatWindows) : room' = r - n
    BY <1>1, <1>4
  <2>3. r \in Nat /\ r >= n
    <3>1. CASE room >= n
      BY <3>1, <2>2
    <3>2. CASE ~(room >= n)
      <4>1. r \in FloatWindows
        BY <3>2
      <4>2. r \in Nat /\ r >= FloatMinSize
        BY <4>1, FloatConstants
      <4>. QED BY <2>1, <4>2
    <3>. QED BY <3>1, <3>2
  <2>. QED BY <1>2, <2>1, <2>2, <2>3
<1>5. CASE arg.punct.sep # 1
  BY <1>1, <1>2, <1>5, FloatConstants
<1>. QED BY <1>4, <1>5

(* The premises, and what is said of all requests, are about the argument. *)
LEMMA SameArgument ==
  ASSUME arg' = arg
  PROVE  /\ Premises' <=> Premises
         /\ InItsContract' <=> InItsContract
         /\ AllFit(arg, todo)' <=> AllFit(arg, todo')
         /\ InContract(todo)' <=> InContract(todo')
<1>1. /\ PrintFloat!DigitsCounted' <=> PrintFloat!DigitsCounted
      /\ PrintFloat!ExponentCounted' <=> PrintFloat!ExponentCounted
      /\ PrintFloat!RoomAsked' <=> PrintFloat!RoomAsked
      /\ PrintFloat!GroupsSuffice' <=> PrintFloat!GroupsSuffice
  BY DEF PrintFloat!DigitsCounted, PrintFloat!ExponentCounted, PrintFloat!RoomAsked, PrintFloat!GroupsSuffice
<1>2. InItsContract' <=> InItsContract
  BY DEF InItsContract
<1>3. AllFit(arg, todo)' <=> AllFit(arg, todo')
  OBVIOUS
<1>4. InContract(todo)' <=> InContract(todo')
  OBVIOUS
<1>. QED BY <1>1, <1>2, <1>3, <1>4 DEF Premises

LEMMA FitsKept == FloatFits /\ [Next]_vars => FloatFits'
<1>1. ASSUME FloatFits, type = "float", PrintFloat!Store \/ PrintFloat!Fill \/ PrintFloat!Grouped,
             type' = type
      PROVE  FloatFits'
  <2>1. arg' = arg /\ arg \in PrintFloat!Args
    BY <1>1 DEF FloatFits, PrintFloat!Store, PrintFloat!Fill, PrintFloat!Grouped
  <2>2. todo # <<>> /\ todo' = Tail(todo)
    BY <1>1 DEF PrintFloat!Store, PrintFloat!Fill, PrintFloat!Grouped, PrintFloat!Call
  <2>3. ASSUME Premises PROVE AllFit(arg, todo) /\ AllFit(arg, todo')
    BY <1>1, <2>2, <2>3, FirstFits, Zenon DEF FloatFits
  <2>4. ASSUME Premises, InItsContract PROVE room' \in Nat /\ InContract(todo')
    <3>1. AllFit(arg, todo) /\ InContract(todo) /\ room \in Nat
      BY <1>1, <2>4 DEF FloatFits
    <3>2. InContract(todo')
      BY <2>2, <3>1, FirstInContract, Zenon
    <3>. QED BY <1>1, <3>1, <3>2, StoreFits, FillFits, GroupedStepFits, Zenon
  <2>5. Premises' => AllFit(arg, todo)'
    BY <2>1, <2>3, SameArgument
  <2>6. Premises' /\ InItsContract' => room' \in Nat /\ InContract(todo)'
    BY <2>1, <2>4, SameArgument
  <2>. QED BY <2>1, <2>5, <2>6 DEF FloatFits
<1>2. ASSUME FloatFits, UNCHANGED <<type, arg, room, todo>> PROVE FloatFits'
  <2>1. type' = type /\ arg' = arg /\ room' = room /\ todo' = todo
    BY <1>2
  <2>2. /\ AllFit(arg, todo)' <=> AllFit(arg, todo)
        /\ InContract(todo)' <=> InContract(todo)
    BY <2>1
  <2>3. /\ Premises' <=> Premises
        /\ InItsContract' <=> InItsContract
    BY <2>1, SameArgument
  <2>. QED BY <1>2, <2>1, <2>2, <2>3 DEF FloatFits
<1>3. ASSUME FloatFits, type # "float", type' = type PROVE FloatFits'
  BY <1>3 DEF FloatFits
<1>4. ASSUME FloatFits, Next PROVE FloatFits'
  <2>1. type' = type
    BY <1>4 DEF Next
  <2>2. CASE type # "float"
    BY <1>3, <1>4, <2>1, <2>2
  <2>3. CASE type = "float"
    <3>1. PrintFloat!Next
      BY <1>4, <2>3 DEF Next
    <3>2. CASE PrintFloat!Store \/ PrintFloat!Fill \/ PrintFloat!Grouped
      BY <1>1, <1>4, <2>1, <2>3, <3>2
    <3>3. CASE UNCHANGED PrintFloat!vars
      BY <1>2, <1>4, <2>1, <3>3 DEF PrintFloat!vars
    <3>. QED BY <3>1, <3>2, <3>3 DEF PrintFloat!Next
  <2>. QED BY <2>2, <2>3
<1>5. ASSUME FloatFits, UNCHANGED vars PROVE FloatFits'
  BY <1>2, <1>5 DEF vars
<1>. QED BY <1>4, <1>5

(* For every number, format and grouping, however large the groups: when   *)
(* the digits and the exponent were counted right and ensure() was asked   *)
(* for all of them, no piece is stored beyond the end of its window,       *)
(* wherever recycle() is called, unless ensure() was asked for more than   *)
(* its precondition allows; and it never is, unless a group of zeros, with *)
(* its separator, is larger than the smallest window.                      *)
THEOREM FloatPrintsInWindow == Spec => []FloatWindowSafe
<1>1. FloatFits => FloatWindowSafe
  <2>1. ASSUME FloatFits, type = "float", Premises, room < 0
        PROVE  PrintFloat!BeyondContract(PrintFloat!Pieces(arg))
    <3>1. InItsContract => room \in Nat
      BY <2>1, Zenon DEF FloatFits
    <3>2. ~(room \in Nat)
      BY <2>1
    <3>. QED BY <3>1, <3>2, Zenon DEF InItsContract
  <2>2. ASSUME FloatFits, type = "float", Premises, PrintFloat!BeyondContract(todo)
        PROVE  PrintFloat!LargeGroup
    BY <2>2, GroupsDecide, Zenon DEF FloatFits
  <2>. QED BY <2>1, <2>2, Zenon DEF FloatWindowSafe, PrintFloat!WindowSafe, Premises
<1>. QED BY FitsAtFirst, FitsKept, <1>1, PTL DEF Spec
=============================================================================
