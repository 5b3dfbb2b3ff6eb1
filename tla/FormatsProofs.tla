--------------------------- MODULE FormatsProofs ----------------------------
(***************************************************************************)
(* Formats, proved for every list of entries, assignment, document and     *)
(* submission.                                                             *)
(***************************************************************************)
EXTENDS Formats, FiniteSetTheorems, SequenceTheorems, WellFoundedInduction, TLAPS

----------------------------------------------------------------------------
(* Induction *)

(* A set of numbers that holds 0 and every successor holds them all: with  *)
(* the set of numbers that satisfy a formula, induction.                   *)
LEMMA AllNumbers ==
  ASSUME NEW B, 0 \in B, \A n \in Nat : n \in B => n + 1 \in B
  PROVE  Nat \subseteq B
<1> DEFINE Less == {ss \in Nat \X Nat : ss[1] < ss[2]}
           Rest == Nat \ B
<1> SUFFICES ASSUME Rest # {} PROVE FALSE
  OBVIOUS
<1>1. IsWellFoundedOn(Less, Nat)
  BY NatLessThanWellFounded DEF OpToRel
<1> HIDE DEF Less
<1>2. PICK n \in Rest : \A m \in Rest : <<m, n>> \notin Less
  <2> Rest \subseteq Nat
    OBVIOUS
  <2> QED
    BY <1>1, WFMin
<1>3. n \in Nat /\ n # 0 /\ n \notin B
  OBVIOUS
<1>4. n - 1 \in Nat /\ (n - 1) + 1 = n
  BY <1>3
<1>5. n - 1 \notin B
  BY <1>3, <1>4
<1>6. <<n - 1, n>> \in Less
  BY <1>3, <1>4 DEF Less
<1> QED
  BY <1>2, <1>4, <1>5, <1>6

(* A function on 1 .. m is a sequence of length m. *)
LEMMA Numbered ==
  ASSUME NEW S, NEW m \in Nat, NEW f \in [1 .. m -> S]
  PROVE  f \in Seq(S) /\ Len(f) = m
<1>1. f \in Seq(S)
  BY SeqDef, Zenon
<1>2. DOMAIN f = 1 .. m /\ DOMAIN f = 1 .. Len(f) /\ Len(f) \in Nat
  BY <1>1, LenProperties
<1> QED
  BY <1>1, <1>2

----------------------------------------------------------------------------
(* Recursion *)

(* The functions of the first numbers that start with b and go on by s. *)
Approximations(S, b, s, n) ==
    {f \in [0 .. n -> S] : f[0] = b /\ \A k \in 0 .. n - 1 : f[k + 1] = s[<<k, f[k]>>]}

(* b and s stay in S. *)
Steps(S, b, s) == b \in S /\ \A k \in Nat : \A x \in S : s[<<k, x>>] \in S

(* f starts with b and goes on by s. *)
Follows(f, S, b, s) ==
    f[0] = b /\ (\A k \in Nat : f[k] \in S) /\ \A k \in Nat : f[k + 1] = s[<<k, f[k]>>]

(* A start and a step make a function of the numbers. *)
LEMMA Recursion == ASSUME NEW S, NEW b, NEW s, Steps(S, b, s) PROVE \E f : Follows(f, S, b, s)
<1>0. b \in S /\ \A k \in Nat : \A x \in S : s[<<k, x>>] \in S
  BY DEF Steps
<1> DEFINE A(n) == Approximations(S, b, s, n)
           Some == {n \in Nat : A(n) # {}}
           Same == {k \in Nat : \A n, m \in Nat : k <= n /\ k <= m =>
                                   \A f \in A(n), g \in A(m) : f[k] = g[k]}
<1>1. 0 \in Some
  <2>1. [i \in 0 .. 0 |-> b] \in A(0)
    BY <1>0 DEF Approximations
  <2> QED
    BY <2>1
<1>2. ASSUME NEW n \in Nat, n \in Some PROVE n + 1 \in Some
  <2>1. PICK f \in A(n) : TRUE
    BY <1>2
  <2>2. f \in [0 .. n -> S] /\ f[0] = b /\ \A k \in 0 .. n - 1 : f[k + 1] = s[<<k, f[k]>>]
    BY <2>1 DEF Approximations
  <2> DEFINE g == [i \in 0 .. n + 1 |-> IF i <= n THEN f[i] ELSE s[<<n, f[n]>>]]
  <2>3. f[n] \in S /\ s[<<n, f[n]>>] \in S
    BY <1>0, <2>2
  <2>4. g \in [0 .. n + 1 -> S]
    BY <2>2, <2>3
  <2>5. g[0] = b
    BY <2>2
  <2>6. ASSUME NEW k \in 0 .. (n + 1) - 1 PROVE g[k + 1] = s[<<k, g[k]>>]
    <3>1. k \in 0 .. n /\ k + 1 \in 0 .. n + 1 /\ k \in 0 .. n + 1
      OBVIOUS
    <3>2. CASE k + 1 <= n
      <4>1. k \in 0 .. n - 1
        BY <3>1, <3>2
      <4> QED
        BY <2>2, <3>1, <3>2, <4>1
    <3>3. CASE ~(k + 1 <= n)
      <4>1. k = n
        BY <3>1, <3>3
      <4> QED
        BY <3>1, <3>3, <4>1
    <3> QED
      BY <3>2, <3>3
  <2> HIDE DEF g
  <2>7. g \in A(n + 1)
    BY <2>4, <2>5, <2>6 DEF Approximations
  <2> QED
    BY <2>7
<1>3. Nat \subseteq Some
  <2> HIDE DEF Some
  <2> QED
    BY <1>1, <1>2, AllNumbers
<1>4. 0 \in Same
  BY DEF Approximations
<1>5. ASSUME NEW k \in Nat, k \in Same PROVE k + 1 \in Same
  <2> SUFFICES ASSUME NEW n \in Nat, NEW m \in Nat, k + 1 <= n, k + 1 <= m,
                      NEW f \in A(n), NEW g \in A(m)
               PROVE  f[k + 1] = g[k + 1]
    OBVIOUS
  <2>1. f[k] = g[k]
    BY <1>5
  <2>2. k \in 0 .. n - 1 /\ k \in 0 .. m - 1
    OBVIOUS
  <2>3. f[k + 1] = s[<<k, f[k]>>] /\ g[k + 1] = s[<<k, g[k]>>]
    BY <2>2 DEF Approximations
  <2> QED
    BY <2>1, <2>3
<1>6. Nat \subseteq Same
  <2> HIDE DEF Same
  <2> QED
    BY <1>4, <1>5, AllNumbers
<1> DEFINE F(n) == CHOOSE f \in A(n) : TRUE
           h    == [k \in Nat |-> F(k)[k]]
<1>7. \A n \in Nat : F(n) \in A(n)
  BY <1>3
<1> HIDE DEF F
<1>8. \A k \in Nat : h[k] \in S
  BY <1>7 DEF Approximations
<1>9. h[0] = b
  BY <1>7 DEF Approximations
<1>10. ASSUME NEW k \in Nat PROVE h[k + 1] = s[<<k, h[k]>>]
  <2>1. F(k + 1) \in A(k + 1) /\ F(k) \in A(k) /\ k \in 0 .. (k + 1) - 1
    BY <1>7
  <2>2. F(k + 1)[k + 1] = s[<<k, F(k + 1)[k]>>]
    BY <2>1 DEF Approximations
  <2>3. F(k + 1)[k] = F(k)[k]
    <3>1. k \in Same
      BY <1>6
    <3> HIDE DEF A
    <3> QED
      BY <2>1, <3>1
  <2> QED
    BY <2>2, <2>3
<1> HIDE DEF h
<1>11. Follows(h, S, b, s)
  BY <1>8, <1>9, <1>10 DEF Follows
<1> QED
  BY <1>11

----------------------------------------------------------------------------
(* Flattening *)

(* off says after how many elements each part starts. *)
Offsets(N, len, off) ==
    /\ off[1] = 0
    /\ \A r \in 1 .. N + 1 : off[r] \in Nat
    /\ \A r \in 1 .. N : off[r + 1] = off[r] + len[r]

(* flat holds the parts one after the other. *)
Laid(S, N, ss, flat, off) ==
    /\ Offsets(N, [r \in 1 .. N |-> Len(ss[r])], off)
    /\ flat \in Seq(S) /\ Len(flat) = off[N + 1]
    /\ \A r \in 1 .. N : \A k \in 1 .. Len(ss[r]) : flat[off[r] + k] = ss[r][k]

(* The offsets add up the lengths. *)
LEMMA OffsetsExist ==
  ASSUME NEW N \in Nat, NEW len, \A r \in 1 .. N : len[r] \in Nat
  PROVE  \E off : Offsets(N, len, off)
<1> DEFINE step == [at \in Nat \X Nat |-> IF at[1] + 1 <= N THEN at[2] + len[at[1] + 1] ELSE at[2]]
<1>1. Steps(Nat, 0, step)
  BY DEF Steps
<1>2. PICK o : Follows(o, Nat, 0, step)
  <2> HIDE DEF step
  <2> QED
    BY <1>1, Recursion
<1>20. o[0] = 0 /\ (\A k \in Nat : o[k] \in Nat) /\ \A k \in Nat : o[k + 1] = step[<<k, o[k]>>]
  <2> HIDE DEF step
  <2> QED
    BY <1>2 DEF Follows
<1>3. \A k \in Nat : k + 1 <= N => o[k + 1] = o[k] + len[k + 1]
  BY <1>20
<1> HIDE DEF step
<1> DEFINE off == [r \in 1 .. N + 1 |-> o[r - 1]]
<1>4. off[1] = 0 /\ \A r \in 1 .. N + 1 : off[r] \in Nat
  BY <1>20
<1>5. ASSUME NEW r \in 1 .. N PROVE off[r + 1] = off[r] + len[r]
  <2>1. r - 1 \in Nat /\ (r - 1) + 1 = r /\ (r + 1) - 1 = r /\ r \in 1 .. N + 1 /\ r + 1 \in 1 .. N + 1
    OBVIOUS
  <2>2. o[r] = o[r - 1] + len[r]
    BY <1>3, <2>1
  <2> QED
    BY <2>1, <2>2
<1> HIDE DEF off
<1> QED
  BY <1>4, <1>5 DEF Offsets

(* A part ends before the next ones start. *)
LEMMA OffsetsGrow ==
  ASSUME NEW N \in Nat, NEW len, \A r \in 1 .. N : len[r] \in Nat, NEW off, Offsets(N, len, off)
  PROVE  /\ \A r \in 1 .. N + 1 : off[r] \in Nat
         /\ \A r \in 1 .. N : off[r + 1] = off[r] + len[r]
         /\ \A r, q \in 1 .. N + 1 : r <= q => off[r] <= off[q]
<1>1. /\ \A r \in 1 .. N + 1 : off[r] \in Nat
      /\ \A r \in 1 .. N : off[r + 1] = off[r] + len[r]
  BY DEF Offsets
<1> DEFINE C == {j \in Nat : \A r \in 1 .. N + 1 : r + j <= N + 1 => off[r] <= off[r + j]}
<1>2. 0 \in C
  BY <1>1
<1>3. ASSUME NEW j \in Nat, j \in C PROVE j + 1 \in C
  <2> SUFFICES ASSUME NEW r \in 1 .. N + 1, r + (j + 1) <= N + 1 PROVE off[r] <= off[r + (j + 1)]
    OBVIOUS
  <2>1. r + j \in 1 .. N /\ (r + j) + 1 = r + (j + 1) /\ r + j \in 1 .. N + 1 /\ r + (j + 1) \in 1 .. N + 1
    OBVIOUS
  <2>2. off[r + (j + 1)] = off[r + j] + len[r + j] /\ len[r + j] \in Nat
    BY <1>1, <2>1
  <2>3. off[r] <= off[r + j]
    BY <1>3, <2>1
  <2> QED
    BY <1>1, <2>1, <2>2, <2>3
<1> HIDE DEF C
<1>4. Nat \subseteq C
  BY <1>2, <1>3, AllNumbers
<1>5. ASSUME NEW r \in 1 .. N + 1, NEW q \in 1 .. N + 1, r <= q PROVE off[r] <= off[q]
  <2>1. q - r \in Nat /\ r + (q - r) = q
    BY <1>5
  <2> QED
    BY <1>4, <2>1 DEF C
<1> QED
  BY <1>1, <1>5

(* Every place is one element of one part. *)
LEMMA OffsetsReach ==
  ASSUME NEW N \in Nat, NEW len, \A r \in 1 .. N : len[r] \in Nat, NEW off, Offsets(N, len, off)
  PROVE  \A m \in 1 .. off[N + 1] : \E r \in 1 .. N : \E k \in 1 .. len[r] : m = off[r] + k
<1>1. /\ \A r \in 1 .. N + 1 : off[r] \in Nat
      /\ \A r \in 1 .. N : off[r + 1] = off[r] + len[r]
      /\ off[1] = 0
  BY DEF Offsets
<1> DEFINE Found(m, n) == \E r \in 1 .. n : \E k \in 1 .. len[r] : m = off[r] + k
           C == {n \in Nat : n <= N => \A m \in 1 .. off[n + 1] : Found(m, n)}
<1>2. 0 \in C
  <2>1. 0 + 1 = 1
    OBVIOUS
  <2> QED
    BY <1>1, <2>1
<1>3. ASSUME NEW n \in Nat, n \in C PROVE n + 1 \in C
  <2> SUFFICES ASSUME n + 1 <= N, NEW m \in 1 .. off[(n + 1) + 1] PROVE Found(m, n + 1)
    OBVIOUS
  <2>1. n + 1 \in 1 .. N /\ n + 1 \in 1 .. N + 1 /\ (n + 1) + 1 \in 1 .. N + 1
    OBVIOUS
  <2>2. off[(n + 1) + 1] = off[n + 1] + len[n + 1] /\ len[n + 1] \in Nat /\ off[n + 1] \in Nat
    BY <1>1, <2>1
  <2>3. CASE m <= off[n + 1]
    <3>1. m \in 1 .. off[n + 1]
      BY <2>2, <2>3
    <3>2. PICK r \in 1 .. n : \E k \in 1 .. len[r] : m = off[r] + k
      BY <1>3, <3>1
    <3> QED
      BY <3>2
  <2>4. CASE ~(m <= off[n + 1])
    <3>1. m - off[n + 1] \in 1 .. len[n + 1] /\ m = off[n + 1] + (m - off[n + 1])
      BY <2>2, <2>4
    <3>2. n + 1 \in 1 .. n + 1
      OBVIOUS
    <3> QED
      BY <3>1, <3>2
  <2> QED
    BY <2>3, <2>4
<1> HIDE DEF C
<1>4. Nat \subseteq C
  BY <1>2, <1>3, AllNumbers
<1> QED
  BY <1>4 DEF C

(* ss is N sequences over S. *)
Parts(S, N, ss) == ss \in [1 .. N -> Seq(S)]

(* g[i] is the first i parts appended. *)
Appended(g, N, ss) == g[1] = ss[1] /\ \A i \in 2 .. N : g[i] = g[i - 1] \o ss[i]

(* FlattenSeq appends part after part. *)
LEMMA FlattenSteps ==
  ASSUME NEW S, NEW N \in Nat, NEW ss, N > 0 /\ Parts(S, N, ss) /\ ss \in Seq(Seq(S)) /\ Len(ss) = N
  PROVE  \E g : Appended(g, N, ss) /\ FlattenSeq(ss) = g[N]
<1> DEFINE step == [at \in Nat \X Seq(S) |->
                       IF at[1] + 2 <= N THEN at[2] \o ss[at[1] + 2] ELSE at[2]]
<1>1. \A k \in Nat : \A x \in Seq(S) : step[<<k, x>>] = IF k + 2 <= N THEN x \o ss[k + 2] ELSE x
  OBVIOUS
<1> HIDE DEF step
<1>2. ss[1] \in Seq(S)
  BY DEF Parts
<1>3. ASSUME NEW k \in Nat, NEW x \in Seq(S) PROVE step[<<k, x>>] \in Seq(S)
  <2>1. CASE k + 2 <= N
    <3>1. ss[k + 2] \in Seq(S)
      BY <2>1 DEF Parts
    <3>2. x \o ss[k + 2] \in Seq(S)
      BY <3>1, ConcatProperties
    <3> QED
      BY <1>1, <2>1, <3>2
  <2>2. CASE ~(k + 2 <= N)
    BY <1>1, <2>2
  <2> QED
    BY <2>1, <2>2
<1>4. Steps(Seq(S), ss[1], step)
  BY <1>2, <1>3, Zenon DEF Steps
<1>5. PICK f : Follows(f, Seq(S), ss[1], step)
  BY <1>4, Recursion
<1>6. f[0] = ss[1] /\ \A k \in Nat : k + 2 <= N => f[k + 1] = f[k] \o ss[k + 2]
  <2>1. f[0] = ss[1] /\ \A k \in Nat : f[k] \in Seq(S) /\ f[k + 1] = step[<<k, f[k]>>]
    BY <1>5, Zenon DEF Follows
  <2> QED
    BY <1>1, <2>1
<1> DEFINE h == [i \in 1 .. Len(ss) |-> f[i - 1]]
           Right(g) == g = [i \in 1 .. Len(ss) |-> IF i = 1 THEN ss[i] ELSE g[i - 1] \o ss[i]]
<1>7. ASSUME NEW i \in 1 .. N PROVE f[i - 1] = IF i = 1 THEN ss[i] ELSE h[i - 1] \o ss[i]
  <2>1. CASE i = 1
    BY <1>6, <2>1
  <2>2. CASE i # 1
    <3>1. i - 2 \in Nat /\ (i - 2) + 2 = i /\ (i - 2) + 1 = i - 1 /\ i - 1 \in 1 .. N
          /\ (i - 1) - 1 = i - 2 /\ (i - 2) + 2 <= N
      BY <2>2
    <3>2. f[(i - 2) + 1] = f[i - 2] \o ss[(i - 2) + 2]
      BY <1>6, <3>1
    <3>3. h[i - 1] = f[i - 2]
      BY <3>1
    <3> QED
      BY <2>2, <3>1, <3>2, <3>3
  <2> QED
    BY <2>1, <2>2
<1>8. Right(h)
  BY <1>7
<1>9. PICK g : Right(g) /\ FlattenSeq(ss) = g[N]
  <2>1. FlattenSeq(ss) = (CHOOSE g : Right(g))[N]
    BY DEF FlattenSeq
  <2>2. Right(CHOOSE g : Right(g))
    <3> HIDE DEF Right, h
    <3> QED
      BY <1>8, Zenon
  <2> QED
    BY <2>1, <2>2, Zenon
<1>10. \A i \in 1 .. Len(ss) : g[i] = IF i = 1 THEN ss[i] ELSE g[i - 1] \o ss[i]
  <2>1. g = [i \in 1 .. Len(ss) |-> IF i = 1 THEN ss[i] ELSE g[i - 1] \o ss[i]]
    BY <1>9
  <2> QED
    BY <2>1, Zenon
<1>11. Appended(g, N, ss)
  <2>1. g[1] = ss[1]
    BY <1>10
  <2>2. \A i \in 2 .. N : i \in 1 .. Len(ss) /\ i # 1
    OBVIOUS
  <2> QED
    BY <1>10, <2>1, <2>2 DEF Appended
<1> QED
  BY <1>9, <1>11

(* One more part. *)
LEMMA LaidOn ==
  ASSUME NEW S, NEW m \in Nat, NEW ss, NEW off, NEW flat,
         Laid(S, m, ss, flat, off), NEW part, part \in Seq(S), ss[m + 1] = part,
         \A r \in 1 .. m : Len(ss[r]) \in Nat,
         NEW end, end = off[(m + 1) + 1], end = off[m + 1] + Len(part)
  PROVE  Laid(S, m + 1, ss, flat \o part, off)
<1>1. PICK l \in Nat : l = Len(part)
  BY LenProperties
<1>2. PICK x \in Nat : x = off[m + 1] /\ x = Len(flat)
  BY LenProperties DEF Laid
<1>3. flat \in Seq(S)
  BY DEF Laid
<1>4. /\ flat \o part \in Seq(S) /\ Len(flat \o part) = x + l
      /\ \A k \in 1 .. x + l : (flat \o part)[k] = IF k <= x THEN flat[k] ELSE part[k - x]
  BY <1>1, <1>2, <1>3, ConcatProperties
<1>5. /\ off[1] = 0
      /\ \A r \in 1 .. m + 1 : off[r] \in Nat
      /\ \A r \in 1 .. m : off[r + 1] = off[r] + Len(ss[r])
  BY DEF Laid, Offsets
<1>6. Offsets(m + 1, [r \in 1 .. m + 1 |-> Len(ss[r])], off)
  <2>1. \A r \in 1 .. (m + 1) + 1 : r \in 1 .. m + 1 \/ r = (m + 1) + 1
    OBVIOUS
  <2>2. end \in Nat /\ end = x + l
    BY <1>1, <1>2
  <2>3. \A r \in 1 .. m + 1 : r \in 1 .. m \/ r = m + 1
    OBVIOUS
  <2>4. off[(m + 1) + 1] = off[m + 1] + Len(ss[m + 1])
    OBVIOUS
  <2>5. \A r \in 1 .. m + 1 : off[r + 1] = off[r] + Len(ss[r])
    BY <1>5, <2>3, <2>4
  <2>6. \A r \in 1 .. (m + 1) + 1 : off[r] \in Nat
    BY <1>5, <2>1, <2>2
  <2> QED
    BY <1>5, <2>5, <2>6 DEF Offsets
<1>7. ASSUME NEW r \in 1 .. m + 1, NEW k \in 1 .. Len(ss[r])
      PROVE  (flat \o part)[off[r] + k] = ss[r][k]
  <2>1. CASE r = m + 1
    <3>1. off[r] = x /\ k \in 1 .. l /\ ss[r] = part
      BY <1>1, <1>2, <2>1
    <3>2. x + k \in 1 .. x + l /\ ~(x + k <= x) /\ (x + k) - x = k
      BY <3>1
    <3> QED
      BY <1>4, <3>1, <3>2
  <2>2. CASE r # m + 1
    <3>1. r \in 1 .. m
      BY <2>2
    <3>2. flat[off[r] + k] = ss[r][k]
      BY <3>1 DEF Laid
    <3>3. off[r] + k \in 1 .. x
      <4> DEFINE lens == [q \in 1 .. m |-> Len(ss[q])]
      <4>1. Offsets(m, lens, off)
        BY DEF Laid
      <4>2. \A q \in 1 .. m : lens[q] \in Nat
        OBVIOUS
      <4>3. off[r + 1] <= off[m + 1] /\ off[r + 1] = off[r] + lens[r] /\ off[r] \in Nat
        <5> HIDE DEF lens
        <5>1. r + 1 \in 1 .. m + 1 /\ m + 1 \in 1 .. m + 1 /\ r + 1 <= m + 1 /\ r \in 1 .. m + 1
          BY <3>1
        <5>2. /\ \A p \in 1 .. m + 1 : off[p] \in Nat
              /\ \A p \in 1 .. m : off[p + 1] = off[p] + lens[p]
              /\ \A p, q \in 1 .. m + 1 : p <= q => off[p] <= off[q]
          BY <4>1, <4>2, OffsetsGrow, Zenon
        <5> QED
          BY <3>1, <5>1, <5>2
      <4>4. PICK i \in Nat, j \in Nat : i = off[r] /\ j = Len(ss[r])
        BY <3>1, <4>2, <4>3
      <4>5. PICK kk \in Nat : kk = k /\ 1 <= kk /\ kk <= j
        BY <4>4
      <4>6. i + j <= x
        BY <1>2, <3>1, <4>3, <4>4
      <4>7. i + kk \in 1 .. x
        BY <4>5, <4>6
      <4> QED
        BY <4>4, <4>5, <4>7
    <3>4. off[r] + k \in 1 .. x + l /\ off[r] + k <= x
      BY <3>3
    <3> QED
      BY <1>4, <3>2, <3>4
  <2> QED
    BY <2>1, <2>2
<1> QED
  BY <1>1, <1>2, <1>4, <1>6, <1>7 DEF Laid

(* FlattenSeq lays the parts. *)
LEMMA Flattened ==
  ASSUME NEW S, NEW N \in Nat, NEW ss, Parts(S, N, ss)
  PROVE  \E off : Laid(S, N, ss, FlattenSeq(ss), off)
<1> DEFINE len == [r \in 1 .. N |-> Len(ss[r])]
<1>1. ss \in Seq(Seq(S)) /\ Len(ss) = N
  BY Numbered, Zenon DEF Parts
<1>2. \A r \in 1 .. N : len[r] = Len(ss[r]) /\ ss[r] \in Seq(S) /\ len[r] \in Nat
  BY LenProperties DEF Parts
<1>3. PICK off : Offsets(N, len, off)
  <2> HIDE DEF len
  <2> QED
    BY <1>2, OffsetsExist
<1>4. off[1] = 0 /\ (\A r \in 1 .. N : off[r + 1] = off[r] + len[r])
      /\ \A r \in 1 .. N + 1 : off[r] \in Nat
  BY <1>3 DEF Offsets
<1>5. CASE N = 0
  <2>1. FlattenSeq(ss) = ss /\ ss = <<>>
    BY <1>1, <1>5, EmptySeq DEF FlattenSeq
  <2>2. <<>> \in Seq(S) /\ Len(<<>>) = 0 /\ off[N + 1] = 0
    BY <1>4, <1>5
  <2>3. \A r \in 1 .. N : FALSE
    BY <1>5
  <2>4. Laid(S, N, ss, <<>>, off)
    BY <1>3, <2>2, <2>3 DEF Laid
  <2> QED
    BY <2>1, <2>4
<1>6. CASE N > 0
  <2>1. PICK g : Appended(g, N, ss) /\ FlattenSeq(ss) = g[N]
    BY <1>1, <1>6, FlattenSteps
  <2> DEFINE B == {n \in Nat : n + 1 <= N => Laid(S, n + 1, ss, g[n + 1], off)}
  <2>2. 0 \in B
    <3>1. /\ g[1] = ss[1] /\ 1 \in 1 .. N /\ 1 + 1 \in 1 .. N + 1
          /\ off[1 + 1] = off[1] + len[1] /\ ss[1] \in Seq(S) /\ len[1] = Len(ss[1]) /\ len[1] \in Nat
      BY <1>2, <1>4, <1>6, <2>1 DEF Appended
    <3>2. PICK l \in Nat : l = Len(ss[1])
      BY <3>1
    <3>3. off[1 + 1] = l
      BY <1>4, <3>1, <3>2
    <3>4. \A r \in 1 .. 1 : r = 1
      OBVIOUS
    <3>5. \A r \in 1 .. 1 + 1 : r = 1 \/ r = 1 + 1
      OBVIOUS
    <3>6. \A k \in 1 .. l : 0 + k = k
      OBVIOUS
    <3> HIDE DEF len
    <3>7. Offsets(1, [r \in 1 .. 1 |-> Len(ss[r])], off)
      BY <1>4, <3>2, <3>3, <3>4, <3>5 DEF Offsets
    <3>8. \A r \in 1 .. 1 : \A k \in 1 .. Len(ss[r]) : g[1][off[r] + k] = ss[r][k]
      BY <1>4, <3>1, <3>2, <3>4, <3>6
    <3>9. Laid(S, 1, ss, g[1], off)
      BY <3>1, <3>2, <3>3, <3>7, <3>8 DEF Laid
    <3> QED
      BY <3>9
  <2>3. ASSUME NEW n \in Nat, n \in B PROVE n + 1 \in B
    <3> SUFFICES ASSUME (n + 1) + 1 <= N PROVE Laid(S, (n + 1) + 1, ss, g[(n + 1) + 1], off)
      OBVIOUS
    <3>1. PICK m \in Nat : m = n + 1 /\ m + 1 <= N /\ m <= N
      OBVIOUS
    <3>2. Laid(S, m, ss, g[m], off)
      BY <2>3, <3>1
    <3>3. m + 1 \in 2 .. N /\ (m + 1) - 1 = m /\ m + 1 \in 1 .. N
      BY <3>1
    <3>4. g[m + 1] = g[m] \o ss[m + 1]
      BY <2>1, <3>3, Zenon DEF Appended
    <3>5. ss[m + 1] \in Seq(S) /\ off[(m + 1) + 1] = off[m + 1] + Len(ss[m + 1])
      BY <1>2, <1>4, <3>3
    <3>6. \A r \in 1 .. m : Len(ss[r]) \in Nat
      BY <1>2, <3>1
    <3>7. Laid(S, m + 1, ss, g[m] \o ss[m + 1], off)
      BY <3>2, <3>5, <3>6, LaidOn
    <3> QED
      BY <3>1, <3>4, <3>7
  <2> HIDE DEF B
  <2>4. Nat \subseteq B
    BY <2>2, <2>3, AllNumbers
  <2>5. Laid(S, N, ss, g[N], off)
    <3>1. N - 1 \in Nat /\ (N - 1) + 1 = N
      BY <1>6
    <3> QED
      BY <2>4, <3>1 DEF B
  <2> QED
    BY <2>1, <2>5
<1> QED
  BY <1>5, <1>6

----------------------------------------------------------------------------
(* Powers of two *)

(* Every set of numbers that is not empty has a least one. *)
LEMMA Least == ASSUME NEW E, E \subseteq Nat, NEW x \in E PROVE \E k \in E : \A j \in E : k <= j
<1> SUFFICES ASSUME \A k \in E : \E j \in E : j < k PROVE FALSE
  <2> SUFFICES ASSUME ~ \E k \in E : \A j \in E : k <= j PROVE \A k \in E : \E j \in E : j < k
    OBVIOUS
  <2> QED
    OBVIOUS
<1> DEFINE B == {n \in Nat : \A k \in E : k > n}
<1>1. 0 \in B
  OBVIOUS
<1>2. ASSUME NEW n \in Nat, n \in B PROVE n + 1 \in B
  <2> SUFFICES ASSUME NEW k \in E PROVE k > n + 1
    OBVIOUS
  <2>1. PICK j \in E : j < k
    OBVIOUS
  <2>2. j > n
    BY <1>2
  <2> QED
    BY <2>1, <2>2
<1> HIDE DEF B
<1>3. Nat \subseteq B
  BY <1>1, <1>2, AllNumbers
<1>4. x \in Nat /\ x \in B
  BY <1>3
<1> QED
  BY <1>4 DEF B

(* Doubled starts at one and doubles. *)
LEMMA Doubling ==
  Doubled[0] = 1 /\ \A k \in Nat : Doubled[k] \in Nat /\ Doubled[k + 1] = 2 * Doubled[k]
<1> DEFINE step == [at \in Nat \X Nat |-> 2 * at[2]]
           Right(g) == g = [k \in Nat |-> IF k = 0 THEN 1 ELSE 2 * g[k - 1]]
<1>1. Steps(Nat, 1, step)
  BY DEF Steps
<1>2. PICK f : Follows(f, Nat, 1, step)
  <2> HIDE DEF step
  <2> QED
    BY <1>1, Recursion
<1>3. f[0] = 1 /\ (\A k \in Nat : f[k] \in Nat) /\ \A k \in Nat : f[k + 1] = 2 * f[k]
  BY <1>2 DEF Follows
<1> HIDE DEF step
<1> DEFINE h == [k \in Nat |-> f[k]]
<1>4. Right(h)
  <2>1. ASSUME NEW k \in Nat PROVE f[k] = IF k = 0 THEN 1 ELSE 2 * h[k - 1]
    <3>1. CASE k = 0
      BY <1>3, <3>1
    <3>2. CASE k # 0
      <4>1. k - 1 \in Nat /\ (k - 1) + 1 = k
        BY <3>2
      <4> QED
        BY <1>3, <3>2, <4>1
    <3> QED
      BY <3>1, <3>2
  <2> QED
    BY <2>1
<1>5. Right(Doubled)
  <2>1. Right(CHOOSE g : Right(g))
    <3> HIDE DEF Right, h
    <3> QED
      BY <1>4, Zenon
  <2> QED
    BY <2>1 DEF Doubled
<1>6. \A k \in Nat : Doubled[k] = IF k = 0 THEN 1 ELSE 2 * Doubled[k - 1]
  BY <1>5, Zenon
<1>7. Doubled[0] = 1 /\ \A k \in Nat : Doubled[k + 1] = 2 * Doubled[k]
  <2>1. Doubled[0] = 1
    BY <1>6
  <2>2. ASSUME NEW k \in Nat PROVE Doubled[k + 1] = 2 * Doubled[k]
    <3>1. k + 1 \in Nat /\ k + 1 # 0 /\ (k + 1) - 1 = k
      OBVIOUS
    <3> QED
      BY <1>6, <3>1
  <2> QED
    BY <2>1, <2>2
<1> DEFINE B == {k \in Nat : Doubled[k] \in Nat}
<1>8. 0 \in B
  BY <1>7
<1>9. ASSUME NEW k \in Nat, k \in B PROVE k + 1 \in B
  BY <1>7, <1>9
<1> HIDE DEF B
<1>10. Nat \subseteq B
  BY <1>8, <1>9, AllNumbers
<1> QED
  BY <1>7, <1>10 DEF B

(* It outgrows the numbers and grows with every step. *)
LEMMA DoublingGrows ==
  /\ \A k \in Nat : Doubled[k] > k
  /\ \A j, k \in Nat : j < k => 2 * Doubled[j] <= Doubled[k]
<1> DEFINE B == {k \in Nat : Doubled[k] > k}
           C == {d \in Nat : \A j \in Nat : 2 * Doubled[j] <= Doubled[(j + d) + 1]}
<1>1. 0 \in B
  BY Doubling
<1>2. ASSUME NEW k \in Nat, k \in B PROVE k + 1 \in B
  BY <1>2, Doubling
<1>3. 0 \in C
  BY Doubling
<1>4. ASSUME NEW d \in Nat, d \in C PROVE d + 1 \in C
  <2> SUFFICES ASSUME NEW j \in Nat PROVE 2 * Doubled[j] <= Doubled[(j + (d + 1)) + 1]
    OBVIOUS
  <2>1. (j + d) + 1 \in Nat /\ (j + (d + 1)) + 1 = ((j + d) + 1) + 1
    OBVIOUS
  <2>2. Doubled[((j + d) + 1) + 1] = 2 * Doubled[(j + d) + 1] /\ Doubled[(j + d) + 1] \in Nat
        /\ Doubled[j] \in Nat
    BY <2>1, Doubling
  <2>3. 2 * Doubled[j] <= Doubled[(j + d) + 1]
    BY <1>4
  <2> QED
    BY <2>1, <2>2, <2>3
<1> HIDE DEF B, C
<1>5. Nat \subseteq B /\ Nat \subseteq C
  BY <1>1, <1>2, <1>3, <1>4, AllNumbers
<1>6. ASSUME NEW j \in Nat, NEW k \in Nat, j < k PROVE 2 * Doubled[j] <= Doubled[k]
  <2>1. (k - j) - 1 \in Nat /\ (j + ((k - j) - 1)) + 1 = k
    BY <1>6
  <2>2. \A d \in Nat : 2 * Doubled[j] <= Doubled[(j + d) + 1]
    BY <1>5 DEF C
  <2> QED
    BY <2>1, <2>2
<1> QED
  BY <1>5, <1>6 DEF B

(* nextPowerOfTwo is a power of two that is large enough, and the least such. *)
LEMMA NextPower ==
  ASSUME NEW n \in Nat
  PROVE  \E k \in Nat : nextPowerOfTwo(n) = Doubled[k] /\ Doubled[k] >= n
                         /\ \A j \in Nat : Doubled[j] >= n => Doubled[k] <= Doubled[j]
<1> DEFINE E == {k \in 0 .. n : Doubled[k] >= n}
           Good(p) == p \in Powers(n) /\ p >= n /\ \A q \in Powers(n) : q >= n => p <= q
<1>1. n \in E
  BY Doubling, DoublingGrows
<1>2. PICK k \in E : \A j \in E : k <= j
  <2>1. E \subseteq Nat
    OBVIOUS
  <2> HIDE DEF E
  <2> QED
    BY <1>1, <2>1, Least
<1>3. Good(Doubled[k])
  <2>1. Doubled[k] \in Powers(n) /\ Doubled[k] >= n
    BY <1>2 DEF Powers
  <2>2. ASSUME NEW q \in Powers(n), q >= n PROVE Doubled[k] <= q
    <3>1. PICK j \in 0 .. n : q = Doubled[j]
      BY DEF Powers
    <3>2. j \in Nat /\ k \in Nat /\ k <= j
      BY <1>2, <2>2, <3>1
    <3>3. Doubled[j] \in Nat /\ Doubled[k] \in Nat
      BY <3>2, Doubling
    <3> QED
      BY <3>1, <3>2, <3>3, DoublingGrows
  <2> QED
    BY <2>1, <2>2
<1>4. Good(nextPowerOfTwo(n))
  <2>1. Good(CHOOSE p : Good(p))
    <3> HIDE DEF Good
    <3> QED
      BY <1>3, Zenon
  <2> QED
    BY <2>1, Zenon DEF nextPowerOfTwo
<1>5. PICK j \in 0 .. n : nextPowerOfTwo(n) = Doubled[j]
  BY <1>4 DEF Powers
<1>6. ASSUME NEW i \in Nat, Doubled[i] >= n PROVE Doubled[j] <= Doubled[i]
  <2>1. CASE i <= n
    <3>1. Doubled[i] \in Powers(n)
      BY <2>1 DEF Powers
    <3> QED
      BY <1>4, <1>5, <1>6, <3>1, Zenon
  <2>2. CASE ~(i <= n)
    <3>1. j \in Nat /\ j < i
      BY <2>2
    <3>2. Doubled[j] \in Nat /\ Doubled[i] \in Nat /\ 2 * Doubled[j] <= Doubled[i]
      BY <3>1, Doubling, DoublingGrows
    <3> QED
      BY <3>2
  <2> QED
    BY <2>1, <2>2
<1>7. j \in Nat
  OBVIOUS
<1> QED
  BY <1>4, <1>5, <1>6, <1>7, Zenon

(* log2 undoes the doubling. *)
LEMMA LogOfPower == ASSUME NEW k \in Nat PROVE log2(Doubled[k]) = k
<1> DEFINE Good(r) == r \in 0 .. Doubled[k] /\ Doubled[r] <= Doubled[k] /\ Doubled[k] < Doubled[r + 1]
<1>1. Good(k)
  BY Doubling, DoublingGrows
<1>2. ASSUME NEW r, Good(r) PROVE r = k
  <2>1. r \in Nat /\ r + 1 \in Nat /\ Doubled[r] \in Nat /\ Doubled[k] \in Nat /\ Doubled[r + 1] \in Nat
    BY <1>2, Doubling
  <2>2. CASE r < k
    <3>1. Doubled[r + 1] = 2 * Doubled[r] /\ 2 * Doubled[r] <= Doubled[k]
      BY <2>1, <2>2, Doubling, DoublingGrows
    <3> QED
      BY <1>2, <2>1, <3>1
  <2>3. CASE k < r
    <3>1. 2 * Doubled[k] <= Doubled[r] /\ Doubled[k] > k
      BY <2>1, <2>3, DoublingGrows
    <3> QED
      BY <1>2, <2>1, <3>1
  <2> QED
    BY <2>1, <2>2, <2>3
<1>3. Good(log2(Doubled[k]))
  <2>1. Good(CHOOSE r : Good(r))
    <3> HIDE DEF Good
    <3> QED
      BY <1>1, Zenon
  <2> QED
    BY <2>1, Zenon DEF log2
<1> QED
  BY <1>2, <1>3

----------------------------------------------------------------------------
(* The rounds of a bracket *)

(* The matches of a round are halved until one is left, and each round     *)
(* starts where the one before ends.                                       *)
LEMMA Halving ==
  ASSUME NEW n \in Nat
  PROVE  /\ RoundCount(n)[1] = n /\ RoundStart(n)[1] = 1
         /\ \A r \in Nat \ {0} : /\ RoundCount(n)[r + 1] = RoundCount(n)[r] \div 2
                                 /\ RoundCount(n)[r] \in Nat
                                 /\ RoundStart(n)[r + 1] = RoundStart(n)[r] + RoundCount(n)[r]
<1> DEFINE step == [at \in Nat \X Nat |-> IF at[1] = 0 THEN n ELSE at[2] \div 2]
           Count(g) == g = [r \in Nat |-> IF r <= 1 THEN n ELSE g[r - 1] \div 2]
           Start(g) == g = [r \in Nat |-> IF r <= 1 THEN 1 ELSE g[r - 1] + RoundCount(n)[r - 1]]
<1>1. Steps(Nat, n, step)
  BY DEF Steps
<1>2. PICK f : Follows(f, Nat, n, step)
  <2> HIDE DEF step
  <2> QED
    BY <1>1, Recursion
<1>3. f[0] = n /\ (\A k \in Nat : f[k] \in Nat)
      /\ \A k \in Nat : f[k + 1] = IF k = 0 THEN n ELSE f[k] \div 2
  BY <1>2 DEF Follows
<1> HIDE DEF step
<1> DEFINE h == [r \in Nat |-> f[r]]
<1>4. Count(h)
  <2>1. ASSUME NEW r \in Nat PROVE f[r] = IF r <= 1 THEN n ELSE h[r - 1] \div 2
    <3>1. CASE r = 0
      BY <1>3, <3>1
    <3>2. CASE r # 0
      <4>1. r - 1 \in Nat /\ (r - 1) + 1 = r /\ (r - 1 = 0 <=> r <= 1)
        BY <3>2
      <4>2. h[r - 1] = f[r - 1]
        BY <4>1
      <4>3. f[(r - 1) + 1] = IF r - 1 = 0 THEN n ELSE f[r - 1] \div 2
        BY <1>3, <4>1
      <4> QED
        BY <4>1, <4>2, <4>3
    <3> QED
      BY <3>1, <3>2
  <2> QED
    BY <2>1
<1>5. Count(RoundCount(n))
  <2>1. Count(CHOOSE g : Count(g))
    <3> HIDE DEF Count, h
    <3> QED
      BY <1>4, Zenon
  <2> QED
    BY <2>1, Zenon DEF RoundCount
<1> DEFINE c == RoundCount(n)
<1>6. \A r \in Nat : c[r] = IF r <= 1 THEN n ELSE c[r - 1] \div 2
  BY <1>5, Zenon
<1> HIDE DEF c
<1>7. c[1] = n /\ \A r \in Nat \ {0} : c[r + 1] = c[r] \div 2
  <2>1. ASSUME NEW r \in Nat \ {0} PROVE c[r + 1] = c[r] \div 2
    <3>1. r + 1 \in Nat /\ ~(r + 1 <= 1) /\ (r + 1) - 1 = r
      OBVIOUS
    <3> QED
      BY <1>6, <3>1
  <2> QED
    BY <1>6, <2>1
<1> DEFINE B == {r \in Nat : c[r + 1] \in Nat}
<1>8. 0 \in B
  BY <1>7
<1>9. ASSUME NEW r \in Nat, r \in B PROVE r + 1 \in B
  <2>1. PICK x \in Nat : x = c[r + 1]
    BY <1>9
  <2>2. c[(r + 1) + 1] = x \div 2
    BY <1>7, <2>1
  <2>3. x \div 2 \in Nat
    OBVIOUS
  <2> QED
    BY <2>2, <2>3
<1>10. Nat \subseteq B
  <2> HIDE DEF B
  <2> QED
    BY <1>8, <1>9, AllNumbers
<1>11. ASSUME NEW r \in Nat \ {0} PROVE c[r] \in Nat
  <2>1. r - 1 \in Nat /\ (r - 1) + 1 = r
    OBVIOUS
  <2> QED
    BY <1>10, <2>1
<1> DEFINE tally == [at \in Nat \X Nat |-> IF at[1] = 0 THEN 1 ELSE at[2] + c[at[1]]]
<1>12. Steps(Nat, 1, tally)
  BY <1>11 DEF Steps
<1>13. PICK s : Follows(s, Nat, 1, tally)
  <2> HIDE DEF tally
  <2> QED
    BY <1>12, Recursion
<1>14. s[0] = 1 /\ (\A k \in Nat : s[k] \in Nat)
       /\ \A k \in Nat : s[k + 1] = IF k = 0 THEN 1 ELSE s[k] + c[k]
  BY <1>13 DEF Follows
<1> HIDE DEF tally
<1> DEFINE t == [r \in Nat |-> s[r]]
<1>15. Start(t)
  <2>1. ASSUME NEW r \in Nat PROVE s[r] = IF r <= 1 THEN 1 ELSE t[r - 1] + c[r - 1]
    <3>1. CASE r = 0
      BY <1>14, <3>1
    <3>2. CASE r # 0
      <4>1. r - 1 \in Nat /\ (r - 1) + 1 = r /\ (r - 1 = 0 <=> r <= 1)
        BY <3>2
      <4>2. t[r - 1] = s[r - 1]
        BY <4>1
      <4>3. s[(r - 1) + 1] = IF r - 1 = 0 THEN 1 ELSE s[r - 1] + c[r - 1]
        BY <1>14, <4>1
      <4> QED
        BY <4>1, <4>2, <4>3
    <3> QED
      BY <3>1, <3>2
  <2> QED
    BY <2>1 DEF c
<1>16. Start(RoundStart(n))
  <2>1. Start(CHOOSE g : Start(g))
    <3> HIDE DEF Start, t
    <3> QED
      BY <1>15, Zenon
  <2> QED
    BY <2>1, Zenon DEF RoundStart
<1> DEFINE u == RoundStart(n)
<1>17. \A r \in Nat : u[r] = IF r <= 1 THEN 1 ELSE u[r - 1] + c[r - 1]
  BY <1>16, Zenon DEF c
<1> HIDE DEF u
<1>18. u[1] = 1 /\ \A r \in Nat \ {0} : u[r + 1] = u[r] + c[r]
  <2>1. ASSUME NEW r \in Nat \ {0} PROVE u[r + 1] = u[r] + c[r]
    <3>1. r + 1 \in Nat /\ ~(r + 1 <= 1) /\ (r + 1) - 1 = r
      OBVIOUS
    <3> QED
      BY <1>17, <3>1
  <2> QED
    BY <1>17, <2>1
<1> QED
  BY <1>7, <1>11, <1>18 DEF c, u

(* Above a first round of 2^p matches round r has 2^(p+1-r), and they      *)
(* start where twice that many are left.                                   *)
LEMMA RoundsOf ==
  ASSUME NEW p \in Nat
  PROVE  LET n == Doubled[p]
         IN  \A r \in 1 .. p + 1 :
                /\ RoundCount(n)[r] = Doubled[(p + 1) - r] /\ RoundCount(n)[r] \in Nat
                /\ RoundStart(n)[r] \in Nat
                /\ RoundStart(n)[r] + 2 * RoundCount(n)[r] = 2 * n + 1
                /\ r # p + 1 => RoundCount(n)[r] = 2 * RoundCount(n)[r + 1]
<1> DEFINE n == Doubled[p]
           c == RoundCount(n)
           u == RoundStart(n)
<1>1. n \in Nat
  BY Doubling
<1>2. /\ c[1] = n /\ u[1] = 1
      /\ \A r \in Nat \ {0} : /\ c[r + 1] = c[r] \div 2 /\ c[r] \in Nat /\ u[r + 1] = u[r] + c[r]
  BY <1>1, Halving
<1> HIDE DEF c, u
<1> DEFINE B == {j \in Nat : j <= p => /\ c[j + 1] = Doubled[p - j]
                                       /\ u[j + 1] \in Nat
                                       /\ u[j + 1] + 2 * c[j + 1] = 2 * n + 1}
<1>3. 0 \in B
  BY <1>1, <1>2
<1>4. ASSUME NEW j \in Nat, j \in B PROVE j + 1 \in B
  <2> SUFFICES ASSUME j + 1 <= p
               PROVE  /\ c[(j + 1) + 1] = Doubled[p - (j + 1)]
                      /\ u[(j + 1) + 1] \in Nat
                      /\ u[(j + 1) + 1] + 2 * c[(j + 1) + 1] = 2 * n + 1
    OBVIOUS
  <2>1. c[j + 1] = Doubled[p - j] /\ u[j + 1] \in Nat /\ u[j + 1] + 2 * c[j + 1] = 2 * n + 1
    BY <1>4
  <2>2. p - (j + 1) \in Nat /\ (p - (j + 1)) + 1 = p - j
    OBVIOUS
  <2>3. Doubled[p - j] = 2 * Doubled[p - (j + 1)] /\ Doubled[p - (j + 1)] \in Nat
    BY <2>2, Doubling
  <2>4. c[(j + 1) + 1] = c[j + 1] \div 2 /\ u[(j + 1) + 1] = u[j + 1] + c[j + 1]
    BY <1>2
  <2>5. PICK x \in Nat : x = Doubled[p - (j + 1)]
    BY <2>3
  <2>6. c[j + 1] = 2 * x /\ (2 * x) \div 2 = x
    BY <2>1, <2>3, <2>5
  <2> QED
    BY <1>1, <2>1, <2>4, <2>5, <2>6
<1> HIDE DEF B
<1>5. Nat \subseteq B
  BY <1>3, <1>4, AllNumbers
<1>6. ASSUME NEW r \in 1 .. p + 1
      PROVE  /\ c[r] = Doubled[(p + 1) - r] /\ c[r] \in Nat
             /\ u[r] \in Nat /\ u[r] + 2 * c[r] = 2 * n + 1
             /\ r # p + 1 => c[r] = 2 * c[r + 1]
  <2>1. r - 1 \in Nat /\ (r - 1) + 1 = r /\ r - 1 <= p /\ p - (r - 1) = (p + 1) - r
        /\ (p + 1) - r \in Nat
    OBVIOUS
  <2>2. c[r] = Doubled[(p + 1) - r] /\ u[r] \in Nat /\ u[r] + 2 * c[r] = 2 * n + 1
    BY <1>5, <2>1 DEF B
  <2>3. c[r] \in Nat
    BY <2>1, <2>2, Doubling
  <2>4. ASSUME r # p + 1 PROVE c[r] = 2 * c[r + 1]
    <3>1. r \in Nat /\ (r + 1) - 1 = r /\ r <= p /\ p - r = (p + 1) - (r + 1)
      BY <2>4
    <3>2. c[r + 1] = Doubled[p - r]
      BY <1>5, <3>1 DEF B
    <3>3. p - r \in Nat /\ (p - r) + 1 = (p + 1) - r
      BY <3>1
    <3> QED
      BY <2>2, <3>2, <3>3, Doubling
  <2> QED
    BY <2>2, <2>3, <2>4
<1> QED
  BY <1>6 DEF c, u

----------------------------------------------------------------------------
(* Brackets *)

(* The slots of a match are a pair of the first round or empty. *)
Halves(first) == {first[i] : i \in 1 .. Len(first)} \cup {<<Empty, Empty>>}

(* The matches of a bracket above a first round. *)
Drawn(first) == [round : Nat, pos : Nat, slots : Halves(first), next : Nat, nextSlot : Nat, group : Nat]

(* M is a bracket above the first round given. *)
Wired(M, first) ==
    LET n == Len(first)
        last == 2 * n - 1
    IN  /\ M \in Seq(Drawn(first)) /\ Len(M) = last
        /\ \A m \in 1 .. last : M[m].group = 0 /\ M[m].round >= 1
        /\ M[last].next = 0 /\ M[1].round = 1
        /\ \A m \in 1 .. n : M[m].slots = first[m]
        /\ \A m \in n + 1 .. last : M[m].slots = <<Empty, Empty>>
        /\ \A m \in 1 .. last - 1 : /\ M[m].next = n + 1 + (m - 1) \div 2
                                    /\ M[m].nextSlot = ((m - 1) % 2) + 1
                                    /\ M[M[m].next].round = M[m].round + 1

(* A first round of 2^p matches. *)
FirstRound(first, p) == Len(first) = Doubled[p]

(* The match in place k of round r of R, the next round starting at v. *)
MatchIn(e, r, R, k, v, first) ==
    /\ e.round = r /\ e.group = 0
    /\ e.slots = IF r = 1 THEN first[k] ELSE <<Empty, Empty>>
    /\ e.next = IF r = R THEN 0 ELSE v + ((k - 1) \div 2)
    /\ e.nextSlot = IF r = R THEN 0 ELSE ((k - 1) % 2) + 1

(* Round r has c matches and the next one starts at u. *)
Level(p, r, c, u) ==
    c = RoundCount(Doubled[p])[r] /\ u = IF r = p + 1 THEN 0 ELSE RoundStart(Doubled[p])[r + 1]

(* What wireFedRounds makes of one match. *)
LEMMA WiredMatch ==
  ASSUME NEW first, NEW p \in Nat, FirstRound(first, p),
         NEW r \in 1 .. p + 1,
         NEW c, NEW u, Level(p, r, c, u)
  PROVE  /\ WiredRound(first, p + 1, r) \in [1 .. c -> Drawn(first)]
         /\ \A k \in 1 .. c : MatchIn(WiredRound(first, p + 1, r)[k], r, p + 1, k, u, first)
<1> DEFINE w == WiredRound(first, p + 1, r)
           sl(k) == IF r = 1 THEN first[k] ELSE <<Empty, Empty>>
           e(k) == IF r = p + 1 THEN MatchOf(r, k - 1, sl(k), 0, 0)
                   ELSE MatchOf(r, k - 1, sl(k), u + ((k - 1) \div 2), ((k - 1) % 2) + 1)
<1>0. c = RoundCount(Doubled[p])[r] /\ u = IF r = p + 1 THEN 0 ELSE RoundStart(Doubled[p])[r + 1]
  BY DEF Level
<1>1. w = [k \in 1 .. c |-> e(k)]
  <2>1. Len(first) = Doubled[p]
    BY DEF FirstRound
  <2> QED
    BY <1>0, <2>1 DEF WiredRound, NextSlot
<1>2. c \in Nat /\ u \in Nat /\ (r = 1 => c = Doubled[p])
  <2>1. c \in Nat
    BY <1>0, RoundsOf
  <2>2. u \in Nat
    <3>1. CASE r = p + 1
      BY <1>0, <3>1
    <3>2. CASE r # p + 1
      <4>1. r + 1 \in 1 .. p + 1
        BY <3>2
      <4> QED
        BY <1>0, <3>2, <4>1, RoundsOf
    <3> QED
      BY <3>1, <3>2
  <2>3. ASSUME r = 1 PROVE c = Doubled[p]
    <3>1. (p + 1) - 1 = p
      OBVIOUS
    <3> QED
      BY <1>0, <2>3, <3>1, RoundsOf
  <2> QED
    BY <2>1, <2>2, <2>3
<1>3. ASSUME NEW k \in 1 .. c PROVE sl(k) \in Halves(first)
  <2>1. CASE r = 1
    <3>1. k \in 1 .. Len(first)
      BY <1>2, <2>1 DEF FirstRound
    <3> QED
      BY <2>1, <3>1, Zenon DEF Halves
  <2>2. CASE r # 1
    BY <2>2, Zenon DEF Halves
  <2> QED
    BY <2>1, <2>2
<1>4. \A k \in 1 .. c : (k - 1) \div 2 \in Nat /\ (k - 1) % 2 \in Nat /\ k - 1 \in Nat
  OBVIOUS
<1>5. ASSUME NEW k \in 1 .. c
      PROVE  /\ e(k) \in Drawn(first)
             /\ e(k).round = r /\ e(k).group = 0 /\ e(k).slots = sl(k)
             /\ e(k).next = IF r = p + 1 THEN 0 ELSE u + ((k - 1) \div 2)
             /\ e(k).nextSlot = IF r = p + 1 THEN 0 ELSE ((k - 1) % 2) + 1
  <2>1. PICK s : s = sl(k) /\ s \in Halves(first)
    BY <1>3
  <2>2. PICK d \in Nat : d = (k - 1) \div 2
    BY <1>4
  <2>3. PICK q \in Nat : q = (k - 1) % 2
    BY <1>4
  <2>4. PICK i \in Nat, v \in Nat : i = k - 1 /\ v = u
    BY <1>2, <1>4
  <2>6. r \in Nat /\ v + d \in Nat /\ q + 1 \in Nat /\ 0 \in Nat
    OBVIOUS
  <2>5. e(k) = MatchOf(r, i, s, IF r = p + 1 THEN 0 ELSE v + d, IF r = p + 1 THEN 0 ELSE q + 1)
    BY <2>1, <2>2, <2>3, <2>4
  <2> HIDE DEF e, sl
  <2> QED
    BY <2>1, <2>2, <2>3, <2>4, <2>5, <2>6 DEF MatchOf, Drawn
<1> HIDE DEF e, sl, w
<1>6. w \in [1 .. c -> Drawn(first)]
  BY <1>1, <1>5
<1>7. \A k \in 1 .. c : w[k] = e(k)
  BY <1>1
<1>8. ASSUME NEW k \in 1 .. c
      PROVE  /\ w[k].round = r /\ w[k].group = 0 /\ w[k].slots = sl(k)
             /\ w[k].next = IF r = p + 1 THEN 0 ELSE u + ((k - 1) \div 2)
             /\ w[k].nextSlot = IF r = p + 1 THEN 0 ELSE ((k - 1) % 2) + 1
  BY <1>5, <1>7
<1> QED
  BY <1>6, <1>8 DEF w, sl, MatchIn

(* The offsets of the rounds are where the rounds start. *)
LEMMA RoundOffsets ==
  ASSUME NEW p \in Nat, NEW len, NEW off, Offsets(p + 1, len, off),
         \A r \in 1 .. p + 1 : len[r] = RoundCount(Doubled[p])[r]
  PROVE  /\ \A r \in 1 .. p + 1 : off[r] + 1 = RoundStart(Doubled[p])[r]
         /\ off[(p + 1) + 1] = 2 * Doubled[p] - 1
<1> DEFINE n == Doubled[p]
           c == RoundCount(n)
           u == RoundStart(n)
           B == {j \in Nat : j <= p => off[j + 1] + 1 = u[j + 1]}
<1>1. /\ off[1] = 0
      /\ \A r \in 1 .. (p + 1) + 1 : off[r] \in Nat
      /\ \A r \in 1 .. p + 1 : off[r + 1] = off[r] + c[r]
  BY DEF Offsets
<1>2. n \in Nat
  BY Doubling
<1>3. u[1] = 1 /\ \A r \in Nat \ {0} : u[r + 1] = u[r] + c[r] /\ c[r] \in Nat
  BY <1>2, Halving
<1>4. /\ \A r \in 1 .. p + 1 : u[r] \in Nat /\ c[r] \in Nat /\ u[r] + 2 * c[r] = 2 * n + 1
      /\ c[p + 1] = Doubled[(p + 1) - (p + 1)]
  BY RoundsOf
<1> HIDE DEF c, u
<1>5. 0 \in B
  BY <1>1, <1>3
<1>6. ASSUME NEW j \in Nat, j \in B PROVE j + 1 \in B
  <2> SUFFICES ASSUME j + 1 <= p PROVE off[(j + 1) + 1] + 1 = u[(j + 1) + 1]
    OBVIOUS
  <2>1. j + 1 \in 1 .. p + 1 /\ j + 1 \in 1 .. (p + 1) + 1 /\ j + 1 \in Nat \ {0}
    OBVIOUS
  <2>2. off[j + 1] + 1 = u[j + 1] /\ off[j + 1] \in Nat /\ c[j + 1] \in Nat
    BY <1>1, <1>3, <1>6, <2>1
  <2>3. off[(j + 1) + 1] = off[j + 1] + c[j + 1] /\ u[(j + 1) + 1] = u[j + 1] + c[j + 1]
    BY <1>1, <1>3, <2>1
  <2> QED
    BY <2>2, <2>3
<1> HIDE DEF B
<1>7. Nat \subseteq B
  BY <1>5, <1>6, AllNumbers
<1>8. ASSUME NEW r \in 1 .. p + 1 PROVE off[r] + 1 = u[r]
  <2>1. r - 1 \in Nat /\ r - 1 <= p /\ (r - 1) + 1 = r
    OBVIOUS
  <2> QED
    BY <1>7, <2>1 DEF B
<1>9. off[(p + 1) + 1] = 2 * n - 1
  <2>1. p + 1 \in 1 .. p + 1 /\ p + 1 \in 1 .. (p + 1) + 1 /\ (p + 1) - (p + 1) = 0
    OBVIOUS
  <2>2. off[p + 1] + 1 = u[p + 1] /\ off[p + 1] \in Nat /\ off[(p + 1) + 1] = off[p + 1] + c[p + 1]
    BY <1>1, <1>8, <2>1
  <2>3. c[p + 1] = 1 /\ u[p + 1] + 2 * c[p + 1] = 2 * n + 1
    BY <1>4, <2>1, Doubling
  <2> QED
    BY <1>2, <2>2, <2>3
<1> QED
  BY <1>8, <1>9 DEF c, u

(* R rounds of c[r] matches each, round r starting at u[r] = off[r] + 1,   *)
(* above n matches in the first.                                           *)
Levels(n, R, c, u, off) ==
    /\ off[1] = 0 /\ c[1] = n /\ c[R] = 1
    /\ \A r \in 1 .. R : /\ off[r] \in Nat /\ c[r] \in Nat
                         /\ u[r] = off[r] + 1
                         /\ off[r] + 2 * c[r] = 2 * n
    /\ \A r \in 1 .. R : r # R => off[r + 1] = off[r] + c[r] /\ c[r] = 2 * c[r + 1]
    /\ \A m \in 1 .. 2 * n - 1 : \E r \in 1 .. R : \E k \in 1 .. c[r] : m = off[r] + k

(* The matches of M, by the round and the place in it. *)
Ranked(M, R, c, u, off, first) ==
    \A r \in 1 .. R : \A k \in 1 .. c[r] :
        /\ M[off[r] + k].round = r /\ M[off[r] + k].group = 0
        /\ M[off[r] + k].slots = IF r = 1 THEN first[k] ELSE <<Empty, Empty>>
        /\ M[off[r] + k].next = IF r = R THEN 0 ELSE u[r + 1] + ((k - 1) \div 2)
        /\ M[off[r] + k].nextSlot = IF r = R THEN 0 ELSE ((k - 1) % 2) + 1

(* Match m of round r. *)
PlaceOf(n, R, c, u, off, m, r, i, k, x) ==
    /\ r \in 1 .. R /\ i \in Nat /\ k \in Nat /\ x \in Nat
    /\ i = off[r] /\ x = c[r] /\ 1 <= k /\ k <= x /\ m = i + k /\ i + 2 * x = 2 * n
    /\ i + 1 = u[r]

(* Every match has a place in a round. *)
LEMMA PlaceFound ==
  ASSUME NEW n \in Nat, NEW R \in Nat, NEW c, NEW u, NEW off, Levels(n, R, c, u, off),
         NEW m \in Nat, 1 <= m, m <= 2 * n - 1
  PROVE  \E r, i, k, x \in Nat : PlaceOf(n, R, c, u, off, m, r, i, k, x)
<1>1. PICK r \in 1 .. R : \E k \in 1 .. c[r] : m = off[r] + k
  <2>1. m \in 1 .. 2 * n - 1
    OBVIOUS
  <2> QED
    BY <2>1, Zenon DEF Levels
<1>2. PICK i \in Nat, x \in Nat : i = off[r] /\ x = c[r] /\ i + 1 = u[r] /\ i + 2 * x = 2 * n
  BY DEF Levels
<1>3. PICK k \in Nat : 1 <= k /\ k <= x /\ m = i + k
  BY <1>1, <1>2
<1>4. r \in Nat
  OBVIOUS
<1> QED
  BY <1>2, <1>3, <1>4 DEF PlaceOf

(* What Ranked says of match m. *)
Placed(M, R, u, first, m, r, k) ==
    /\ M[m].round = r /\ M[m].group = 0
    /\ M[m].slots = IF r = 1 THEN first[k] ELSE <<Empty, Empty>>
    /\ M[m].next = IF r = R THEN 0 ELSE u[r + 1] + ((k - 1) \div 2)
    /\ M[m].nextSlot = IF r = R THEN 0 ELSE ((k - 1) % 2) + 1

(* The match after match m, from 0. *)
Following(n, R, c, u, off, m, r, k) ==
    /\ r # R
    /\ u[r + 1] + ((k - 1) \div 2) = n + 1 + (m - 1) \div 2
    /\ (k - 1) % 2 = (m - 1) % 2
    /\ \E j, l, y \in Nat : PlaceOf(n, R, c, u, off, n + 1 + (m - 1) \div 2, r + 1, j, l, y)

(* M has as many matches as a bracket above n first ones. *)
Sized(M, first, n) == M \in Seq(Drawn(first)) /\ Len(M) = 2 * n - 1 /\ Len(first) = n

(* The match at a place is what the generator puts there. *)
LEMMA RankedPlace ==
  ASSUME NEW n \in Nat, NEW R \in Nat, NEW c, NEW u, NEW off, NEW M, NEW first,
         Ranked(M, R, c, u, off, first),
         NEW m \in Nat, NEW r \in Nat, NEW i \in Nat, NEW k \in Nat, NEW x \in Nat,
         PlaceOf(n, R, c, u, off, m, r, i, k, x)
  PROVE  Placed(M, R, u, first, m, r, k)
<1>1. r \in 1 .. R /\ k \in 1 .. c[r] /\ m = off[r] + k
  BY DEF PlaceOf
<1> QED
  BY <1>1, Zenon DEF Ranked, Placed

(* A match below the last round is followed by one of the next round. *)
LEMMA NextPlace ==
  ASSUME NEW n \in Nat, NEW R \in Nat, NEW c, NEW u, NEW off, Levels(n, R, c, u, off),
         NEW m \in Nat, m < 2 * n - 1, NEW r \in Nat, NEW i \in Nat, NEW k \in Nat, NEW x \in Nat,
         PlaceOf(n, R, c, u, off, m, r, i, k, x)
  PROVE  Following(n, R, c, u, off, m, r, k)
<1>1. /\ r \in 1 .. R /\ i = off[r] /\ x = c[r] /\ 1 <= k /\ k <= x /\ m = i + k /\ i + 2 * x = 2 * n
  BY DEF PlaceOf
<1>2. r # R
  <2> SUFFICES ASSUME r = R PROVE FALSE
    OBVIOUS
  <2>1. x = 1
    BY <1>1 DEF Levels
  <2> QED
    BY <1>1, <2>1
<1>3. r + 1 \in 1 .. R
  BY <1>1, <1>2
<1>4. PICK j \in Nat, y \in Nat : j = off[r + 1] /\ y = c[r + 1] /\ j + 1 = u[r + 1] /\ j + 2 * y = 2 * n
  BY <1>3 DEF Levels
<1>5. j = i + x /\ x = 2 * y
  BY <1>1, <1>2, <1>4 DEF Levels
<1>6. PICK d \in Nat : d = (k - 1) \div 2 /\ (2 * d = k - 1 \/ 2 * d + 1 = k - 1)
  BY <1>1
<1>7. m - 1 = 2 * (n - x) + (k - 1) /\ n - x \in Nat
  BY <1>1
<1>8. (m - 1) \div 2 = (n - x) + d /\ (m - 1) % 2 = (k - 1) % 2
  <2>1. PICK w \in Nat, v \in Nat, q \in Nat : w = n - x /\ v = m - 1 /\ q = k - 1
    BY <1>1, <1>7
  <2>2. v = 2 * w + q /\ d = q \div 2 /\ (2 * d = q \/ 2 * d + 1 = q)
    BY <1>6, <1>7, <2>1
  <2>3. v \div 2 = w + d /\ v % 2 = q % 2
    BY <2>2
  <2> QED
    BY <2>1, <2>3
<1>9. n + 1 + (m - 1) \div 2 = j + (d + 1)
  BY <1>5, <1>7, <1>8, <1>1
<1>10. 1 <= d + 1 /\ d + 1 <= y /\ d + 1 \in Nat
  BY <1>1, <1>5, <1>6
<1>11. PlaceOf(n, R, c, u, off, n + 1 + (m - 1) \div 2, r + 1, j, d + 1, y)
  BY <1>3, <1>4, <1>9, <1>10 DEF PlaceOf
<1> QED
  <2>1. u[r + 1] + ((k - 1) \div 2) = n + 1 + (m - 1) \div 2
    BY <1>4, <1>6, <1>9
  <2> QED
    BY <1>2, <1>4, <1>8, <1>10, <1>11, <2>1 DEF Following

(* Such matches are a bracket. *)
LEMMA RankedWired ==
  ASSUME NEW n \in Nat, n >= 1, NEW R \in Nat, R >= 1, NEW c, NEW u, NEW off, Levels(n, R, c, u, off),
         NEW M, NEW first, Ranked(M, R, c, u, off, first),
         Sized(M, first, n)
  PROVE  Wired(M, first)
<1>1. ASSUME NEW m \in Nat, 1 <= m, m <= 2 * n - 1
      PROVE  M[m].group = 0 /\ M[m].round >= 1
  <2>1. PICK r \in Nat, i \in Nat, k \in Nat, x \in Nat : PlaceOf(n, R, c, u, off, m, r, i, k, x)
    BY <1>1, PlaceFound, Zenon
  <2>2. Placed(M, R, u, first, m, r, k)
    BY <2>1, RankedPlace, Zenon
  <2> QED
    BY <2>1, <2>2 DEF PlaceOf, Placed
<1>2. M[2 * n - 1].next = 0
  <2>1. R \in 1 .. R /\ 1 \in 1 .. c[R]
    BY DEF Levels
  <2>2. PICK i \in Nat : i = off[R] /\ i + 2 * 1 = 2 * n
    BY <2>1 DEF Levels
  <2>3. off[R] + 1 = 2 * n - 1
    BY <2>2
  <2> QED
    BY <2>1, <2>3 DEF Ranked
<1>3. ASSUME NEW m \in 1 .. n PROVE M[m].slots = first[m] /\ M[m].round = 1
  <2>1. 1 \in 1 .. R /\ m \in 1 .. c[1] /\ off[1] = 0 /\ 0 + m = m
    BY DEF Levels
  <2> QED
    BY <2>1 DEF Ranked
<1>4. ASSUME NEW m \in Nat, n < m, m <= 2 * n - 1 PROVE M[m].slots = <<Empty, Empty>>
  <2>1. PICK r \in Nat, i \in Nat, k \in Nat, x \in Nat : PlaceOf(n, R, c, u, off, m, r, i, k, x)
    <3>1. 1 <= m
      BY <1>4
    <3> QED
      BY <1>4, <3>1, PlaceFound, Zenon
  <2>2. r # 1
    <3> SUFFICES ASSUME r = 1 PROVE FALSE
      OBVIOUS
    <3>1. i = 0 /\ x = n /\ m = i + k /\ k <= x
      BY <2>1 DEF Levels, PlaceOf
    <3> QED
      BY <1>4, <3>1
  <2>3. Placed(M, R, u, first, m, r, k)
    BY <2>1, RankedPlace, Zenon
  <2> QED
    BY <2>2, <2>3 DEF Placed
<1>5. ASSUME NEW m \in Nat, 1 <= m, m < 2 * n - 1
      PROVE  /\ M[m].next = n + 1 + (m - 1) \div 2
             /\ M[m].nextSlot = ((m - 1) % 2) + 1
             /\ M[M[m].next].round = M[m].round + 1
  <2>1. PICK r \in Nat, i \in Nat, k \in Nat, x \in Nat : PlaceOf(n, R, c, u, off, m, r, i, k, x)
    <3>1. m <= 2 * n - 1
      BY <1>5
    <3> QED
      BY <1>5, <3>1, PlaceFound, Zenon
  <2>2. Following(n, R, c, u, off, m, r, k)
    BY <1>5, <2>1, NextPlace, Zenon
  <2>3. PICK t \in Nat : t = n + 1 + (m - 1) \div 2
    BY <1>5
  <2>4. PICK j \in Nat, l \in Nat, y \in Nat : PlaceOf(n, R, c, u, off, t, r + 1, j, l, y)
    BY <2>2, <2>3, Zenon DEF Following
  <2>5. Placed(M, R, u, first, m, r, k)
    BY <2>1, RankedPlace, Zenon
  <2>6. /\ M[m].round = r
        /\ M[m].next = t
        /\ M[m].nextSlot = ((m - 1) % 2) + 1
    BY <2>2, <2>3, <2>5 DEF Placed, Following
  <2>7. M[t].round = r + 1
    <3>1. r + 1 \in Nat
      OBVIOUS
    <3>2. Placed(M, R, u, first, t, r + 1, l)
      BY <2>4, <3>1, RankedPlace, Zenon
    <3> QED
      BY <3>2 DEF Placed
  <2> QED
    BY <2>3, <2>6, <2>7
<1> DEFINE last == 2 * n - 1
<1>6. /\ \A m \in 1 .. last : m \in Nat /\ 1 <= m /\ m <= 2 * n - 1
      /\ \A m \in n + 1 .. last : m \in Nat /\ n < m /\ m <= 2 * n - 1
      /\ \A m \in 1 .. last - 1 : m \in Nat /\ 1 <= m /\ m < 2 * n - 1
      /\ 1 \in 1 .. n
  OBVIOUS
<1>7. /\ \A m \in 1 .. last : M[m].group = 0 /\ M[m].round >= 1
      /\ \A m \in 1 .. n : M[m].slots = first[m]
      /\ \A m \in n + 1 .. last : M[m].slots = <<Empty, Empty>>
      /\ M[1].round = 1
  BY <1>1, <1>3, <1>4, <1>6
<1>8. \A m \in 1 .. last - 1 : /\ M[m].next = n + 1 + (m - 1) \div 2
                               /\ M[m].nextSlot = ((m - 1) % 2) + 1
                               /\ M[M[m].next].round = M[m].round + 1
  BY <1>5, <1>6
<1> QED
  BY <1>2, <1>7, <1>8, Zenon DEF Wired, Sized

(* The rounds above 2^p matches are such levels. *)
LEMMA LevelsFound ==
  ASSUME NEW p \in Nat, NEW len, NEW off, Offsets(p + 1, len, off),
         \A r \in 1 .. p + 1 : len[r] = RoundCount(Doubled[p])[r]
  PROVE  Levels(Doubled[p], p + 1, RoundCount(Doubled[p]), RoundStart(Doubled[p]), off)
<1> DEFINE c == RoundCount(Doubled[p])
           u == RoundStart(Doubled[p])
<1>1. PICK n \in Nat : n = Doubled[p] /\ n >= 1
  BY Doubling, DoublingGrows
<1>2. PICK R \in Nat : R = p + 1 /\ R >= 1
  OBVIOUS
<1>3. \A r \in 1 .. R : /\ c[r] = Doubled[R - r] /\ u[r] \in Nat /\ c[r] \in Nat
                        /\ u[r] + 2 * c[r] = 2 * n + 1
                        /\ r # R => c[r] = 2 * c[r + 1]
  BY <1>1, <1>2, RoundsOf
<1>4. (\A r \in 1 .. R : off[r] + 1 = u[r]) /\ off[R + 1] = 2 * n - 1
  BY <1>1, <1>2, RoundOffsets
<1>5. c[1] = n
  BY <1>1, Halving
<1> HIDE DEF c, u
<1>6. c[R] = 1
  <2>1. R \in 1 .. R /\ R - R = 0
    BY <1>2
  <2> QED
    BY <1>3, <2>1, Doubling
<1>7. /\ off[1] = 0
      /\ \A r \in 1 .. R + 1 : off[r] \in Nat
      /\ \A r \in 1 .. R : off[r + 1] = off[r] + len[r]
  BY <1>2, Zenon DEF Offsets
<1>8. \A r \in 1 .. R : len[r] = c[r] /\ len[r] \in Nat
  BY <1>2, <1>3 DEF c
<1>9. \A m \in 1 .. 2 * n - 1 : \E r \in 1 .. R : \E k \in 1 .. c[r] : m = off[r] + k
  <2>1. \A m \in 1 .. off[R + 1] : \E r \in 1 .. R : \E k \in 1 .. len[r] : m = off[r] + k
    BY <1>2, <1>8, OffsetsReach
  <2>2. ASSUME NEW m \in 1 .. 2 * n - 1 PROVE \E r \in 1 .. R : \E k \in 1 .. c[r] : m = off[r] + k
    <3>1. PICK r \in 1 .. R : \E k \in 1 .. len[r] : m = off[r] + k
      BY <1>4, <2>1, Zenon
    <3> QED
      BY <1>8, <3>1, Zenon
  <2> QED
    BY <2>2, Zenon
<1>10. ASSUME NEW r \in 1 .. R
       PROVE  /\ off[r] \in Nat /\ c[r] \in Nat /\ u[r] = off[r] + 1 /\ off[r] + 2 * c[r] = 2 * n
              /\ r # R => off[r + 1] = off[r] + c[r] /\ c[r] = 2 * c[r + 1]
  <2>1. r \in 1 .. R + 1
    OBVIOUS
  <2>2. PICK i \in Nat, x \in Nat : i = off[r] /\ x = c[r]
    BY <1>3, <1>7, <2>1
  <2>3. u[r] = i + 1 /\ u[r] + 2 * x = 2 * n + 1
    BY <1>3, <1>4, <2>2
  <2>4. i + 2 * x = 2 * n
    BY <2>3
  <2>5. off[r + 1] = off[r] + c[r] /\ (r # R => c[r] = 2 * c[r + 1])
    BY <1>3, <1>7, <1>8
  <2> QED
    BY <2>2, <2>3, <2>4, <2>5
<1>11. Levels(n, R, c, u, off)
  BY <1>5, <1>6, <1>7, <1>9, <1>10 DEF Levels
<1> QED
  BY <1>1, <1>2, <1>11 DEF c, u

(* wireFedRounds makes a bracket of a first round of 2^p matches. *)
LEMMA WiredRounds ==
  ASSUME NEW first, NEW p \in Nat, FirstRound(first, p)
  PROVE  Wired(wireFedRounds(first), first)
<1>1. PICK n \in Nat : n = Doubled[p] /\ n >= 1
  BY Doubling, DoublingGrows
<1>2. PICK R \in Nat : R = p + 1 /\ R >= 1
  OBVIOUS
<1> DEFINE c == RoundCount(Doubled[p])
           u == RoundStart(Doubled[p])
           ss == [r \in 1 .. R |-> WiredRound(first, R, r)]
           M == wireFedRounds(first)
           len == [r \in 1 .. R |-> Len(ss[r])]
<1>3. M = FlattenSeq(ss)
  <2>1. 2 * Len(first) = Doubled[p + 1]
    BY Doubling DEF FirstRound
  <2>2. log2(2 * Len(first)) = R
    BY <1>2, <2>1, LogOfPower
  <2> QED
    BY <2>2, Zenon DEF wireFedRounds
<1>4. ASSUME NEW r \in 1 .. R
      PROVE  /\ ss[r] \in [1 .. c[r] -> Drawn(first)] /\ c[r] \in Nat
             /\ \A k \in 1 .. c[r] : MatchIn(ss[r][k], r, R, k, u[r + 1], first)
  <2>1. c[r] \in Nat
    BY <1>2, RoundsOf
  <2>2. PICK v : v = IF r = p + 1 THEN 0 ELSE u[r + 1]
    OBVIOUS
  <2>3. ss[r] = WiredRound(first, p + 1, r) /\ r \in 1 .. p + 1
    BY <1>2
  <2> DEFINE W == WiredRound(first, p + 1, r)
  <2>4. PICK z : z = c[r]
    OBVIOUS
  <2>5. W \in [1 .. z -> Drawn(first)] /\ \A k \in 1 .. z : MatchIn(W[k], r, p + 1, k, v, first)
    <3>1. Level(p, r, z, v)
      BY <2>2, <2>4, Zenon DEF Level
    <3> QED
      BY <2>3, <3>1, WiredMatch, Zenon
  <2> HIDE DEF W, c, u, ss
  <2>6. ASSUME NEW k \in 1 .. z PROVE MatchIn(W[k], r, R, k, u[r + 1], first)
    BY <1>2, <2>2, <2>5 DEF MatchIn
  <2> QED
    BY <2>1, <2>3, <2>4, <2>5, <2>6, Zenon DEF W
<1> HIDE DEF ss, M
<1>5. ASSUME NEW r \in 1 .. R PROVE ss[r] \in Seq(Drawn(first)) /\ Len(ss[r]) = c[r]
  <2>1. PICK x \in Nat : x = c[r]
    BY <1>4
  <2>2. ss[r] \in [1 .. x -> Drawn(first)]
    BY <1>4, <2>1
  <2> QED
    BY <2>1, <2>2, Numbered, Zenon
<1>6. Parts(Drawn(first), R, ss)
  BY <1>5 DEF Parts, ss
<1>7. PICK off : Laid(Drawn(first), R, ss, M, off)
  BY <1>3, <1>6, Flattened, Zenon
<1>8. Offsets(R, len, off)
  BY <1>7 DEF Laid
<1>9. \A r \in 1 .. R : len[r] = c[r]
  BY <1>5
<1> HIDE DEF len
<1>10. Levels(n, R, c, u, off)
  BY <1>1, <1>2, <1>8, <1>9, LevelsFound
<1>11. off[R + 1] = 2 * n - 1
  BY <1>1, <1>2, <1>8, <1>9, RoundOffsets
<1> HIDE DEF c, u
<1>12. Sized(M, first, n)
  BY <1>1, <1>7, <1>11, Zenon DEF Sized, Laid, FirstRound
<1>13. ASSUME NEW r \in 1 .. R, NEW k \in 1 .. c[r] PROVE M[off[r] + k] = ss[r][k]
  <2>1. k \in 1 .. Len(ss[r])
    BY <1>5
  <2> QED
    BY <1>7, <2>1, Zenon DEF Laid
<1>14. Ranked(M, R, c, u, off, first)
  <2>1. ASSUME NEW r \in 1 .. R, NEW k \in 1 .. c[r]
        PROVE  MatchIn(M[off[r] + k], r, R, k, u[r + 1], first)
    BY <1>4, <1>13, Zenon
  <2> QED
    BY <2>1, Zenon DEF Ranked, MatchIn
<1> QED
  BY <1>1, <1>2, <1>10, <1>12, <1>14, RankedWired, Zenon DEF M

(* Matches o+1 to o+last lead to the last of them, a round at a time, and  *)
(* no other match has a successor.                                         *)
Climbs(rs, o, last) ==
    /\ DOMAIN rs = 1 .. o + last
    /\ \A m \in 1 .. o : rs[m].next = 0
    /\ rs[o + last].next = 0 /\ rs[o + 1].round = 1
    /\ \A m \in o + 1 .. o + last : rs[m].round \in Nat /\ rs[m].round >= 1
    /\ \A m \in o + 1 .. o + last - 1 :
          /\ rs[m].next \in m + 1 .. o + last
          /\ rs[rs[m].next].round = rs[m].round + 1

(* The match after m, its round and the one before. *)
Up(rs, o, last, m) ==
    \E t, x \in Nat : /\ t = rs[m].next /\ m < t /\ t <= o + last
                      /\ x = rs[m].round /\ rs[t].round = x + 1

(* What Climbs says of one match below the last. *)
LEMMA OneUp ==
  ASSUME NEW rs, NEW o \in Nat, NEW last \in Nat, last >= 1, Climbs(rs, o, last),
         NEW m \in Nat, o < m, m < o + last
  PROVE  Up(rs, o, last, m)
<1>1. m \in o + 1 .. o + last - 1 /\ m \in o + 1 .. o + last
  OBVIOUS
<1>2. PICK t \in m + 1 .. o + last : t = rs[m].next /\ rs[t].round = rs[m].round + 1
  BY <1>1, Zenon DEF Climbs
<1>3. PICK x \in Nat : x = rs[m].round
  BY <1>1, Zenon DEF Climbs
<1>4. t \in Nat /\ m < t /\ t <= o + last
  OBVIOUS
<1>5. rs[t].round = x + 1
  BY <1>2, <1>3
<1> QED
  BY <1>2, <1>3, <1>4, <1>5, Zenon DEF Up

(* h counts the hops to the last match. *)
Hops(h, rs) == h = [m \in DOMAIN rs |-> IF rs[m].next = 0 THEN 0 ELSE h[rs[m].next] + 1]

(* The hops that RoundsShown counts exist. *)
LEMMA HopsExist ==
  ASSUME NEW rs, NEW o \in Nat, NEW last \in Nat, last >= 1, Climbs(rs, o, last)
  PROVE  \E h : Hops(h, rs)
<1>1. PICK T \in Nat : T = rs[o + last].round
  <2>1. o + last \in o + 1 .. o + last
    OBVIOUS
  <2> QED
    BY <2>1, Zenon DEF Climbs
<1> DEFINE w == [m \in DOMAIN rs |-> IF m <= o THEN 0 ELSE T - rs[m].round]
<1>2. ASSUME NEW m \in DOMAIN rs
      PROVE  w[m] = IF rs[m].next = 0 THEN 0 ELSE w[rs[m].next] + 1
  <2>1. m \in Nat /\ 1 <= m /\ m <= o + last /\ DOMAIN rs = 1 .. o + last
    BY DEF Climbs
  <2>2. CASE m <= o
    <3>1. m \in 1 .. o
      BY <2>1, <2>2
    <3>2. rs[m].next = 0
      BY <3>1, Zenon DEF Climbs
    <3> QED
      BY <2>2, <3>2
  <2>3. CASE m = o + last
    <3>1. rs[m].next = 0
      BY <2>3, Zenon DEF Climbs
    <3>2. T - T = 0
      OBVIOUS
    <3> QED
      BY <1>1, <2>3, <3>1, <3>2
  <2>4. CASE o < m /\ m < o + last
    <3>0. Up(rs, o, last, m)
      BY <2>1, <2>4, OneUp, Zenon
    <3>1. PICK t \in Nat, x \in Nat : /\ t = rs[m].next /\ m < t /\ t <= o + last
                                      /\ x = rs[m].round /\ rs[t].round = x + 1
      BY <3>0, Zenon DEF Up
    <3>2. t \in DOMAIN rs /\ ~(t <= o) /\ t # 0 /\ ~(m <= o)
      <4>1. PICK i \in Nat : i = m /\ o < i /\ i < t
        BY <2>1, <2>4, <3>1
      <4>2. t \in 1 .. o + last /\ ~(t <= o) /\ t # 0 /\ ~(i <= o)
        BY <3>1, <4>1
      <4> QED
        BY <2>1, <4>1, <4>2
    <3>3. w[t] = T - (x + 1)
      BY <3>1, <3>2
    <3>4. w[m] = T - x
      BY <3>1, <3>2
    <3>5. (T - (x + 1)) + 1 = T - x
      OBVIOUS
    <3> HIDE DEF w
    <3> QED
      BY <3>1, <3>2, <3>3, <3>4, <3>5
  <2>5. m <= o \/ m = o + last \/ (o < m /\ m < o + last)
    BY <2>1
  <2> QED
    BY <2>2, <2>3, <2>4, <2>5
<1>3. Hops(w, rs)
  <2> DEFINE v == [m \in DOMAIN rs |-> IF rs[m].next = 0 THEN 0 ELSE w[rs[m].next] + 1]
  <2>1. \A m \in DOMAIN rs : w[m] = v[m]
    BY <1>2
  <2>2. w \in [DOMAIN rs -> Range(w)] /\ v \in [DOMAIN rs -> Range(v)]
    BY Zenon DEF Range
  <2>3. w = v
    BY <2>1
  <2> HIDE DEF w
  <2> QED
    BY <2>3 DEF Hops
<1> HIDE DEF w
<1> QED
  BY <1>3

(* The hops are what is left of the rounds. *)
LEMMA HopsLeft ==
  ASSUME NEW rs, NEW o \in Nat, NEW last \in Nat, last >= 1, Climbs(rs, o, last),
         NEW h, Hops(h, rs), NEW T \in Nat, T = rs[o + last].round
  PROVE  \A m \in o + 1 .. o + last : h[m] = T - rs[m].round
<1> DEFINE Good(m) == o < m => h[m] = T - rs[m].round
           B == {j \in Nat : \A m \in Nat : m <= o + last /\ o + last <= m + j => Good(m)}
<1>1. DOMAIN rs = 1 .. o + last
  BY DEF Climbs
<1>2. \A m \in 1 .. o + last : h[m] = IF rs[m].next = 0 THEN 0 ELSE h[rs[m].next] + 1
  BY <1>1, Zenon DEF Hops
<1>3. Good(o + last)
  <2>1. o + last \in 1 .. o + last /\ T - T = 0
    OBVIOUS
  <2>2. rs[o + last].next = 0
    BY Zenon DEF Climbs
  <2> QED
    BY <1>2, <2>1, <2>2
<1>4. ASSUME NEW j \in Nat, NEW m \in Nat, m < o + last, o + last <= m + (j + 1),
             \A t \in Nat : t <= o + last /\ o + last <= t + j => Good(t)
      PROVE  Good(m)
  <2> SUFFICES ASSUME o < m PROVE h[m] = T - rs[m].round
    OBVIOUS
  <2>0. Up(rs, o, last, m)
    BY <1>4, OneUp, Zenon
  <2>1. PICK t \in Nat, x \in Nat : /\ t = rs[m].next /\ m < t /\ t <= o + last
                                    /\ x = rs[m].round /\ rs[t].round = x + 1
    BY <2>0, Zenon DEF Up
  <2>2. o + last <= t + j /\ o < t
    BY <1>4, <2>1
  <2>3. h[t] = T - (x + 1)
    BY <1>4, <2>1, <2>2
  <2>4. m \in 1 .. o + last /\ t # 0 /\ (T - (x + 1)) + 1 = T - x
    BY <1>4, <2>1
  <2> QED
    BY <1>2, <2>1, <2>3, <2>4
<1>5. 0 \in B
  <2>1. ASSUME NEW m \in Nat, m <= o + last, o + last <= m + 0 PROVE Good(m)
    <3>1. m = o + last
      BY <2>1
    <3> HIDE DEF Good
    <3> QED
      BY <1>3, <3>1
  <2> HIDE DEF Good
  <2> QED
    BY <2>1
<1>6. ASSUME NEW j \in Nat, j \in B PROVE j + 1 \in B
  <2>1. \A t \in Nat : t <= o + last /\ o + last <= t + j => Good(t)
    BY <1>6
  <2>2. ASSUME NEW m \in Nat, m <= o + last, o + last <= m + (j + 1) PROVE Good(m)
    <3> HIDE DEF Good
    <3>1. CASE m = o + last
      BY <1>3, <3>1
    <3>2. CASE m < o + last
      BY <1>4, <2>1, <2>2, <3>2
    <3> QED
      BY <2>2, <3>1, <3>2
  <2> HIDE DEF Good
  <2> QED
    BY <2>2
<1> HIDE DEF B
<1>7. Nat \subseteq B
  BY <1>5, <1>6, AllNumbers
<1>8. ASSUME NEW m \in o + 1 .. o + last PROVE h[m] = T - rs[m].round
  <2>1. m \in Nat /\ m <= o + last /\ o + last <= m + (o + last) /\ o < m /\ o + last \in Nat
    OBVIOUS
  <2> QED
    BY <1>7, <2>1 DEF B
<1> QED
  BY <1>8

(* Every match of K is shown in the round it was generated in. *)
ShownRight(rs, K) == \A m \in K : RoundsShown(rs, K)[m] = rs[m].round

(* GetBracket shows every match in its round. *)
LEMMA RoundsRight ==
  ASSUME NEW rs, NEW o \in Nat, NEW last \in Nat, last >= 1, Climbs(rs, o, last),
         NEW K, K = o + 1 .. o + last
  PROVE  ShownRight(rs, K)
<1> DEFINE h == CHOOSE g : Hops(g, rs)
           top(x) == x \in {h[m] : m \in K} /\ \A m \in K : h[m] <= x
           best == CHOOSE x \in {h[m] : m \in K} : \A m \in K : h[m] <= x
<1>1. PICK T \in Nat : T = rs[o + last].round
  <2>1. o + last \in o + 1 .. o + last
    OBVIOUS
  <2> QED
    BY <2>1, Zenon DEF Climbs
<1>2. Hops(h, rs)
  BY HopsExist, Zenon
<1>3. RoundsShown(rs, K) = [m \in K |-> best - h[m] + 1]
  BY Zenon DEF RoundsShown, Hops
<1> HIDE DEF h
<1>4. \A m \in K : h[m] = T - rs[m].round
  BY <1>1, <1>2, HopsLeft
<1>5. \A m \in K : rs[m].round \in Nat /\ rs[m].round >= 1
  BY Zenon DEF Climbs
<1>6. o + 1 \in K /\ h[o + 1] = T - 1
  <2>1. o + 1 \in K
    OBVIOUS
  <2>2. rs[o + 1].round = 1
    BY Zenon DEF Climbs
  <2> QED
    BY <1>4, <2>1, <2>2
<1>7. ASSUME NEW m \in K PROVE h[m] \in Int /\ h[m] <= T - 1
  <2>1. PICK x \in Nat : x = rs[m].round /\ x >= 1
    BY <1>5
  <2>2. h[m] = T - x
    BY <1>4, <2>1
  <2>3. T - x \in Int /\ T - x <= T - 1
    <3>1. x >= 1
      BY <2>1, Zenon
    <3> QED
      BY <3>1
  <2> QED
    BY <2>2, <2>3, Zenon
<1>8. top(T - 1)
  BY <1>6, <1>7
<1>9. best = T - 1
  <2>1. top(best)
    <3>1. \E x \in {h[m] : m \in K} : \A m \in K : h[m] <= x
      BY <1>8
    <3> QED
      BY <3>1, Zenon
  <2> HIDE DEF best
  <2>2. PICK m \in K : best = h[m]
    BY <2>1
  <2>3. best \in Int /\ best <= T - 1 /\ T - 1 <= best
    BY <1>6, <1>7, <2>1, <2>2
  <2> QED
    BY <2>3
<1> HIDE DEF best
<1>10. ASSUME NEW m \in K PROVE RoundsShown(rs, K)[m] = rs[m].round
  <2>1. PICK x \in Nat : x = rs[m].round
    BY <1>5
  <2>2. h[m] = T - x
    BY <1>4, <2>1, Zenon
  <2>4. (T - 1) - (T - x) + 1 = x
    OBVIOUS
  <2>3. RoundsShown(rs, K)[m] = best - h[m] + 1
    BY <1>3, Zenon
  <2> QED
    BY <1>9, <2>1, <2>2, <2>3, <2>4, Zenon
<1> QED
  BY <1>10 DEF ShownRight

----------------------------------------------------------------------------
(* The knockout of a draw *)

(* After o matches of a group stage comes a bracket above n matches.       *)
Bracketed(ms, o, n, first) ==
    LET last == 2 * n - 1
    IN  /\ DOMAIN ms = 1 .. o + last
        /\ \A m \in 1 .. o : ms[m].group # 0 /\ ms[m].next = 0
        /\ \A m \in o + 1 .. o + last : ms[m].group = 0 /\ ms[m].round \in Nat /\ ms[m].round >= 1
        /\ ms[o + last].next = 0 /\ ms[o + 1].round = 1
        /\ \A m \in 1 .. n : ms[o + m].slots = first[m]
        /\ \A m \in n + 1 .. last : ms[o + m].slots = <<Empty, Empty>>
        /\ \A m \in 1 .. last - 1 : /\ ms[o + m].next = o + (n + 1 + (m - 1) \div 2)
                                    /\ ms[o + m].nextSlot = ((m - 1) % 2) + 1
                                    /\ ms[ms[o + m].next].round = ms[o + m].round + 1

(* No slot of the first round waits for a winner. *)
Filled(first, n) ==
    \A i \in 1 .. n : \A k \in 1 .. 2 : first[i][k].type \in {"bye", "fixed", "group_placement"}

(* The matches that send their winners to slot k of match m. *)
FeedersOf(ms, m, k) == {i \in DOMAIN ms : ms[i].next = m /\ ms[i].nextSlot = k}

(* The successor of match o + j. *)
Succeeds(ms, o, n, j) ==
    \E d \in Nat : /\ d = (j - 1) \div 2 /\ (2 * d = j - 1 \/ 2 * d + 1 = j - 1)
                   /\ ms[o + j].next = o + (n + 1 + d)
                   /\ ms[o + j].nextSlot = (j - 1) - 2 * d + 1
                   /\ ms[o + (n + 1 + d)].round = ms[o + j].round + 1

(* A match below the last one sends its winner to the match it succeeds. *)
LEMMA Successor ==
  ASSUME NEW ms, NEW o \in Nat, NEW n \in Nat, n >= 1, NEW first, Bracketed(ms, o, n, first),
         NEW j \in Nat, 1 <= j, j < 2 * n - 1
  PROVE  Succeeds(ms, o, n, j)
<1>1. j \in 1 .. (2 * n - 1) - 1
  OBVIOUS
<1>2. PICK d \in Nat : d = (j - 1) \div 2 /\ (2 * d = j - 1 \/ 2 * d + 1 = j - 1)
  OBVIOUS
<1>3. ((j - 1) % 2) + 1 = (j - 1) - 2 * d + 1
  BY <1>2
<1>4. /\ ms[o + j].next = o + (n + 1 + (j - 1) \div 2)
      /\ ms[o + j].nextSlot = ((j - 1) % 2) + 1
      /\ ms[ms[o + j].next].round = ms[o + j].round + 1
  BY <1>1, Zenon DEF Bracketed
<1>5. /\ ms[o + j].next = o + (n + 1 + d)
      /\ ms[o + j].nextSlot = (j - 1) - 2 * d + 1
      /\ ms[o + (n + 1 + d)].round = ms[o + j].round + 1
  BY <1>2, <1>3, <1>4, Zenon
<1> QED
  BY <1>2, <1>5, Zenon DEF Succeeds

(* Nothing feeds the first round. *)
LEMMA NoFeeder ==
  ASSUME NEW ms, NEW o \in Nat, NEW n \in Nat, n >= 1, NEW first, Bracketed(ms, o, n, first),
         NEW m \in Nat, 1 <= m, m <= n, NEW k
  PROVE  FeedersOf(ms, o + m, k) = {}
<1> SUFFICES ASSUME NEW i \in DOMAIN ms, ms[i].next = o + m PROVE FALSE
  BY DEF FeedersOf
<1>1. i \in 1 .. o + (2 * n - 1)
  BY Zenon DEF Bracketed
<1>2. CASE i \in 1 .. o
  <2>1. ms[i].next = 0
    BY <1>2, Zenon DEF Bracketed
  <2> QED
    BY <2>1
<1>3. CASE i = o + (2 * n - 1)
  <2>1. ms[i].next = 0
    BY <1>3, Zenon DEF Bracketed
  <2> QED
    BY <2>1
<1>4. CASE i \notin 1 .. o /\ i # o + (2 * n - 1)
  <2>1. PICK j \in Nat : i = o + j /\ 1 <= j /\ j < 2 * n - 1
    <3>1. i - o \in Nat /\ i = o + (i - o) /\ 1 <= i - o /\ i - o < 2 * n - 1
      BY <1>1, <1>4
    <3> QED
      BY <3>1
  <2>2. PICK d \in Nat : ms[o + j].next = o + (n + 1 + d)
    <3>1. Succeeds(ms, o, n, j)
      BY <2>1, Successor, Zenon
    <3> QED
      BY <3>1 DEF Succeeds
  <2> QED
    BY <2>1, <2>2
<1> QED
  BY <1>2, <1>3, <1>4

(* s has one element. *)
OneIn(s) == \E x : s = {x}

(* Two matches feed each later one, one per slot. *)
LEMMA OneFeeder ==
  ASSUME NEW ms, NEW o \in Nat, NEW n \in Nat, n >= 1, NEW first, Bracketed(ms, o, n, first),
         NEW m \in Nat, n < m, m <= 2 * n - 1, NEW k \in 1 .. 2
  PROVE  OneIn(FeedersOf(ms, o + m, k))
<1>1. PICK f \in Nat : f = 2 * (m - n) + k - 2 /\ 1 <= f /\ f < 2 * n - 1
  OBVIOUS
<1>2. DOMAIN ms = 1 .. o + (2 * n - 1)
  BY Zenon DEF Bracketed
<1>3. o + f \in FeedersOf(ms, o + m, k)
  <2>1. PICK d \in Nat : /\ d = (f - 1) \div 2 /\ (2 * d = f - 1 \/ 2 * d + 1 = f - 1)
                         /\ ms[o + f].next = o + (n + 1 + d)
                         /\ ms[o + f].nextSlot = (f - 1) - 2 * d + 1
    <3>1. Succeeds(ms, o, n, f)
      BY <1>1, Successor, Zenon
    <3> QED
      BY <3>1, Zenon DEF Succeeds
  <2>2. n + 1 + d = m /\ (f - 1) - 2 * d + 1 = k /\ o + f \in 1 .. o + (2 * n - 1)
    BY <1>1, <2>1
  <2> QED
    BY <1>2, <2>1, <2>2 DEF FeedersOf
<1>4. ASSUME NEW i \in FeedersOf(ms, o + m, k) PROVE i = o + f
  <2>1. i \in 1 .. o + (2 * n - 1) /\ ms[i].next = o + m /\ ms[i].nextSlot = k
    BY <1>2 DEF FeedersOf
  <2>2. CASE i \in 1 .. o
    <3>1. ms[i].next = 0
      BY <2>2, Zenon DEF Bracketed
    <3> QED
      BY <2>1, <3>1
  <2>3. CASE i = o + (2 * n - 1)
    <3>1. ms[i].next = 0
      BY <2>3, Zenon DEF Bracketed
    <3> QED
      BY <2>1, <3>1
  <2>4. CASE i \notin 1 .. o /\ i # o + (2 * n - 1)
    <3>1. PICK j \in Nat : i = o + j /\ 1 <= j /\ j < 2 * n - 1
      <4>1. i - o \in Nat /\ i = o + (i - o) /\ 1 <= i - o /\ i - o < 2 * n - 1
        BY <2>1, <2>4
      <4> QED
        BY <4>1
    <3>2. PICK d \in Nat : /\ d = (j - 1) \div 2 /\ (2 * d = j - 1 \/ 2 * d + 1 = j - 1)
                           /\ ms[o + j].next = o + (n + 1 + d)
                           /\ ms[o + j].nextSlot = (j - 1) - 2 * d + 1
      <4>1. Succeeds(ms, o, n, j)
        BY <3>1, Successor, Zenon
      <4> QED
        BY <4>1, Zenon DEF Succeeds
    <3>3. o + (n + 1 + d) = o + m /\ (j - 1) - 2 * d + 1 = k
      BY <2>1, <3>1, <3>2, Zenon
    <3>4. j = f
      BY <1>1, <3>2, <3>3
    <3> QED
      BY <3>1, <3>4
  <2> QED
    BY <2>2, <2>3, <2>4
<1>5. FeedersOf(ms, o + m, k) = {o + f}
  BY <1>3, <1>4
<1> QED
  BY <1>5, Zenon DEF OneIn

(* What BracketIsTree says of the knockout matches K. *)
Tree(rs, K) ==
    /\ Cardinality({m \in K : rs[m].next = 0}) = 1
    /\ \A m \in K, k \in 1 .. 2 :
          /\ rs[m].slots[k].type # "empty"
          /\ Cardinality(rs[m].feeds[k]) = IF rs[m].slots[k].type = "match_winner" THEN 1 ELSE 0
    /\ \A m \in K : RoundsShown(rs, K)[m] = rs[m].round

(* The row persisted for match m. *)
RowOf(r, ms, m) ==
    /\ r.group = ms[m].group /\ r.round = ms[m].round /\ r.next = ms[m].next
    /\ \A k \in 1 .. 2 :
          /\ r.feeds[k] = FeedersOf(ms, m, k)
          /\ r.slots[k] = IF ms[m].slots[k].type = "empty" /\ FeedersOf(ms, m, k) # {}
                          THEN [ms[m].slots[k] EXCEPT !.type = "match_winner"] ELSE ms[m].slots[k]

(* persistWithGroups writes for every match its row. *)
LEMMA PersistedRow == ASSUME NEW ms, NEW m \in DOMAIN ms PROVE RowOf(Persisted(ms)[m], ms, m)
  BY DEF Persisted, FeedersOf, RowOf

(* The rows are numbered as the matches are. *)
LEMMA PersistedDomain == ASSUME NEW ms PROVE DOMAIN Persisted(ms) = DOMAIN ms
  BY DEF Persisted

(* A persisted bracket climbs. *)
LEMMA PersistedClimbs ==
  ASSUME NEW ms, NEW o \in Nat, NEW n \in Nat, n >= 1, NEW first, Bracketed(ms, o, n, first),
         NEW last \in Nat, last = 2 * n - 1
  PROVE  Climbs(Persisted(ms), o, last)
<1> DEFINE rs == Persisted(ms)
<1>1. DOMAIN ms = 1 .. o + last /\ DOMAIN rs = 1 .. o + last
  BY PersistedDomain, Zenon DEF Bracketed
<1>2. \A m \in 1 .. o + last :
         rs[m].next = ms[m].next /\ rs[m].round = ms[m].round /\ rs[m].group = ms[m].group
  <2>1. \A m \in 1 .. o + last : RowOf(rs[m], ms, m)
    BY <1>1, PersistedRow, Zenon
  <2> QED
    BY <2>1, Zenon DEF RowOf
<1> HIDE DEF rs
<1>3. /\ \A m \in 1 .. o : m \in 1 .. o + last
      /\ \A m \in o + 1 .. o + last : m \in 1 .. o + last
      /\ o + last \in 1 .. o + last /\ o + 1 \in 1 .. o + last
  OBVIOUS
<1>4. \A m \in 1 .. o : rs[m].next = 0
  BY <1>2, <1>3, Zenon DEF Bracketed
<1>5. rs[o + last].next = 0 /\ rs[o + 1].round = 1
  BY <1>2, <1>3, Zenon DEF Bracketed
<1>6. \A m \in o + 1 .. o + last : rs[m].round \in Nat /\ rs[m].round >= 1
  BY <1>2, <1>3, Zenon DEF Bracketed
<1>7. ASSUME NEW m \in o + 1 .. o + last - 1
      PROVE  rs[m].next \in m + 1 .. o + last /\ rs[rs[m].next].round = rs[m].round + 1
  <2>1. PICK j \in Nat : j = m - o /\ m = o + j /\ 1 <= j /\ j < 2 * n - 1
    <3>1. m - o \in Nat /\ m = o + (m - o) /\ 1 <= m - o /\ m - o < 2 * n - 1
      OBVIOUS
    <3> QED
      BY <3>1
  <2>2. Succeeds(ms, o, n, j)
    BY <2>1, Successor, Zenon
  <2>3. PICK d \in Nat : /\ d = (j - 1) \div 2 /\ (2 * d = j - 1 \/ 2 * d + 1 = j - 1)
                         /\ ms[o + j].next = o + (n + 1 + d)
                         /\ ms[o + (n + 1 + d)].round = ms[o + j].round + 1
    BY <2>2, Zenon DEF Succeeds
  <2>4. PICK t \in Nat : t = o + (n + 1 + d)
    OBVIOUS
  <2>5. t \in m + 1 .. o + last /\ t \in 1 .. o + last /\ m \in 1 .. o + last
    <3>1. 2 * d = j - 1 \/ 2 * d + 1 = j - 1
      BY <2>3, Zenon
    <3> QED
      BY <2>1, <2>4, <3>1
  <2>6. ms[m].next = t /\ ms[t].round = ms[m].round + 1
    BY <2>1, <2>3, <2>4, Zenon
  <2> QED
    BY <1>2, <2>5, <2>6, Zenon
<1> QED
  BY <1>1, <1>4, <1>5, <1>6, <1>7, Zenon DEF Climbs, rs

(* The matches of the knockout are those of the bracket. *)
LEMMA KnockoutOf ==
  ASSUME NEW ms, NEW o \in Nat, NEW n \in Nat, n >= 1, NEW first, Bracketed(ms, o, n, first)
  PROVE  {m \in DOMAIN Persisted(ms) : Persisted(ms)[m].group = 0} = o + 1 .. o + (2 * n - 1)
<1>1. DOMAIN ms = 1 .. o + (2 * n - 1)
  BY Zenon DEF Bracketed
<1>2. \A m \in DOMAIN ms : Persisted(ms)[m].group = ms[m].group
  <2>1. \A m \in DOMAIN ms : RowOf(Persisted(ms)[m], ms, m)
    BY PersistedRow, Zenon
  <2> QED
    BY <2>1, Zenon DEF RowOf
<1>3. \A m \in 1 .. o : ms[m].group # 0
  BY Zenon DEF Bracketed
<1>4. \A m \in o + 1 .. o + (2 * n - 1) : ms[m].group = 0
  BY Zenon DEF Bracketed
<1>5. \A m \in 1 .. o + (2 * n - 1) : m \in 1 .. o \/ m \in o + 1 .. o + (2 * n - 1)
  OBVIOUS
<1>6. \A m \in o + 1 .. o + (2 * n - 1) : m \in 1 .. o + (2 * n - 1)
  OBVIOUS
<1> QED
  BY <1>1, <1>2, <1>3, <1>4, <1>5, <1>6, PersistedDomain, Zenon

(* A persisted bracket is one tree. *)
LEMMA PersistedTree ==
  ASSUME NEW ms, NEW o \in Nat, NEW n \in Nat, n >= 1, NEW first, Bracketed(ms, o, n, first),
         Filled(first, n)
  PROVE  Tree(Persisted(ms), o + 1 .. o + (2 * n - 1))
<1>1. PICK last \in Nat : last = 2 * n - 1 /\ last >= 1
  OBVIOUS
<1> DEFINE rs == Persisted(ms)
           K == o + 1 .. o + last
<1>2. Climbs(rs, o, last)
  BY <1>1, PersistedClimbs, Zenon
<1>3. \A m \in K : m \in DOMAIN ms
  <2>1. DOMAIN ms = 1 .. o + last
    BY <1>1, Zenon DEF Bracketed
  <2>2. \A m \in K : m \in 1 .. o + last
    OBVIOUS
  <2> QED
    BY <2>1, <2>2, Zenon
<1>4. \A m \in K : \A k \in 1 .. 2 :
         /\ rs[m].feeds[k] = FeedersOf(ms, m, k)
         /\ rs[m].slots[k] = IF ms[m].slots[k].type = "empty" /\ FeedersOf(ms, m, k) # {}
                             THEN [ms[m].slots[k] EXCEPT !.type = "match_winner"] ELSE ms[m].slots[k]
  <2>1. \A m \in K : RowOf(rs[m], ms, m)
    BY <1>3, PersistedRow, Zenon
  <2> QED
    BY <2>1, Zenon DEF RowOf
<1> HIDE DEF rs
<1>5. Cardinality({m \in K : rs[m].next = 0}) = 1
  <2>1. ASSUME NEW m \in K, rs[m].next = 0 PROVE m = o + last
    <3> SUFFICES ASSUME m # o + last PROVE FALSE
      OBVIOUS
    <3>1. m \in o + 1 .. o + last - 1
      OBVIOUS
    <3>2. rs[m].next \in m + 1 .. o + last
      BY <1>2, <3>1, Zenon DEF Climbs
    <3> QED
      BY <2>1, <3>1, <3>2
  <2>2. o + last \in K /\ rs[o + last].next = 0
    <3>1. o + last \in K
      BY <1>1
    <3> QED
      BY <1>2, <3>1, Zenon DEF Climbs
  <2>3. {m \in K : rs[m].next = 0} = {o + last}
    BY <2>1, <2>2, Zenon
  <2> QED
    BY <2>3, FS_Singleton
<1>6. ASSUME NEW m \in K, NEW k \in 1 .. 2
      PROVE  /\ rs[m].slots[k].type # "empty"
             /\ Cardinality(rs[m].feeds[k]) = IF rs[m].slots[k].type = "match_winner" THEN 1 ELSE 0
  <2>1. PICK j \in Nat : m = o + j /\ 1 <= j /\ j <= 2 * n - 1
    <3>1. m - o \in Nat /\ m = o + (m - o) /\ 1 <= m - o /\ m - o <= 2 * n - 1
      BY <1>1
    <3> QED
      BY <3>1
  <2>2. CASE j <= n
    <3>1. FeedersOf(ms, m, k) = {}
      BY <2>1, <2>2, NoFeeder, Zenon
    <3>2. j \in 1 .. n
      BY <2>1, <2>2
    <3>3. ms[m].slots = first[j]
      BY <2>1, <3>2, Zenon DEF Bracketed
    <3>4. first[j][k].type \in {"bye", "fixed", "group_placement"}
      BY <3>2, Zenon DEF Filled
    <3>5. rs[m].slots[k] = first[j][k] /\ rs[m].feeds[k] = {}
      BY <1>4, <3>1, <3>3, Zenon
    <3>6. rs[m].slots[k].type # "empty" /\ rs[m].slots[k].type # "match_winner"
      BY <3>4, <3>5
    <3>7. Cardinality(rs[m].feeds[k]) = 0
      BY <3>5, FS_EmptySet, Zenon
    <3> QED
      BY <3>6, <3>7, Zenon
  <2>3. CASE n < j
    <3>1. PICK x : FeedersOf(ms, m, k) = {x}
      <4>1. OneIn(FeedersOf(ms, o + j, k))
        BY <2>1, <2>3, OneFeeder, Zenon
      <4> QED
        BY <2>1, <4>1, Zenon DEF OneIn
    <3>2. j \in n + 1 .. 2 * n - 1
      BY <2>1, <2>3
    <3>3. ms[m].slots = <<Empty, Empty>>
      BY <2>1, <3>2, Zenon DEF Bracketed
    <3>4. ms[m].slots[k] = Empty
      <4>1. <<Empty, Empty>>[1] = Empty /\ <<Empty, Empty>>[2] = Empty /\ (k = 1 \/ k = 2)
        OBVIOUS
      <4> QED
        BY <3>3, <4>1, Zenon
    <3>5. Empty.type = "empty" /\ [Empty EXCEPT !.type = "match_winner"].type = "match_winner"
      BY DEF Empty, Slot
    <3>6. FeedersOf(ms, m, k) # {}
      BY <3>1, Zenon
    <3>7. rs[m].slots[k].type = "match_winner"
      BY <1>4, <3>4, <3>5, <3>6, Zenon
    <3>8. Cardinality(rs[m].feeds[k]) = 1
      <4>1. rs[m].feeds[k] = {x}
        BY <1>4, <3>1, Zenon
      <4> QED
        BY <4>1, FS_Singleton, Zenon
    <3>9. "match_winner" # "empty"
      OBVIOUS
    <3> QED
      BY <3>7, <3>8, <3>9, Zenon
  <2> QED
    BY <2>1, <2>2, <2>3
<1>7. \A m \in K : RoundsShown(rs, K)[m] = rs[m].round
  <2>1. PICK L : L = o + 1 .. o + last
    OBVIOUS
  <2>2. ShownRight(rs, L)
    BY <1>1, <1>2, <2>1, RoundsRight, Zenon
  <2> QED
    BY <2>1, <2>2, Zenon DEF ShownRight
<1>8. Tree(rs, K)
  BY <1>5, <1>6, <1>7, Zenon DEF Tree
<1> QED
  BY <1>1, <1>8 DEF rs, K

----------------------------------------------------------------------------
(* Lists *)

(* s is a list of some length. *)
List(s) == \E n \in Nat : s = [k \in 1 .. n |-> s[k]]

Items(s) == {s[k] : k \in 1 .. Len(s)}

(* A function on 1 .. n is a list. *)
LEMMA ListMade == ASSUME NEW n \in Nat, NEW S, NEW s \in [1 .. n -> S] PROVE List(s) /\ Len(s) = n
<1>1. s = [k \in 1 .. n |-> s[k]]
  OBVIOUS
<1>2. Len(s) = n
  BY Numbered, Zenon
<1> QED
  BY <1>1, <1>2, Zenon DEF List

(* A list is a sequence of its items. *)
LEMMA ListIs ==
  ASSUME NEW s, List(s)
  PROVE  /\ Len(s) \in Nat /\ DOMAIN s = 1 .. Len(s)
         /\ s \in Seq(Items(s)) /\ s \in [1 .. Len(s) -> Items(s)]
<1>1. PICK n \in Nat : s = [k \in 1 .. n |-> s[k]]
  BY DEF List
<1> DEFINE S == {s[k] : k \in 1 .. n}
<1>2. s \in [1 .. n -> S]
  <2> DEFINE f == [k \in 1 .. n |-> s[k]]
  <2>1. f \in [1 .. n -> S]
    OBVIOUS
  <2> HIDE DEF S
  <2> QED
    BY <1>1, <2>1, Zenon
<1>3. s \in Seq(S) /\ Len(s) = n
  <2> HIDE DEF S
  <2> QED
    BY <1>2, Numbered, Zenon
<1>4. DOMAIN s = 1 .. n
  <2> HIDE DEF S
  <2> QED
    BY <1>2, Zenon
<1>5. Items(s) = S
  BY <1>3, Zenon DEF Items
<1> HIDE DEF S
<1> QED
  BY <1>2, <1>3, <1>4, <1>5, Zenon

(* A sequence is a list. *)
LEMMA SeqIsList == ASSUME NEW S, NEW s \in Seq(S) PROVE List(s)
<1>1. Len(s) \in Nat /\ s \in [1 .. Len(s) -> S]
  BY LenProperties
<1> QED
  BY <1>1, ListMade, Zenon

(* The empty list. *)
LEMMA NoItems == List(<<>>) /\ Len(<<>>) = 0
<1>1. <<>> \in Seq({})
  BY EmptySeq
<1> QED
  BY <1>1, EmptySeq, SeqIsList, Zenon

(* A list of one item. *)
LEMMA OneItem == ASSUME NEW x PROVE List(<<x>>) /\ Len(<<x>>) = 1 /\ <<x>>[1] = x
<1>1. <<x>> \in Seq({x}) /\ Len(<<x>>) = 1 /\ <<x>>[1] = x
  OBVIOUS
<1> QED
  BY <1>1, SeqIsList, Zenon

(* The lists ss, N of them, one after the other. *)
LaidOut(N, ss, flat, off) ==
    /\ Offsets(N, [r \in 1 .. N |-> Len(ss[r])], off)
    /\ Len(flat) = off[N + 1]
    /\ \A r \in 1 .. N : \A k \in 1 .. Len(ss[r]) : flat[off[r] + k] = ss[r][k]
    /\ \A m \in 1 .. Len(flat) : \E r \in 1 .. N : \E k \in 1 .. Len(ss[r]) :
          m = off[r] + k /\ flat[m] = ss[r][k]

(* ss is N lists. *)
Lists(N, ss) == ss = [r \in 1 .. N |-> ss[r]] /\ \A r \in 1 .. N : List(ss[r])

(* FlattenSeq lays lists out one after the other. *)
LEMMA FlattenedLists ==
  ASSUME NEW N \in Nat, NEW ss, Lists(N, ss)
  PROVE  List(FlattenSeq(ss)) /\ \E off : LaidOut(N, ss, FlattenSeq(ss), off)
<1> DEFINE S == UNION {Items(ss[r]) : r \in 1 .. N}
           len == [r \in 1 .. N |-> Len(ss[r])]
           flat == FlattenSeq(ss)
<1>1. ASSUME NEW r \in 1 .. N PROVE ss[r] \in Seq(S) /\ Len(ss[r]) \in Nat
  <2>1. List(ss[r])
    BY Zenon DEF Lists
  <2>2. ss[r] \in Seq(Items(ss[r])) /\ Len(ss[r]) \in Nat
    BY <2>1, ListIs, Zenon
  <2>3. Items(ss[r]) \subseteq S
    OBVIOUS
  <2>4. PICK n \in Nat : n = Len(ss[r]) /\ ss[r] \in [1 .. n -> Items(ss[r])]
    BY <2>1, ListIs, Zenon
  <2>5. ss[r] \in [1 .. n -> S]
    <3> HIDE DEF S
    <3> QED
      BY <2>3, <2>4
  <2> HIDE DEF S
  <2> QED
    BY <2>2, <2>5, Numbered, Zenon
<1> HIDE DEF S
<1>2. Parts(S, N, ss)
  <2>1. ss = [r \in 1 .. N |-> ss[r]]
    BY Zenon DEF Lists
  <2> QED
    BY <1>1, <2>1, Zenon DEF Parts
<1>3. PICK off : Laid(S, N, ss, flat, off)
  BY <1>2, Flattened, Zenon
<1>4. List(flat)
  <2>1. flat \in Seq(S)
    BY <1>3, Zenon DEF Laid
  <2> QED
    BY <2>1, SeqIsList, Zenon
<1>5. /\ Offsets(N, len, off) /\ Len(flat) = off[N + 1]
      /\ \A r \in 1 .. N : \A k \in 1 .. Len(ss[r]) : flat[off[r] + k] = ss[r][k]
  BY <1>3, Zenon DEF Laid
<1>6. \A r \in 1 .. N : len[r] \in Nat /\ len[r] = Len(ss[r])
  BY <1>1
<1>7. \A m \in 1 .. off[N + 1] : \E r \in 1 .. N : \E k \in 1 .. len[r] : m = off[r] + k
  <2> HIDE DEF len
  <2> QED
    <3>1. PICK l : l = len
      OBVIOUS
    <3>2. Offsets(N, l, off) /\ \A r \in 1 .. N : l[r] \in Nat
      BY <1>5, <1>6, <3>1, Zenon
    <3>3. \A m \in 1 .. off[N + 1] : \E r \in 1 .. N : \E k \in 1 .. l[r] : m = off[r] + k
      BY <3>2, OffsetsReach
    <3> QED
      BY <3>1, <3>3
<1>8. \A m \in 1 .. Len(flat) : \E r \in 1 .. N : \E k \in 1 .. Len(ss[r]) :
          m = off[r] + k /\ flat[m] = ss[r][k]
  <2> HIDE DEF len, flat
  <2>1. ASSUME NEW m \in 1 .. Len(flat)
        PROVE  \E r \in 1 .. N : \E k \in 1 .. Len(ss[r]) : m = off[r] + k /\ flat[m] = ss[r][k]
    <3>1. PICK r \in 1 .. N : \E k \in 1 .. len[r] : m = off[r] + k
      BY <1>5, <1>7, Zenon
    <3>2. PICK k \in 1 .. Len(ss[r]) : m = off[r] + k
      BY <1>6, <3>1, Zenon
    <3>3. flat[m] = ss[r][k]
      BY <1>5, <3>2, Zenon
    <3> QED
      BY <3>2, <3>3, Zenon
  <2> QED
    BY <2>1, Zenon
<1>9. LaidOut(N, ss, flat, off)
  BY <1>5, <1>8, Zenon DEF LaidOut
<1> HIDE DEF flat
<1>10. \E o : LaidOut(N, ss, flat, o)
  BY <1>9, Zenon
<1> QED
  BY <1>4, <1>10 DEF flat

(* u is s and then t. *)
Chained(u, s, t) ==
    /\ List(u) /\ Len(u) = Len(s) + Len(t) /\ Len(s) \in Nat /\ Len(t) \in Nat
    /\ \A k \in 1 .. Len(s) : u[k] = s[k]
    /\ \A k \in 1 .. Len(t) : u[Len(s) + k] = t[k]

(* Two lists, one after the other. *)
LEMMA Joined == ASSUME NEW s, NEW t, List(s), List(t) PROVE Chained(s \o t, s, t)
<1>1. PICK n \in Nat, m \in Nat : n = Len(s) /\ m = Len(t)
  BY ListIs, Zenon
<1> DEFINE S == Items(s) \cup Items(t)
<1>2. s \in Seq(S) /\ t \in Seq(S)
  <2>1. s \in [1 .. n -> Items(s)] /\ t \in [1 .. m -> Items(t)]
    BY <1>1, ListIs, Zenon
  <2>2. s \in [1 .. n -> S] /\ t \in [1 .. m -> S]
    BY <2>1
  <2> HIDE DEF S
  <2> QED
    BY <2>2, Numbered, Zenon
<1> HIDE DEF S
<1>3. /\ s \o t \in Seq(S) /\ Len(s \o t) = n + m
      /\ \A k \in 1 .. n + m : (s \o t)[k] = IF k <= n THEN s[k] ELSE t[k - n]
  BY <1>1, <1>2, ConcatProperties
<1>4. List(s \o t)
  BY <1>3, SeqIsList, Zenon
<1>5. ASSUME NEW k \in 1 .. n PROVE (s \o t)[k] = s[k]
  <2>1. k \in 1 .. n + m /\ k <= n
    OBVIOUS
  <2> QED
    BY <1>3, <2>1, Zenon
<1>6. ASSUME NEW k \in 1 .. m PROVE (s \o t)[n + k] = t[k]
  <2>1. n + k \in 1 .. n + m /\ ~(n + k <= n) /\ (n + k) - n = k
    OBVIOUS
  <2> QED
    BY <1>3, <2>1, Zenon
<1> QED
  BY <1>1, <1>3, <1>4, <1>5, <1>6, Zenon DEF Chained

----------------------------------------------------------------------------
(* First rounds *)

(* The order of the seeds, doubling after doubling. *)
LEMMA SeedOrderIs ==
  \A k \in Nat : SeedOrder[k] =
      IF k <= 1 THEN <<1, 2>>
      ELSE [i \in 1 .. Doubled[k] |-> IF i % 2 = 1 THEN SeedOrder[k - 1][(i + 1) \div 2]
                                      ELSE Opponent(Doubled[k], SeedOrder[k - 1][i \div 2])]
<1> DEFINE S == UNION {[1 .. d -> Int] : d \in Nat}
           at(x, j) == IF j \in DOMAIN x /\ x[j] \in Int THEN x[j] ELSE 1
           grown(k, x) == IF k = 0 THEN <<1, 2>>
                          ELSE [i \in 1 .. Doubled[k + 1] |->
                                  IF i % 2 = 1 THEN at(x, (i + 1) \div 2)
                                  ELSE Opponent(Doubled[k + 1], at(x, i \div 2))]
           step == [a \in Nat \X S |-> grown(a[1], a[2])]
           Right(g) == g = [k \in Nat |->
              IF k <= 1 THEN <<1, 2>>
              ELSE [i \in 1 .. Doubled[k] |-> IF i % 2 = 1 THEN g[k - 1][(i + 1) \div 2]
                                              ELSE Opponent(Doubled[k], g[k - 1][i \div 2])]]
<1>1. <<1, 2>> \in [1 .. 2 -> Int] /\ <<1, 2>> \in S
  <2>1. <<1, 2>> \in [1 .. 2 -> Int]
    OBVIOUS
  <2> QED
    BY <2>1
<1>2. ASSUME NEW k \in Nat, NEW x \in S
      PROVE  grown(k, x) \in S /\ (k # 0 => grown(k, x) \in [1 .. Doubled[k + 1] -> Int])
  <2>1. CASE k = 0
    BY <1>1, <2>1
  <2>2. CASE k # 0
    <3>1. PICK d \in Nat : d = Doubled[k + 1]
      <4>1. k + 1 \in Nat
        OBVIOUS
      <4> QED
        BY <4>1, Doubling, Zenon
    <3>2. \A j : at(x, j) \in Int
      OBVIOUS
    <3> DEFINE e(i) == IF i % 2 = 1 THEN at(x, (i + 1) \div 2) ELSE Opponent(d, at(x, i \div 2))
    <3>3. \A i \in 1 .. d : e(i) \in Int
      <4> HIDE DEF at
      <4> QED
        BY <3>2 DEF Opponent
    <3> HIDE DEF e
    <3>4. [i \in 1 .. d |-> e(i)] \in [1 .. d -> Int]
      BY <3>3
    <3>5. grown(k, x) = [i \in 1 .. d |-> e(i)]
      BY <2>2, <3>1, Zenon DEF e
    <3> HIDE DEF grown
    <3> QED
      BY <3>1, <3>4, <3>5
  <2> QED
    BY <2>1, <2>2
<1> HIDE DEF S
<1>3. Steps(S, <<1, 2>>, step)
  <2>1. \A k \in Nat : \A x \in S : step[<<k, x>>] = grown(k, x)
    <3> HIDE DEF grown
    <3> QED
      OBVIOUS
  <2> HIDE DEF grown, step
  <2> QED
    BY <1>1, <1>2, <2>1, Zenon DEF Steps
<1>4. PICK f : Follows(f, S, <<1, 2>>, step)
  <2> HIDE DEF step
  <2> QED
    BY <1>3, Recursion, Zenon
<1>5. f[0] = <<1, 2>> /\ \A k \in Nat : f[k] \in S /\ f[k + 1] = grown(k, f[k])
  <2> HIDE DEF grown
  <2>1. f[0] = <<1, 2>> /\ \A k \in Nat : f[k] \in S /\ f[k + 1] = step[<<k, f[k]>>]
    <3> HIDE DEF step
    <3> QED
      BY <1>4, Zenon DEF Follows
  <2> QED
    BY <2>1
<1>6. ASSUME NEW k \in Nat PROVE f[k + 1] \in [1 .. Doubled[k + 1] -> Int]
  <2>1. CASE k = 0
    <3>1. f[0 + 1] = <<1, 2>>
      BY <1>5
    <3>2. Doubled[0 + 1] = 2
      BY Doubling
    <3> QED
      BY <1>1, <2>1, <3>1, <3>2, Zenon
  <2>2. CASE k # 0
    <3> HIDE DEF grown
    <3> QED
      BY <1>2, <1>5, <2>2, Zenon
  <2> QED
    BY <2>1, <2>2
<1> DEFINE h == [k \in Nat |-> f[k]]
<1>7. ASSUME NEW k \in Nat
      PROVE  f[k] = IF k <= 1 THEN <<1, 2>>
                    ELSE [i \in 1 .. Doubled[k] |-> IF i % 2 = 1 THEN h[k - 1][(i + 1) \div 2]
                                                    ELSE Opponent(Doubled[k], h[k - 1][i \div 2])]
  <2>1. CASE k = 0
    BY <1>5, <2>1
  <2>2. CASE k = 1
    <3>1. f[0 + 1] = grown(0, f[0]) /\ grown(0, f[0]) = <<1, 2>>
      <4>1. f[0 + 1] = grown(0, f[0])
        <5> HIDE DEF grown
        <5> QED
          BY <1>5
      <4>2. grown(0, f[0]) = <<1, 2>>
        BY Zenon
      <4> QED
        BY <4>1, <4>2, Zenon
    <3>2. 0 + 1 = 1 /\ 1 <= 1
      OBVIOUS
    <3> HIDE DEF grown, h
    <3> QED
      BY <2>2, <3>1, <3>2
  <2>3. CASE k > 1
    <3>1. PICK j \in Nat : j = k - 1 /\ j # 0 /\ j + 1 = k /\ (j - 1) + 1 = j /\ j - 1 \in Nat
      <4>1. k - 1 \in Nat
        BY <2>3
      <4> QED
        BY <2>3, <4>1
    <3>2. f[j + 1] = grown(j, f[j]) /\ h[j] = f[j]
      <4> HIDE DEF grown
      <4> QED
        BY <1>5
    <3>3. f[j] \in [1 .. Doubled[j] -> Int]
      BY <1>6, <3>1, Zenon
    <3>4. Doubled[j + 1] = 2 * Doubled[j] /\ Doubled[j] \in Nat
      BY Doubling
    <3>5. PICK d \in Nat : d = Doubled[j]
      BY <3>4
    <3>6. ASSUME NEW i \in 1 .. 2 * d
          PROVE  /\ i % 2 = 1 => at(f[j], (i + 1) \div 2) = f[j][(i + 1) \div 2]
                 /\ i % 2 # 1 => at(f[j], i \div 2) = f[j][i \div 2]
      <4>1. /\ i % 2 = 1 => (i + 1) \div 2 \in 1 .. d
            /\ i % 2 # 1 => i \div 2 \in 1 .. d
        OBVIOUS
      <4> QED
        BY <3>3, <3>5, <4>1
    <3>7. grown(j, f[j]) =
             [i \in 1 .. 2 * d |-> IF i % 2 = 1 THEN f[j][(i + 1) \div 2]
                                   ELSE Opponent(2 * d, f[j][i \div 2])]
      <4>1. grown(j, f[j]) = [i \in 1 .. 2 * d |-> IF i % 2 = 1 THEN at(f[j], (i + 1) \div 2)
                                                   ELSE Opponent(2 * d, at(f[j], i \div 2))]
        <5> HIDE DEF at
        <5> QED
          BY <3>1, <3>4, <3>5, Zenon
      <4>2. ASSUME NEW i \in 1 .. 2 * d
            PROVE  (IF i % 2 = 1 THEN at(f[j], (i + 1) \div 2) ELSE Opponent(2 * d, at(f[j], i \div 2)))
                   = (IF i % 2 = 1 THEN f[j][(i + 1) \div 2] ELSE Opponent(2 * d, f[j][i \div 2]))
        <5> HIDE DEF at
        <5> QED
          BY <3>6, Zenon
      <4> HIDE DEF at, grown
      <4> QED
        BY <4>1, <4>2, Zenon
    <3>8. ~(k <= 1)
      BY <2>3
    <3> DEFINE G(m, y) == [i \in 1 .. m |-> IF i % 2 = 1 THEN y[(i + 1) \div 2]
                                            ELSE Opponent(m, y[i \div 2])]
    <3>9. grown(j, f[j]) = G(2 * d, f[j])
      <4> HIDE DEF grown, at
      <4> QED
        BY <3>7, Zenon
    <3>10. f[k] = IF k <= 1 THEN <<1, 2>> ELSE G(Doubled[k], h[k - 1])
      <4> HIDE DEF grown, at, h, G
      <4> QED
        BY <3>1, <3>2, <3>4, <3>5, <3>8, <3>9, Zenon
    <3> HIDE DEF grown, at, h
    <3> QED
      BY <3>10, Zenon
  <2> QED
    BY <2>1, <2>2, <2>3
<1>8. Right(h)
  <2> DEFINE e(k) == IF k <= 1 THEN <<1, 2>>
                     ELSE [i \in 1 .. Doubled[k] |-> IF i % 2 = 1 THEN h[k - 1][(i + 1) \div 2]
                                                     ELSE Opponent(Doubled[k], h[k - 1][i \div 2])]
  <2>1. \A k \in Nat : f[k] = e(k)
    BY <1>7
  <2>2. h = [k \in Nat |-> e(k)]
    <3> HIDE DEF e
    <3> QED
      BY <2>1
  <2> HIDE DEF h
  <2> QED
    BY <2>2
<1>9. Right(SeedOrder)
  <2>1. Right(CHOOSE g : Right(g))
    <3> HIDE DEF Right, h
    <3> QED
      BY <1>8, Zenon
  <2> QED
    BY <2>1, Zenon DEF SeedOrder
<1> QED
  BY <1>9, Zenon

(* It has a place for every slot of the bracket. *)
LEMMA SeedOrderPlaces ==
  \A k \in Nat \ {0} : SeedOrder[k] \in [1 .. Doubled[k] -> Int]
<1> DEFINE B == {j \in Nat : SeedOrder[j + 1] \in [1 .. Doubled[j + 1] -> Int]}
<1>1. <<1, 2>> \in [1 .. 2 -> Int]
  OBVIOUS
<1>10. \A k \in Nat : SeedOrder[k] =
              IF k <= 1 THEN <<1, 2>>
              ELSE [i \in 1 .. Doubled[k] |-> IF i % 2 = 1 THEN SeedOrder[k - 1][(i + 1) \div 2]
                                              ELSE Opponent(Doubled[k], SeedOrder[k - 1][i \div 2])]
  BY SeedOrderIs, Zenon
<1>11. 0 \in B
  <2>1. SeedOrder[0 + 1] = <<1, 2>> /\ Doubled[0 + 1] = 2
    <3>1. 0 + 1 = 1 /\ 1 <= 1 /\ 1 \in Nat
      OBVIOUS
    <3>2. Doubled[0 + 1] = 2
      BY Doubling
    <3> QED
      BY <1>10, <3>1, <3>2, Zenon
  <2> QED
    BY <1>1, <2>1, Zenon
<1>12. ASSUME NEW j \in Nat, j \in B PROVE j + 1 \in B
  <2>1. PICK d \in Nat : d = Doubled[j + 1] /\ Doubled[(j + 1) + 1] = 2 * d
    BY Doubling
  <2>2. SeedOrder[j + 1] \in [1 .. d -> Int]
    BY <1>12, <2>1
  <2>3. SeedOrder[(j + 1) + 1] =
            [i \in 1 .. 2 * d |-> IF i % 2 = 1 THEN SeedOrder[j + 1][(i + 1) \div 2]
                                  ELSE Opponent(2 * d, SeedOrder[j + 1][i \div 2])]
    <3>1. (j + 1) + 1 \in Nat /\ ~((j + 1) + 1 <= 1) /\ ((j + 1) + 1) - 1 = j + 1
      OBVIOUS
    <3> QED
      BY <1>10, <2>1, <3>1, Zenon
  <2>4. ASSUME NEW i \in 1 .. 2 * d
        PROVE  (IF i % 2 = 1 THEN SeedOrder[j + 1][(i + 1) \div 2]
                ELSE Opponent(2 * d, SeedOrder[j + 1][i \div 2])) \in Int
    <3>1. /\ i % 2 = 1 => (i + 1) \div 2 \in 1 .. d
          /\ i % 2 # 1 => i \div 2 \in 1 .. d
      OBVIOUS
    <3> QED
      BY <2>2, <3>1 DEF Opponent
  <2>5. SeedOrder[(j + 1) + 1] \in [1 .. 2 * d -> Int]
    BY <2>3, <2>4
  <2> QED
    BY <2>1, <2>5
<1> HIDE DEF B
<1>13. Nat \subseteq B
  BY <1>11, <1>12, AllNumbers
<1>14. ASSUME NEW k \in Nat \ {0} PROVE SeedOrder[k] \in [1 .. Doubled[k] -> Int]
  <2>1. k - 1 \in Nat /\ (k - 1) + 1 = k
    OBVIOUS
  <2>2. k - 1 \in B
    BY <1>13, <2>1
  <2> QED
    BY <2>1, <2>2, Zenon DEF B
<1> QED
  BY <1>14

(* Nobody has to win a match for the slot. *)
Known(slot) == slot.type \in {"bye", "fixed", "group_placement"}

(* M is a bracket above the first round given, of n filled matches. *)
Above(M, n, first) == n >= 1 /\ Len(first) = n /\ Wired(M, first) /\ Filled(first, n)

(* M is a bracket above a filled first round. *)
Knocked(M) == \E n \in Nat : \E first : Above(M, n, first)

(* A first round of filled matches makes a bracket. *)
LEMMA RoundKnocked ==
  ASSUME NEW p \in Nat, NEW S, NEW first \in [1 .. Doubled[p] -> S],
         \A i \in 1 .. Doubled[p] : \A k \in 1 .. 2 : Known(first[i][k])
  PROVE  Doubled[p] \in Nat /\ Above(wireFedRounds(first), Doubled[p], first)
<1>1. PICK n \in Nat : n = Doubled[p] /\ n >= 1
  <2>1. Doubled[p] \in Nat /\ Doubled[p] > p
    BY Doubling, DoublingGrows, Zenon
  <2>2. PICK n \in Nat : n = Doubled[p]
    BY <2>1
  <2>3. n > p /\ p \in Nat
    BY <2>1, <2>2
  <2>4. n >= 1
    BY <2>3
  <2> QED
    BY <2>2, <2>4
<1>2. Len(first) = n
  BY <1>1, ListMade, Zenon
<1>3. Wired(wireFedRounds(first), first)
  BY <1>1, <1>2, WiredRounds, Zenon DEF FirstRound
<1>4. Filled(first, n)
  BY <1>1, Zenon DEF Filled, Known
<1> QED
  BY <1>1, <1>2, <1>3, <1>4, Zenon DEF Above

(* The matches of the first round hold the slots two by two. *)
Paired(first, n, slots) ==
    \A i \in 1 .. n : \A k \in 1 .. 2 : first[i][k] = slots[2 * i - 2 + k] /\ 2 * i - 2 + k \in 1 .. 2 * n

PairedAbove(M, n, slots) == \E first : Above(M, n, first) /\ Paired(first, n, slots)

(* So do slots two by two. *)
LEMMA SlotsKnocked ==
  ASSUME NEW p \in Nat, NEW S, NEW slots \in [1 .. Doubled[p + 1] -> S],
         \A i \in 1 .. Doubled[p + 1] : Known(slots[i])
  PROVE  Doubled[p] \in Nat /\ PairedAbove(wireFedRounds(InPairs(slots)), Doubled[p], slots)
<1>1. PICK n \in Nat : n = Doubled[p] /\ Doubled[p + 1] = 2 * n
  BY Doubling
<1>2. Len(slots) = 2 * n
  <2>1. 2 * n \in Nat
    OBVIOUS
  <2> QED
    BY <1>1, <2>1, ListMade, Zenon
<1> DEFINE first == InPairs(slots)
<1>3. first = [i \in 1 .. n |-> <<slots[2 * i - 1], slots[2 * i]>>]
  <2>1. (2 * n) \div 2 = n
    OBVIOUS
  <2> QED
    BY <1>2, <2>1, Zenon DEF InPairs
<1> HIDE DEF first
<1>4. ASSUME NEW i \in 1 .. n, NEW k \in 1 .. 2
      PROVE  first[i][k] = slots[2 * i - 2 + k] /\ 2 * i - 2 + k \in 1 .. 2 * n
  <2>1. 2 * i - 2 + k \in 1 .. 2 * n /\ (k = 1 \/ k = 2) /\ 2 * i - 2 + 1 = 2 * i - 1
        /\ 2 * i - 2 + 2 = 2 * i
    OBVIOUS
  <2>2. first[i] = <<slots[2 * i - 1], slots[2 * i]>>
    BY <1>3
  <2>3. first[i][1] = slots[2 * i - 1] /\ first[i][2] = slots[2 * i]
    BY <2>2
  <2> QED
    BY <2>1, <2>3, Zenon
<1>5. first \in [1 .. Doubled[p] -> S \X S]
  <2>1. \A i \in 1 .. n : 2 * i - 1 \in 1 .. 2 * n /\ 2 * i \in 1 .. 2 * n
    OBVIOUS
  <2>2. \A i \in 1 .. n : slots[2 * i - 1] \in S /\ slots[2 * i] \in S
    BY <1>1, <2>1, Zenon
  <2>3. \A i \in 1 .. n : <<slots[2 * i - 1], slots[2 * i]>> \in S \X S
    BY <2>2
  <2> QED
    BY <1>1, <1>3, <2>3
<1>6. \A i \in 1 .. Doubled[p] : \A k \in 1 .. 2 : Known(first[i][k])
  BY <1>1, <1>4, Zenon
<1>7. Above(wireFedRounds(first), Doubled[p], first)
  BY <1>5, <1>6, RoundKnocked, Zenon
<1>8. Paired(first, n, slots)
  BY <1>4, Zenon DEF Paired
<1> QED
  BY <1>1, <1>7, <1>8, Zenon DEF PairedAbove, first

(* What pairSlot and Bye make is known. *)
LEMMA PairSlotKnown == Known(Bye) /\ \A id : Known(pairSlot(id))
  BY DEF Known, Bye, Slot, pairSlot

(* The bracket of 2^(p+1) slots is the least with room for the entries,    *)
(* and they are placed in it by the order of the seeds.                    *)
SeededOn(entries, p) ==
    /\ Len(entries) <= Doubled[p + 1] /\ Doubled[p] < Len(entries)
    /\ \A i \in 1 .. Doubled[p + 1] : Known(placeEntries(entries, SeedOrder[p + 1])[i])
    /\ PairedAbove(GenerateSingleElimination(entries), Doubled[p], placeEntries(entries, SeedOrder[p + 1]))

(* The seeded bracket. *)
LEMMA SeededAbove ==
  ASSUME NEW entries, List(entries), Len(entries) >= 2
  PROVE  \E p \in Nat : SeededOn(entries, p)
<1>1. PICK n \in Nat : n = Len(entries) /\ n >= 2
  BY ListIs
<1>2. PICK q \in Nat : /\ nextPowerOfTwo(n) = Doubled[q] /\ Doubled[q] >= n
                       /\ \A j \in Nat : Doubled[j] >= n => Doubled[q] <= Doubled[j]
  BY NextPower, Zenon
<1>3. q # 0
  BY <1>1, <1>2, Doubling
<1> DEFINE order == SeedOrder[q]
           slots == placeEntries(entries, order)
<1>4. order \in [1 .. Doubled[q] -> Int]
  BY <1>3, SeedOrderPlaces
<1>5. seedPositions(nextPowerOfTwo(n)) = order
  BY <1>2, LogOfPower, Zenon DEF seedPositions
<1> HIDE DEF order
<1>6. GenerateSingleElimination(entries) = wireFedRounds(InPairs(slots))
  <2>1. ~(n < 2)
    BY <1>1
  <2> QED
    BY <1>1, <1>5, <2>1, Zenon DEF GenerateSingleElimination
<1>7. DOMAIN order = 1 .. Doubled[q]
  BY <1>4
<1> DEFINE S == {slots[i] : i \in 1 .. Doubled[q]}
<1>8. slots \in [1 .. Doubled[q] -> S] /\ \A i \in 1 .. Doubled[q] : Known(slots[i])
  <2> DEFINE seeds    == {entries[i].seed : i \in DOMAIN entries} \ {0}
             bySeed(s) == LET held == {i \in DOMAIN entries : entries[i].seed = s}
                          IN  CHOOSE i \in held : \A j \in held : j <= i
             unseeded == Kept(entries, LAMBDA e : e.seed = 0)
             Free(k)  == Cardinality({j \in 1 .. k : order[j] \notin seeds})
             e(k) == CASE order[k] \in seeds       -> pairSlot(entries[bySeed(order[k])].id)
                       [] order[k] \notin seeds /\ Free(k) <= Len(unseeded) -> pairSlot(unseeded[Free(k)].id)
                       [] OTHER                    -> Bye
  <2>1. slots = [k \in DOMAIN order |-> e(k)]
    BY DEF placeEntries
  <2>2. \A k : Known(e(k))
    <3> SUFFICES ASSUME NEW k PROVE Known(e(k))
      OBVIOUS
    <3>1. CASE order[k] \in seeds
      <4>1. e(k) = pairSlot(entries[bySeed(order[k])].id)
        <5> HIDE DEF seeds, Free, unseeded, bySeed
        <5> QED
          BY <3>1
      <4> HIDE DEF e
      <4> QED
        BY <4>1, PairSlotKnown, Zenon
    <3>2. CASE order[k] \notin seeds /\ Free(k) <= Len(unseeded)
      <4>1. e(k) = pairSlot(unseeded[Free(k)].id)
        <5> HIDE DEF seeds, Free, unseeded, bySeed
        <5> QED
          BY <3>2
      <4> HIDE DEF e
      <4> QED
        BY <4>1, PairSlotKnown, Zenon
    <3>3. CASE order[k] \notin seeds /\ ~(Free(k) <= Len(unseeded))
      <4>1. e(k) = Bye
        <5> HIDE DEF seeds, Free, unseeded, bySeed
        <5> QED
          BY <3>3
      <4> HIDE DEF e
      <4> QED
        BY <4>1, PairSlotKnown, Zenon
    <3> HIDE DEF e, seeds, Free, unseeded
    <3> QED
      BY <3>1, <3>2, <3>3
  <2> HIDE DEF e, slots
  <2>3. \A i \in 1 .. Doubled[q] : slots[i] = e(i)
    BY <1>7, <2>1
  <2>4. slots = [i \in 1 .. Doubled[q] |-> slots[i]]
    BY <1>7, <2>1
  <2>5. slots \in [1 .. Doubled[q] -> S]
    <3>1. [i \in 1 .. Doubled[q] |-> slots[i]] \in [1 .. Doubled[q] -> S]
      OBVIOUS
    <3> HIDE DEF S
    <3> QED
      BY <2>4, <3>1
  <2> QED
    BY <2>2, <2>3, <2>5, Zenon
<1> HIDE DEF slots, S
<1>9. PICK p \in Nat : q = p + 1
  <2>1. q - 1 \in Nat /\ q = (q - 1) + 1
    BY <1>3
  <2> QED
    BY <2>1
<1>10. Doubled[p] \in Nat /\ PairedAbove(wireFedRounds(InPairs(slots)), Doubled[p], slots)
  BY <1>8, <1>9, SlotsKnocked, Zenon
<1>11. Doubled[p] < n
  <2>1. PICK d \in Nat : d = Doubled[p] /\ Doubled[p + 1] = 2 * d
    BY Doubling
  <2>2. Doubled[p] > p
    BY DoublingGrows
  <2>3. ~(2 * d <= d)
    BY <2>1, <2>2
  <2>4. ~(d >= n)
    BY <1>2, <1>9, <2>1, <2>3, Zenon
  <2> QED
    BY <2>1, <2>4
<1>12. n <= Doubled[p + 1]
  <2>1. PICK e \in Nat : e = Doubled[q]
    BY Doubling
  <2>2. n <= e
    BY <1>2, <2>1
  <2> QED
    BY <1>9, <2>1, <2>2, Zenon
<1>13. slots = placeEntries(entries, SeedOrder[p + 1])
  BY <1>9, Zenon DEF slots, order
<1> QED
  BY <1>1, <1>6, <1>8, <1>9, <1>10, <1>11, <1>12, <1>13, Zenon DEF SeededOn

(* It is a bracket. *)
LEMMA SeededKnocked ==
  ASSUME NEW entries, List(entries), Len(entries) >= 2
  PROVE  Knocked(GenerateSingleElimination(entries))
<1>1. PICK p \in Nat : SeededOn(entries, p)
  BY SeededAbove, Zenon
<1>2. Doubled[p] \in Nat
  BY Doubling
<1> QED
  BY <1>1, <1>2, Zenon DEF SeededOn, Knocked, PairedAbove

(* The elements of a list at the places in E, in order. *)
Picked(s, E) == FlattenSeq([i \in DOMAIN s |-> IF i \in E THEN <<s[i]>> ELSE <<>>])

(* What is picked from a list is a list, and nothing is put into it. *)
LEMMA PickedList ==
  ASSUME NEW s, List(s), NEW E
  PROVE  /\ List(Picked(s, E))
         /\ \A m \in 1 .. Len(Picked(s, E)) : \E i \in 1 .. Len(s) : i \in E /\ Picked(s, E)[m] = s[i]
<1>1. PICK n \in Nat : n = Len(s) /\ DOMAIN s = 1 .. n
  BY ListIs, Zenon
<1> DEFINE e(i) == IF i \in E THEN <<s[i]>> ELSE <<>>
           ss == [i \in 1 .. n |-> e(i)]
<1>2. Picked(s, E) = FlattenSeq(ss)
  BY <1>1, Zenon DEF Picked
<1>3. ASSUME NEW i \in 1 .. n PROVE ss[i] = e(i) /\ List(ss[i])
  <2>1. ss[i] = e(i)
    <3> HIDE DEF e
    <3> QED
      OBVIOUS
  <2>2. CASE i \in E
    <3>1. e(i) = <<s[i]>>
      BY <2>2
    <3> HIDE DEF e, ss
    <3> QED
      BY <2>1, <3>1, OneItem, Zenon
  <2>3. CASE i \notin E
    <3>1. e(i) = <<>>
      BY <2>3
    <3> HIDE DEF e, ss
    <3> QED
      BY <2>1, <3>1, NoItems, Zenon
  <2> QED
    BY <2>2, <2>3
<1>4. Lists(n, ss)
  <2>1. ss = [i \in 1 .. n |-> ss[i]]
    <3> HIDE DEF e
    <3> QED
      OBVIOUS
  <2> HIDE DEF ss, e
  <2> QED
    BY <1>3, <2>1, Zenon DEF Lists
<1> HIDE DEF ss
<1>5. List(FlattenSeq(ss)) /\ \E off : LaidOut(n, ss, FlattenSeq(ss), off)
  BY <1>4, FlattenedLists, Zenon
<1>6. ASSUME NEW m \in 1 .. Len(FlattenSeq(ss))
      PROVE  \E i \in 1 .. n : i \in E /\ FlattenSeq(ss)[m] = s[i]
  <2>1. PICK i \in 1 .. n : \E k \in 1 .. Len(ss[i]) : FlattenSeq(ss)[m] = ss[i][k]
    BY <1>5, Zenon DEF LaidOut
  <2>2. PICK k \in 1 .. Len(ss[i]) : FlattenSeq(ss)[m] = ss[i][k]
    BY <2>1
  <2>3. i \in E
    <3> SUFFICES ASSUME i \notin E PROVE FALSE
      OBVIOUS
    <3>1. ss[i] = <<>>
      BY <1>3
    <3>2. Len(ss[i]) = 0
      BY <3>1, NoItems, Zenon
    <3> QED
      BY <3>2
  <2>4. ss[i] = <<s[i]>>
    BY <1>3, <2>3
  <2>5. Len(ss[i]) = 1 /\ ss[i][1] = s[i]
    BY <2>4, OneItem, Zenon
  <2>6. k = 1
    BY <2>5
  <2> QED
    BY <2>2, <2>3, <2>5, <2>6, Zenon
<1> QED
  BY <1>1, <1>2, <1>5, <1>6, Zenon

(* A draw from pairs is a bracket, if any pair is left. *)
LEMMA PairsKnocked ==
  ASSUME NEW pairs, List(pairs)
  PROVE  GenerateFromPairs(pairs) = <<>> \/ Knocked(GenerateFromPairs(pairs))
<1> DEFINE cleaned == Kept(pairs, LAMBDA p : p # <<0, 0>>)
<1>1. cleaned = Picked(pairs, {i \in DOMAIN pairs : pairs[i] # <<0, 0>>})
  <2>1. [i \in DOMAIN pairs |-> IF pairs[i] # <<0, 0>> THEN <<pairs[i]>> ELSE <<>>]
        = [i \in DOMAIN pairs |-> IF i \in {j \in DOMAIN pairs : pairs[j] # <<0, 0>>}
                                  THEN <<pairs[i]>> ELSE <<>>]
    BY Zenon
  <2> QED
    BY <2>1, Zenon DEF Kept, Picked
<1>2. List(cleaned)
  <2> HIDE DEF cleaned
  <2> QED
    BY <1>1, PickedList, Zenon
<1> DEFINE size == nextPowerOfTwo(Len(cleaned))
           e(i) == IF i <= Len(cleaned) THEN <<pairSlot(cleaned[i][1]), pairSlot(cleaned[i][2])>>
                   ELSE <<Bye, Bye>>
           first == [i \in 1 .. size |-> e(i)]
<1>3. GenerateFromPairs(pairs) = IF cleaned = <<>> THEN <<>> ELSE wireFedRounds(first)
  BY Zenon DEF GenerateFromPairs
<1> HIDE DEF cleaned
<1>4. PICK p \in Nat : size = Doubled[p]
  <2>1. Len(cleaned) \in Nat
    BY <1>2, ListIs, Zenon
  <2> QED
    BY <2>1, NextPower, Zenon
<1>5. \A i : \A k \in 1 .. 2 : Known(e(i)[k])
  <2> SUFFICES ASSUME NEW i, NEW k \in 1 .. 2 PROVE Known(e(i)[k])
    OBVIOUS
  <2>0. k = 1 \/ k = 2
    OBVIOUS
  <2>1. CASE i <= Len(cleaned)
    <3>1. PICK x, y : x = pairSlot(cleaned[i][1]) /\ y = pairSlot(cleaned[i][2])
      OBVIOUS
    <3>2. e(i) = <<x, y>>
      BY <2>1, <3>1
    <3>3. Known(x) /\ Known(y)
      BY <3>1, PairSlotKnown, Zenon
    <3>4. <<x, y>>[1] = x /\ <<x, y>>[2] = y
      OBVIOUS
    <3> HIDE DEF e
    <3> QED
      BY <2>0, <3>2, <3>3, <3>4, Zenon
  <2>2. CASE ~(i <= Len(cleaned))
    <3>1. e(i) = <<Bye, Bye>>
      BY <2>2
    <3>2. <<Bye, Bye>>[1] = Bye /\ <<Bye, Bye>>[2] = Bye
      OBVIOUS
    <3> HIDE DEF e
    <3> QED
      BY <2>0, <3>1, <3>2, PairSlotKnown, Zenon
  <2> QED
    BY <2>1, <2>2
<1> DEFINE S == {e(i) : i \in 1 .. Doubled[p]}
<1>6. first \in [1 .. Doubled[p] -> S] /\ \A i \in 1 .. Doubled[p] : first[i] = e(i)
  <2> HIDE DEF e
  <2> QED
    BY <1>4
<1> HIDE DEF e, S, first, size
<1>7. Knocked(wireFedRounds(first))
  <2>1. Doubled[p] \in Nat /\ Above(wireFedRounds(first), Doubled[p], first)
    BY <1>5, <1>6, RoundKnocked, Zenon
  <2> QED
    BY <2>1, Zenon DEF Knocked
<1> QED
  BY <1>3, <1>7, Zenon

(* The first round holds the slots two by two, and then byes. *)
PaddedRound(first, n, slots) ==
    /\ Len(slots) <= 2 * n
    /\ \A i \in 1 .. n : \A k \in 1 .. 2 :
          /\ 2 * i - 2 + k <= Len(slots) => first[i][k] = slots[2 * i - 2 + k]
          /\ ~(2 * i - 2 + k <= Len(slots)) => first[i][k] = Bye

SeatsAbove(M, slots) == \E n \in Nat : \E first : Above(M, n, first) /\ PaddedRound(first, n, slots)

(* So is the knockout above a list of two or more slots. *)
LEMMA PaddedKnocked ==
  ASSUME NEW slots, List(slots), Len(slots) >= 2, \A i \in 1 .. Len(slots) : Known(slots[i])
  PROVE  SeatsAbove(buildKnockoutFromSlots(slots), slots)
<1>1. PICK n \in Nat : n = Len(slots) /\ n >= 2
  BY ListIs
<1>2. PICK q \in Nat : nextPowerOfTwo(n) = Doubled[q] /\ Doubled[q] >= n
  BY NextPower, Zenon
<1>3. q # 0
  BY <1>1, <1>2, Doubling
<1>4. PICK p \in Nat : q = p + 1
  <2>1. q - 1 \in Nat /\ q = (q - 1) + 1
    BY <1>3
  <2> QED
    BY <2>1
<1> DEFINE e(i) == IF i <= n THEN slots[i] ELSE Bye
           padded == [i \in 1 .. Doubled[p + 1] |-> e(i)]
           S == {e(i) : i \in 1 .. Doubled[p + 1]}
<1>5. buildKnockoutFromSlots(slots) = wireFedRounds(InPairs(padded))
  BY <1>1, <1>2, <1>4, Zenon DEF buildKnockoutFromSlots
<1>6. \A i \in 1 .. Doubled[p + 1] : Known(e(i))
  <2> SUFFICES ASSUME NEW i \in 1 .. Doubled[p + 1] PROVE Known(e(i))
    OBVIOUS
  <2>1. CASE i <= n
    <3>1. i \in 1 .. n
      <4>1. PICK d \in Nat : d = Doubled[p + 1]
        <5>1. p + 1 \in Nat
          OBVIOUS
        <5> QED
          BY <5>1, Doubling, Zenon
      <4> QED
        BY <2>1, <4>1
    <3>2. Known(slots[i])
      BY <1>1, <3>1, Zenon
    <3>3. e(i) = slots[i]
      BY <2>1
    <3> QED
      BY <3>2, <3>3, Zenon
  <2>2. CASE ~(i <= n)
    <3>1. e(i) = Bye
      BY <2>2
    <3> QED
      BY <3>1, PairSlotKnown, Zenon
  <2> QED
    BY <2>1, <2>2
<1>7. padded \in [1 .. Doubled[p + 1] -> S] /\ \A i \in 1 .. Doubled[p + 1] : padded[i] = e(i)
  <2> HIDE DEF e
  <2> QED
    OBVIOUS
<1>8. \A i \in 1 .. Doubled[p + 1] : /\ i <= n => padded[i] = slots[i]
                                     /\ ~(i <= n) => padded[i] = Bye
  <2> HIDE DEF padded
  <2> QED
    BY <1>7
<1> HIDE DEF e, S, padded
<1>9. Doubled[p] \in Nat /\ PairedAbove(wireFedRounds(InPairs(padded)), Doubled[p], padded)
  BY <1>6, <1>7, SlotsKnocked, Zenon
<1>10. PICK d \in Nat : d = Doubled[p] /\ 2 * d = Doubled[p + 1]
  BY <1>9, Doubling
<1>11. PICK first : Above(wireFedRounds(InPairs(padded)), d, first) /\ Paired(first, d, padded)
  BY <1>9, <1>10, Zenon DEF PairedAbove
<1>12. n <= 2 * d
  BY <1>2, <1>4, <1>10
<1>13. PaddedRound(first, d, slots)
  <2> SUFFICES ASSUME NEW i \in 1 .. d, NEW k \in 1 .. 2
               PROVE  /\ 2 * i - 2 + k <= n => first[i][k] = slots[2 * i - 2 + k]
                      /\ ~(2 * i - 2 + k <= n) => first[i][k] = Bye
    BY <1>1, <1>12, Zenon DEF PaddedRound
  <2>1. first[i][k] = padded[2 * i - 2 + k] /\ 2 * i - 2 + k \in 1 .. 2 * d
    BY <1>11, Zenon DEF Paired
  <2> QED
    BY <1>8, <1>10, <2>1, Zenon
<1> QED
  BY <1>5, <1>11, <1>13, Zenon DEF SeatsAbove

(* Such a knockout is a bracket. *)
LEMMA SeatsKnocked == ASSUME NEW M, NEW slots, SeatsAbove(M, slots) PROVE Knocked(M)
  BY Zenon DEF SeatsAbove, Knocked

----------------------------------------------------------------------------
(* Round robins *)

(* A part lies within the whole. *)
LEMMA LaidWithin ==
  ASSUME NEW N \in Nat, NEW ss, Lists(N, ss), NEW flat, NEW off, LaidOut(N, ss, flat, off)
  PROVE  \A r \in 1 .. N : \A k \in 1 .. Len(ss[r]) : off[r] + k \in 1 .. Len(flat)
<1> DEFINE lens == [r \in 1 .. N |-> Len(ss[r])]
<1>1. Offsets(N, lens, off) /\ Len(flat) = off[N + 1]
  BY Zenon DEF LaidOut
<1>2. \A r \in 1 .. N : lens[r] \in Nat /\ lens[r] = Len(ss[r])
  <2>1. \A r \in 1 .. N : lens[r] = Len(ss[r])
    OBVIOUS
  <2>2. \A r \in 1 .. N : Len(ss[r]) \in Nat
    BY ListIs, Zenon DEF Lists
  <2> HIDE DEF lens
  <2> QED
    BY <2>1, <2>2, Zenon
<1> HIDE DEF lens
<1>3. PICK len : len = lens
  OBVIOUS
<1>4. /\ \A r \in 1 .. N + 1 : off[r] \in Nat
      /\ \A r \in 1 .. N : off[r + 1] = off[r] + len[r]
      /\ \A r, q \in 1 .. N + 1 : r <= q => off[r] <= off[q]
  BY <1>1, <1>2, <1>3, OffsetsGrow, Zenon
<1> SUFFICES ASSUME NEW r \in 1 .. N, NEW k \in 1 .. Len(ss[r])
             PROVE  off[r] + k \in 1 .. Len(flat)
  OBVIOUS
<1>5. r \in 1 .. N + 1 /\ r + 1 \in 1 .. N + 1 /\ N + 1 \in 1 .. N + 1 /\ r + 1 <= N + 1
  OBVIOUS
<1>6. PICK l \in Nat : l = Len(ss[r])
  BY <1>2
<1>7. PICK x \in Nat, y \in Nat : x = off[r] /\ y = off[N + 1] /\ x + l <= y
  <2>1. off[r] \in Nat /\ off[N + 1] \in Nat /\ off[r + 1] = off[r] + l /\ off[r + 1] <= off[N + 1]
    BY <1>2, <1>3, <1>4, <1>5, <1>6
  <2> QED
    BY <2>1
<1>8. PICK i \in Nat : i = k /\ 1 <= i /\ i <= l
  BY <1>6
<1>9. x + i \in 1 .. y
  <2>1. x + l <= y
    BY <1>7, Zenon
  <2>2. 1 <= i /\ i <= l
    BY <1>8, Zenon
  <2> QED
    BY <2>1, <2>2
<1> QED
  BY <1>1, <1>7, <1>8, <1>9, Zenon

(* at says where the elements of s at the places in E are in t, which has  *)
(* nothing else.                                                           *)
Found(t, s, E, at) ==
    /\ \A i \in E : at[i] \in 1 .. Len(t) /\ t[at[i]] = s[i]
    /\ \A m \in 1 .. Len(t) : \E i \in E : at[i] = m

(* Every element picked has a place. *)
LEMMA PickedAt ==
  ASSUME NEW s, List(s), NEW E, E \subseteq 1 .. Len(s)
  PROVE  List(Picked(s, E)) /\ \E at : Found(Picked(s, E), s, E, at)
<1>1. PICK n \in Nat : n = Len(s) /\ DOMAIN s = 1 .. n
  BY ListIs, Zenon
<1> DEFINE e(i) == IF i \in E THEN <<s[i]>> ELSE <<>>
           ss == [i \in 1 .. n |-> e(i)]
<1>2. Picked(s, E) = FlattenSeq(ss)
  BY <1>1, Zenon DEF Picked
<1>3. \A i \in 1 .. n : ss[i] = e(i)
  <2> HIDE DEF e
  <2> QED
    OBVIOUS
<1>4. ASSUME NEW i \in 1 .. n, i \in E
      PROVE  ss[i] = <<s[i]>> /\ Len(ss[i]) = 1 /\ ss[i][1] = s[i] /\ List(ss[i])
  <2>1. ss[i] = <<s[i]>>
    <3>1. e(i) = <<s[i]>>
      BY <1>4
    <3> HIDE DEF e, ss
    <3> QED
      BY <1>3, <3>1, Zenon
  <2> HIDE DEF e, ss
  <2> QED
    BY <2>1, OneItem, Zenon
<1>5. ASSUME NEW i \in 1 .. n, i \notin E
      PROVE  ss[i] = <<>> /\ Len(ss[i]) = 0 /\ List(ss[i])
  <2>1. ss[i] = <<>>
    <3>1. e(i) = <<>>
      BY <1>5
    <3> HIDE DEF e, ss
    <3> QED
      BY <1>3, <3>1, Zenon
  <2> HIDE DEF e, ss
  <2> QED
    BY <2>1, NoItems, Zenon
<1>6. Lists(n, ss)
  <2>1. ss = [i \in 1 .. n |-> ss[i]]
    <3> HIDE DEF e
    <3> QED
      OBVIOUS
  <2> HIDE DEF ss, e
  <2>2. \A i \in 1 .. n : List(ss[i])
    BY <1>4, <1>5, Zenon
  <2> QED
    BY <2>1, <2>2, Zenon DEF Lists
<1> HIDE DEF ss
<1> DEFINE flat == FlattenSeq(ss)
<1>7. List(flat)
  BY <1>6, FlattenedLists, Zenon
<1>8. PICK off : LaidOut(n, ss, flat, off)
  BY <1>6, FlattenedLists, Zenon
<1> HIDE DEF flat
<1> DEFINE at == [i \in E |-> off[i] + 1]
<1>9. ASSUME NEW i \in E PROVE at[i] \in 1 .. Len(flat) /\ flat[at[i]] = s[i]
  <2>1. i \in 1 .. n
    BY <1>1, Zenon
  <2>2. 1 \in 1 .. Len(ss[i])
    <3>1. Len(ss[i]) = 1
      BY <1>4, <2>1, Zenon
    <3> QED
      BY <3>1
  <2>3. off[i] + 1 \in 1 .. Len(flat)
    BY <1>6, <1>8, <2>1, <2>2, LaidWithin, Zenon
  <2>4. flat[off[i] + 1] = s[i]
    BY <1>4, <1>8, <2>1, <2>2, Zenon DEF LaidOut
  <2> QED
    BY <2>3, <2>4
<1>10. ASSUME NEW m \in 1 .. Len(flat) PROVE \E i \in E : at[i] = m
  <2>1. PICK i \in 1 .. n : \E k \in 1 .. Len(ss[i]) : m = off[i] + k
    BY <1>8, Zenon DEF LaidOut
  <2>2. PICK k \in 1 .. Len(ss[i]) : m = off[i] + k
    BY <2>1
  <2>3. i \in E
    <3> SUFFICES ASSUME i \notin E PROVE FALSE
      OBVIOUS
    <3>1. Len(ss[i]) = 0
      BY <1>5, Zenon
    <3> QED
      BY <3>1
  <2>4. k = 1
    <3>1. Len(ss[i]) = 1
      BY <1>4, <2>3, Zenon
    <3> QED
      BY <3>1
  <2> QED
    BY <2>2, <2>3, <2>4
<1> HIDE DEF at
<1>11. Found(flat, s, E, at)
  BY <1>9, <1>10, Zenon DEF Found
<1> QED
  BY <1>2, <1>7, <1>11, Zenon DEF flat

(* Where the element in place k comes from after r turns of n. *)
Shifted(n, r, k) == IF k = 1 THEN 1 ELSE IF k - r >= 2 THEN k - r ELSE k - r + n - 1

Turned(n, idx, r) == [k \in 1 .. n |-> idx[Shifted(n, r, k)]]

(* y is x turned once. *)
Once(n, S, x, y) ==
    /\ y \in [1 .. n -> S]
    /\ \A k \in 1 .. n : y[k] = IF k = 1 THEN x[1] ELSE IF k = 2 THEN x[n] ELSE x[k - 1]

(* One turn of a list. *)
LEMMA OneTurn ==
  ASSUME NEW S, NEW n \in Nat, n >= 2, NEW x \in [1 .. n -> S]
  PROVE  Once(n, S, x, Rotate(x))
<1>1. DOMAIN x = 1 .. n
  OBVIOUS
<1>2. Len(x) = n
  BY Numbered, Zenon
<1> DEFINE e(k) == IF k = 1 THEN x[1] ELSE IF k = 2 THEN x[n] ELSE x[k - 1]
<1>3. Rotate(x) = [k \in 1 .. n |-> e(k)]
  BY <1>1, <1>2, Zenon DEF Rotate
<1>4. \A k \in 1 .. n : e(k) \in S
  <2> SUFFICES ASSUME NEW k \in 1 .. n PROVE e(k) \in S
    OBVIOUS
  <2>1. 1 \in 1 .. n /\ n \in 1 .. n /\ (k # 1 => k - 1 \in 1 .. n)
    OBVIOUS
  <2> QED
    BY <2>1
<1>5. Rotate(x) \in [1 .. n -> S] /\ \A k \in 1 .. n : Rotate(x)[k] = e(k)
  <2> HIDE DEF e
  <2> QED
    BY <1>3, <1>4
<1> QED
  BY <1>5, Zenon DEF Once

(* turned[r] is the list after r turns. *)
Turns(S, n, idx, turned) ==
    /\ \A r \in Nat : turned[r] \in [1 .. n -> S]
    /\ \A r \in 0 .. n - 2 : turned[r] = Turned(n, idx, r)

(* The list after r turns, less than a full round of them. *)
LEMMA RotationsAre ==
  ASSUME NEW S, NEW n \in Nat, n >= 2, NEW idx \in [1 .. n -> S]
  PROVE  Turns(S, n, idx, Rotations(idx))
<1> DEFINE X == [1 .. n -> S]
           step == [a \in Nat \X X |-> Rotate(a[2])]
           Right(g) == g = [r \in Nat |-> IF r = 0 THEN idx ELSE Rotate(g[r - 1])]
<1>1. \A x \in X : Rotate(x) \in X
  BY OneTurn, Zenon DEF Once
<1>2. idx \in X
  OBVIOUS
<1> HIDE DEF X
<1>3. Steps(X, idx, step)
  <2>1. \A k \in Nat : \A x \in X : step[<<k, x>>] = Rotate(x)
    OBVIOUS
  <2> HIDE DEF step
  <2> QED
    BY <1>1, <1>2, <2>1, Zenon DEF Steps
<1>4. PICK f : Follows(f, X, idx, step)
  <2> HIDE DEF step
  <2> QED
    BY <1>3, Recursion, Zenon
<1>5. f[0] = idx /\ \A k \in Nat : f[k] \in X /\ f[k + 1] = Rotate(f[k])
  <2>1. f[0] = idx /\ \A k \in Nat : f[k] \in X /\ f[k + 1] = step[<<k, f[k]>>]
    <3> HIDE DEF step
    <3> QED
      BY <1>4, Zenon DEF Follows
  <2> QED
    BY <2>1
<1> DEFINE h == [k \in Nat |-> f[k]]
           e(r) == IF r = 0 THEN idx ELSE Rotate(h[r - 1])
<1>6. \A r \in Nat : f[r] = e(r)
  <2> SUFFICES ASSUME NEW r \in Nat PROVE f[r] = e(r)
    OBVIOUS
  <2>1. CASE r = 0
    BY <1>5, <2>1
  <2>2. CASE r # 0
    <3>1. PICK j \in Nat : j = r - 1 /\ j + 1 = r
      <4>1. r - 1 \in Nat
        BY <2>2
      <4> QED
        BY <4>1
    <3> QED
      BY <1>5, <2>2, <3>1
  <2> QED
    BY <2>1, <2>2
<1>7. Right(h)
  <2>1. h = [r \in Nat |-> e(r)]
    <3> HIDE DEF e
    <3> QED
      BY <1>6
  <2> HIDE DEF h
  <2> QED
    BY <2>1
<1>8. Right(Rotations(idx))
  <2>1. Right(CHOOSE g : Right(g))
    <3> HIDE DEF Right, h
    <3> QED
      BY <1>7, Zenon
  <2> QED
    BY <2>1, Zenon DEF Rotations
<1>9. \A r \in Nat : Rotations(idx)[r] = IF r = 0 THEN idx ELSE Rotate(Rotations(idx)[r - 1])
  BY <1>8, Zenon
<1>10. PICK R : R = Rotations(idx)
  OBVIOUS
<1>11. R[0] = idx /\ \A r \in Nat : R[r + 1] = Rotate(R[r])
  <2>1. \A r \in Nat : r + 1 \in Nat /\ r + 1 # 0 /\ (r + 1) - 1 = r
    OBVIOUS
  <2>2. 0 \in Nat
    OBVIOUS
  <2> QED
    BY <1>9, <1>10, <2>1, <2>2, Zenon
<1> DEFINE B == {r \in Nat : R[r] \in X}
           C == {r \in Nat : r <= n - 2 => R[r] = Turned(n, idx, r)}
<1>12. Nat \subseteq B
  <2>1. 0 \in B
    BY <1>2, <1>11
  <2>2. ASSUME NEW r \in Nat, r \in B PROVE r + 1 \in B
    <3>1. r + 1 \in Nat
      OBVIOUS
    <3> QED
      BY <1>1, <1>11, <2>2, <3>1, Zenon
  <2> HIDE DEF B
  <2> QED
    BY <2>1, <2>2, AllNumbers
<1>13. Nat \subseteq C
  <2>1. 0 \in C
    <3>1. Turned(n, idx, 0) = idx
      <4>1. \A k \in 1 .. n : Shifted(n, 0, k) = k
        BY DEF Shifted
      <4>2. Turned(n, idx, 0) = [k \in 1 .. n |-> idx[k]]
        BY <4>1, Zenon DEF Turned
      <4> QED
        BY <4>2
    <3> QED
      BY <1>11, <3>1
  <2>2. ASSUME NEW r \in Nat, r \in C PROVE r + 1 \in C
    <3> SUFFICES ASSUME r + 1 <= n - 2 PROVE R[r + 1] = Turned(n, idx, r + 1)
      OBVIOUS
    <3>1. R[r] = Turned(n, idx, r) /\ R[r] \in [1 .. n -> S]
      BY <1>12, <2>2 DEF X
    <3>2. /\ R[r + 1] \in [1 .. n -> S]
          /\ \A k \in 1 .. n : R[r + 1][k] = IF k = 1 THEN R[r][1] ELSE IF k = 2 THEN R[r][n]
                                             ELSE R[r][k - 1]
      <4>1. PICK x \in [1 .. n -> S] : x = R[r]
        BY <3>1, Zenon
      <4>2. R[r + 1] = Rotate(x)
        BY <1>11, <4>1, Zenon
      <4>3. Once(n, S, x, Rotate(x))
        BY OneTurn, Zenon
      <4> QED
        BY <4>1, <4>2, <4>3, Zenon DEF Once
    <3>3. ASSUME NEW k \in 1 .. n PROVE R[r + 1][k] = idx[Shifted(n, r + 1, k)]
      <4>1. \A j \in 1 .. n : R[r][j] = idx[Shifted(n, r, j)]
        BY <3>1, Zenon DEF Turned
      <4>2. CASE k = 1
        <5>1. Shifted(n, r, 1) = 1 /\ Shifted(n, r + 1, 1) = 1 /\ 1 \in 1 .. n
          BY DEF Shifted
        <5>2. R[r + 1][1] = R[r][1]
          BY <3>2, <5>1, Zenon
        <5>3. R[r][1] = idx[1]
          <6>1. R[r][1] = idx[Shifted(n, r, 1)]
            BY <4>1, <5>1, Zenon
          <6> QED
            BY <5>1, <6>1, Zenon
        <5> QED
          BY <4>2, <5>1, <5>2, <5>3, Zenon
      <4>3. CASE k = 2
        <5>1. Shifted(n, r, n) = n - r /\ Shifted(n, r + 1, 2) = n - r /\ n \in 1 .. n /\ 2 # 1
          BY DEF Shifted
        <5>2. R[r + 1][2] = R[r][n]
          <6>1. 2 \in 1 .. n
            OBVIOUS
          <6> QED
            BY <3>2, <5>1, <6>1, Zenon
        <5>3. R[r][n] = idx[n - r]
          <6>1. R[r][n] = idx[Shifted(n, r, n)]
            BY <4>1, <5>1, Zenon
          <6> QED
            BY <5>1, <6>1, Zenon
        <5> QED
          BY <4>3, <5>1, <5>2, <5>3, Zenon
      <4>4. CASE k # 1 /\ k # 2
        <5>1. k - 1 \in 1 .. n /\ Shifted(n, r, k - 1) = Shifted(n, r + 1, k)
          BY <4>4 DEF Shifted
        <5>2. R[r + 1][k] = R[r][k - 1]
          BY <3>2, <4>4, Zenon
        <5>3. R[r][k - 1] = idx[Shifted(n, r, k - 1)]
          BY <4>1, <5>1, Zenon
        <5> QED
          BY <5>1, <5>2, <5>3, Zenon
      <4> QED
        BY <4>2, <4>3, <4>4
    <3>4. R[r + 1] = [k \in 1 .. n |-> R[r + 1][k]]
      BY <3>2
    <3> QED
      BY <3>3, <3>4, Zenon DEF Turned
  <2> HIDE DEF C
  <2> QED
    BY <2>1, <2>2, AllNumbers
<1>14. \A r \in 0 .. n - 2 : r \in Nat /\ r <= n - 2
  OBVIOUS
<1> QED
  BY <1>10, <1>12, <1>13, <1>14, Zenon DEF X, Turns

(* x is the match of a and b in round r. *)
Meeting(x, r, a, b) == \E pos : x = MatchOf(r, pos, <<pairSlot(a), pairSlot(b)>>, 0, 0)

(* Two teams, and no bye, sit in places a and b of idx. *)
Sit(idx, a, b) == idx[a] # 0 /\ idx[b] # 0

(* M is a round of idx: at says which match the seats k and n + 1 - k are. *)
RoundMade(M, r, n, h, idx, at) ==
    /\ List(M)
    /\ \A k \in 1 .. h : Sit(idx, k, n + 1 - k) =>
          at[k] \in 1 .. Len(M) /\ Meeting(M[at[k]], r, idx[k], idx[n + 1 - k])
    /\ \A m \in 1 .. Len(M) : \E k \in 1 .. h : Sit(idx, k, n + 1 - k) /\ at[k] = m

(* A round is made of the seats opposite each other. *)
LEMMA RoundIs ==
  ASSUME NEW S, NEW h \in Nat, NEW n \in Nat, n = 2 * h, NEW idx \in [1 .. n -> S], NEW r
  PROVE  \E at : RoundMade(RoundOf(r, idx), r, n, h, idx, at)
<1>1. Len(idx) = n
  BY Numbered, Zenon
<1>2. n \div 2 = h
  OBVIOUS
<1> DEFINE pair(k) == <<idx[k], idx[n + 1 - k]>>
           pairs == [k \in 1 .. h |-> pair(k)]
           E == {k \in 1 .. h : Sit(idx, k, n + 1 - k)}
           met == Picked(pairs, E)
           x(i) == MatchOf(r, i - 1, <<pairSlot(met[i][1]), pairSlot(met[i][2])>>, 0, 0)
<1>3. /\ DOMAIN pairs = 1 .. h /\ \A k \in 1 .. h : pairs[k] = pair(k)
      /\ pairs \in [1 .. h -> {pair(k) : k \in 1 .. h}]
  <2> HIDE DEF pair
  <2> QED
    OBVIOUS
<1>4. Kept(pairs, LAMBDA p : p[1] # 0 /\ p[2] # 0) = met
  <2>1. \A k \in 1 .. h : k \in E <=> (pairs[k][1] # 0 /\ pairs[k][2] # 0)
    <3> SUFFICES ASSUME NEW k \in 1 .. h PROVE k \in E <=> (pairs[k][1] # 0 /\ pairs[k][2] # 0)
      OBVIOUS
    <3>1. pairs[k][1] = idx[k] /\ pairs[k][2] = idx[n + 1 - k]
      BY <1>3
    <3> HIDE DEF pairs
    <3> QED
      BY <3>1, Zenon DEF Sit
  <2> DEFINE P(p) == p[1] # 0 /\ p[2] # 0
  <2>2. \A k \in DOMAIN pairs : k \in E <=> P(pairs[k])
    BY <1>3, <2>1, Zenon
  <2>3. [k \in DOMAIN pairs |-> IF P(pairs[k]) THEN <<pairs[k]>> ELSE <<>>]
        = [k \in DOMAIN pairs |-> IF k \in E THEN <<pairs[k]>> ELSE <<>>]
    <3> HIDE DEF pairs, E, P
    <3> QED
      BY <2>2, Zenon
  <2> QED
    BY <2>3, Zenon DEF Kept, Picked
<1>5. RoundOf(r, idx) = [i \in DOMAIN met |-> x(i)]
  <2>1. RoundOf(r, idx) =
           LET k == Kept(pairs, LAMBDA p : p[1] # 0 /\ p[2] # 0)
           IN  [i \in DOMAIN k |-> MatchOf(r, i - 1, <<pairSlot(k[i][1]), pairSlot(k[i][2])>>, 0, 0)]
    BY <1>1, <1>2, Zenon DEF RoundOf
  <2> HIDE DEF met, pairs
  <2> QED
    BY <1>4, <2>1
<1>6. List(pairs) /\ Len(pairs) = h
  <2> HIDE DEF pairs
  <2> QED
    BY <1>3, ListMade, Zenon
<1>7. E \subseteq 1 .. Len(pairs)
  BY <1>6
<1> HIDE DEF pairs, E
<1>8. List(met) /\ \E at : Found(met, pairs, E, at)
  BY <1>6, <1>7, PickedAt, Zenon
<1>9. PICK at : Found(met, pairs, E, at)
  BY <1>8
<1> HIDE DEF met
<1>10. PICK l \in Nat : l = Len(met) /\ DOMAIN met = 1 .. l
  BY <1>8, ListIs, Zenon
<1> DEFINE M == RoundOf(r, idx)
<1>11. List(M) /\ Len(M) = l /\ \A i \in 1 .. l : M[i] = x(i)
  <2> DEFINE T == {x(i) : i \in 1 .. l}
  <2> HIDE DEF x
  <2>1. M = [i \in 1 .. l |-> x(i)]
    BY <1>5, <1>10, Zenon
  <2> HIDE DEF M
  <2>2. M \in [1 .. l -> T] /\ \A i \in 1 .. l : M[i] = x(i)
    BY <2>1
  <2> HIDE DEF T
  <2> QED
    BY <2>2, ListMade, Zenon
<1>12. ASSUME NEW k \in 1 .. h, Sit(idx, k, n + 1 - k)
       PROVE  at[k] \in 1 .. l /\ Meeting(M[at[k]], r, idx[k], idx[n + 1 - k])
  <2>1. k \in E
    BY <1>12, Zenon DEF E
  <2>2. at[k] \in 1 .. l /\ met[at[k]] = pairs[k]
    BY <1>9, <1>10, <2>1, Zenon DEF Found
  <2>3. pairs[k] = pair(k)
    BY <1>3
  <2>4. pair(k)[1] = idx[k] /\ pair(k)[2] = idx[n + 1 - k]
    OBVIOUS
  <2>5. met[at[k]][1] = idx[k] /\ met[at[k]][2] = idx[n + 1 - k]
    BY <2>2, <2>3, <2>4, Zenon
  <2>6. M[at[k]] = MatchOf(r, at[k] - 1, <<pairSlot(idx[k]), pairSlot(idx[n + 1 - k])>>, 0, 0)
    <3>1. M[at[k]] = x(at[k])
      BY <1>11, <2>2, Zenon
    <3> HIDE DEF M
    <3> QED
      BY <2>5, <3>1, Zenon
  <2> HIDE DEF M
  <2> QED
    BY <2>2, <2>6, Zenon DEF Meeting
<1>13. \A m \in 1 .. l : \E k \in 1 .. h : Sit(idx, k, n + 1 - k) /\ at[k] = m
  BY <1>9, <1>10, Zenon DEF Found, E
<1> HIDE DEF M
<1>14. RoundMade(M, r, n, h, idx, at)
  BY <1>11, <1>12, <1>13, Zenon DEF RoundMade
<1> QED
  BY <1>14, Zenon DEF M

(* The places whose teams meet as the pair k of round r. *)
Home(n, r, k) == Shifted(n, r - 1, k)
Away(n, r, k) == Shifted(n, r - 1, n + 1 - k)

(* M is the league of P: at says which match the pair k of round r is. *)
LeagueMade(M, n, h, P, at) ==
    /\ List(M)
    /\ \A r \in 1 .. n - 1 : \A k \in 1 .. h : Sit(P, Home(n, r, k), Away(n, r, k)) =>
          at[<<r, k>>] \in 1 .. Len(M) /\ Meeting(M[at[<<r, k>>]], r, P[Home(n, r, k)], P[Away(n, r, k)])
    /\ \A m \in 1 .. Len(M) : \E r \in 1 .. n - 1 : \E k \in 1 .. h :
          Sit(P, Home(n, r, k), Away(n, r, k)) /\ at[<<r, k>>] = m

(* The rounds of a league, one after the other. *)
LeagueFlat(n, P) == FlattenSeq([r \in 1 .. n - 1 |-> RoundOf(r, Rotations(P)[r - 1])])

(* A league is made of its rounds. *)
LEMMA LeagueIs ==
  ASSUME NEW S, NEW h \in Nat, h >= 1, NEW n \in Nat, n = 2 * h, NEW P \in [1 .. n -> S]
  PROVE  \E at : LeagueMade(LeagueFlat(n, P), n, h, P, at)
<1> DEFINE N == n - 1
           idx(r) == Rotations(P)[r - 1]
           ss == [r \in 1 .. N |-> RoundOf(r, idx(r))]
<1>1. n >= 2 /\ N \in Nat
  OBVIOUS
<1>2. ASSUME NEW r \in 1 .. N
      PROVE  idx(r) \in [1 .. n -> S] /\ \A k \in 1 .. n : idx(r)[k] = P[Shifted(n, r - 1, k)]
  <2>1. r - 1 \in 0 .. n - 2 /\ r - 1 \in Nat
    OBVIOUS
  <2>2. idx(r) \in [1 .. n -> S] /\ idx(r) = Turned(n, P, r - 1)
    <3>1. Turns(S, n, P, Rotations(P))
      BY <1>1, RotationsAre, Zenon
    <3> QED
      BY <2>1, <3>1, Zenon DEF Turns
  <2> QED
    BY <2>2, Zenon DEF Turned
<1>3. ASSUME NEW r \in 1 .. N PROVE \E at : RoundMade(ss[r], r, n, h, idx(r), at)
  <2>1. PICK x \in [1 .. n -> S] : x = idx(r)
    BY <1>2
  <2>2. \E at : RoundMade(RoundOf(r, x), r, n, h, x, at)
    BY RoundIs, Zenon
  <2>3. ss[r] = RoundOf(r, x)
    <3> HIDE DEF idx
    <3> QED
      BY <2>1
  <2> HIDE DEF ss, idx
  <2> QED
    BY <2>1, <2>2, <2>3, Zenon
<1>4. LeagueFlat(n, P) = FlattenSeq(ss)
  BY Zenon DEF LeagueFlat
<1>5. Lists(N, ss)
  <2>1. ss = [r \in 1 .. N |-> ss[r]]
    <3> HIDE DEF idx
    <3> QED
      OBVIOUS
  <2> HIDE DEF ss
  <2>2. \A r \in 1 .. N : List(ss[r])
    BY <1>3, Zenon DEF RoundMade
  <2> QED
    BY <2>1, <2>2, Zenon DEF Lists
<1> DEFINE A(r) == CHOOSE at : RoundMade(ss[r], r, n, h, idx(r), at)
<1>6. \A r \in 1 .. N : RoundMade(ss[r], r, n, h, idx(r), A(r))
  <2> HIDE DEF ss, idx
  <2> QED
    BY <1>3, Zenon
<1> HIDE DEF ss, A
<1> DEFINE M == FlattenSeq(ss)
<1>7. List(M)
  BY <1>1, <1>5, FlattenedLists, Zenon
<1>8. PICK off : LaidOut(N, ss, M, off)
  BY <1>1, <1>5, FlattenedLists, Zenon
<1> HIDE DEF M
<1> DEFINE at == [z \in (1 .. N) \X (1 .. h) |-> off[z[1]] + A(z[1])[z[2]]]
<1>9. \A r \in 1 .. N : \A k \in 1 .. h : at[<<r, k>>] = off[r] + A(r)[k]
  OBVIOUS
<1> HIDE DEF at
<1>10. ASSUME NEW r \in 1 .. N, NEW k \in 1 .. h
       PROVE  /\ Sit(idx(r), k, n + 1 - k) <=> Sit(P, Home(n, r, k), Away(n, r, k))
              /\ idx(r)[k] = P[Home(n, r, k)] /\ idx(r)[n + 1 - k] = P[Away(n, r, k)]
  <2>1. k \in 1 .. n /\ n + 1 - k \in 1 .. n
    OBVIOUS
  <2>2. idx(r)[k] = P[Home(n, r, k)] /\ idx(r)[n + 1 - k] = P[Away(n, r, k)]
    BY <1>2, <2>1, Zenon DEF Home, Away
  <2> HIDE DEF idx
  <2> QED
    BY <2>2, Zenon DEF Sit
<1> HIDE DEF idx
<1>11. ASSUME NEW r \in 1 .. N, NEW k \in 1 .. h, Sit(P, Home(n, r, k), Away(n, r, k))
       PROVE  /\ at[<<r, k>>] \in 1 .. Len(M)
              /\ Meeting(M[at[<<r, k>>]], r, P[Home(n, r, k)], P[Away(n, r, k)])
  <2>1. Sit(idx(r), k, n + 1 - k)
    BY <1>10, <1>11, Zenon
  <2>2. A(r)[k] \in 1 .. Len(ss[r]) /\ Meeting(ss[r][A(r)[k]], r, idx(r)[k], idx(r)[n + 1 - k])
    BY <1>6, <2>1, Zenon DEF RoundMade
  <2>3. PICK j \in 1 .. Len(ss[r]) : j = A(r)[k]
    BY <2>2
  <2>4. off[r] + j \in 1 .. Len(M)
    BY <1>1, <1>5, <1>8, LaidWithin, Zenon
  <2>5. M[off[r] + j] = ss[r][j]
    BY <1>8, Zenon DEF LaidOut
  <2> QED
    BY <1>9, <1>10, <2>2, <2>3, <2>4, <2>5, Zenon
<1>12. ASSUME NEW m \in 1 .. Len(M)
       PROVE  \E r \in 1 .. N : \E k \in 1 .. h : Sit(P, Home(n, r, k), Away(n, r, k)) /\ at[<<r, k>>] = m
  <2>1. PICK r \in 1 .. N : \E j \in 1 .. Len(ss[r]) : m = off[r] + j
    BY <1>8, Zenon DEF LaidOut
  <2>2. PICK j \in 1 .. Len(ss[r]) : m = off[r] + j
    BY <2>1
  <2>3. PICK k \in 1 .. h : Sit(idx(r), k, n + 1 - k) /\ A(r)[k] = j
    BY <1>6, Zenon DEF RoundMade
  <2> QED
    BY <1>9, <1>10, <2>2, <2>3, Zenon
<1>13. LeagueMade(M, n, h, P, at)
  BY <1>7, <1>11, <1>12, Zenon DEF LeagueMade
<1> QED
  BY <1>4, <1>13, Zenon DEF M

(* M is the round robin of ids: their places are those of P, filled up     *)
(* with a bye when their number is odd.                                    *)
Robin(M, ids, n, h, P, at) ==
    /\ h >= 1 /\ n = 2 * h /\ (n = Len(ids) \/ n = Len(ids) + 1)
    /\ \A i \in 1 .. Len(ids) : P[i] = ids[i]
    /\ \A i \in 1 .. n : i > Len(ids) => P[i] = 0
    /\ LeagueMade(M, n, h, P, at)

(* GenerateRoundRobin makes the round robin of two teams or more. *)
LEMMA RobinIs ==
  ASSUME NEW ids, List(ids), Len(ids) >= 2
  PROVE  \E n \in Nat, h \in Nat : \E P, at : Robin(GenerateRoundRobin(ids), ids, n, h, P, at)
<1>1. PICK l \in Nat : l = Len(ids) /\ l >= 2
  BY ListIs
<1> DEFINE S == Items(ids) \cup {0}
<1>2. ids \in [1 .. l -> S]
  <2>1. ids \in [1 .. l -> Items(ids)]
    BY <1>1, ListIs, Zenon
  <2> QED
    BY <2>1
<1>3. 0 \in S
  OBVIOUS
<1> DEFINE padded == IF Len(ids) % 2 = 1 THEN Append(ids, 0) ELSE ids
<1>4. GenerateRoundRobin(ids) = FlattenSeq([r \in 1 .. Len(padded) - 1 |-> RoundOf(r, Rotations(padded)[r - 1])])
  <2>1. ~(Len(ids) < 2)
    BY <1>1
  <2> QED
    BY <2>1, Zenon DEF GenerateRoundRobin
<1> HIDE DEF S
<1>5. PICK h \in Nat : h >= 1 /\ ((l % 2 = 1 /\ 2 * h = l + 1) \/ (l % 2 # 1 /\ 2 * h = l))
  <2>1. PICK d \in Nat : d = l \div 2 /\ (2 * d = l \/ 2 * d + 1 = l)
    BY <1>1
  <2>2. CASE 2 * d = l
    BY <1>1, <2>2
  <2>3. CASE 2 * d + 1 = l
    <3>1. d + 1 \in Nat /\ 2 * (d + 1) = l + 1 /\ d + 1 >= 1 /\ l % 2 = 1
      BY <1>1, <2>3
    <3> QED
      BY <3>1
  <2> QED
    BY <2>1, <2>2, <2>3
<1>6. PICK n \in Nat : n = 2 * h
  OBVIOUS
<1>7. /\ padded \in [1 .. n -> S] /\ Len(padded) = n
      /\ \A i \in 1 .. l : padded[i] = ids[i]
      /\ \A i \in 1 .. n : i > l => padded[i] = 0
      /\ n = l \/ n = l + 1
  <2>1. CASE l % 2 = 1 /\ n = l + 1
    <3>1. padded = Append(ids, 0)
      BY <1>1, <2>1
    <3>2. ids \in Seq(S) /\ Len(ids) = l
      BY <1>2, Numbered, Zenon
    <3>3. /\ Append(ids, 0) \in Seq(S) /\ Len(Append(ids, 0)) = Len(ids) + 1
          /\ \A i \in 1 .. Len(ids) : Append(ids, 0)[i] = ids[i]
          /\ Append(ids, 0)[Len(ids) + 1] = 0
      BY <1>3, <3>2, AppendProperties
    <3> HIDE DEF padded
    <3>4. padded \in Seq(S) /\ Len(padded) = n
      BY <2>1, <3>1, <3>2, <3>3, Zenon
    <3>5. padded \in [1 .. n -> S]
      BY <3>4, LenProperties
    <3>6. ASSUME NEW i \in 1 .. n, i > l PROVE i = l + 1
      BY <2>1, <3>6
    <3> QED
      BY <2>1, <3>1, <3>2, <3>3, <3>4, <3>5, <3>6, Zenon
  <2>2. CASE l % 2 # 1 /\ n = l
    <3>1. padded = ids
      BY <1>1, <2>2
    <3> HIDE DEF padded
    <3>2. \A i \in 1 .. n : ~(i > l)
      BY <2>2
    <3> QED
      BY <1>1, <1>2, <2>2, <3>1, <3>2, Zenon
  <2> QED
    BY <1>5, <1>6, <2>1, <2>2, Zenon
<1> HIDE DEF padded
<1>8. GenerateRoundRobin(ids) = LeagueFlat(n, padded)
  BY <1>4, <1>7, Zenon DEF LeagueFlat
<1>9. \E at : LeagueMade(LeagueFlat(n, padded), n, h, padded, at)
  BY <1>5, <1>6, <1>7, LeagueIs, Zenon
<1>10. PICK at : LeagueMade(GenerateRoundRobin(ids), n, h, padded, at)
  BY <1>8, <1>9, Zenon
<1>11. Robin(GenerateRoundRobin(ids), ids, n, h, padded, at)
  BY <1>1, <1>5, <1>6, <1>7, <1>10, Zenon DEF Robin
<1> QED
  BY <1>11

(* Nobody is yet to come in a slot of x. *)
Seated(x) == \A k \in 1 .. 2 : x.slots[k].type # "empty"

(* A match of a group stage. *)
Plain(x) == \E r, pos, sl : x = MatchOf(r, pos, sl, 0, 0) /\ Seated(x)

(* A meeting is one. *)
LEMMA MeetingPlain == ASSUME NEW x, NEW r, NEW a, NEW b, Meeting(x, r, a, b) PROVE Plain(x)
<1>1. PICK pos : x = MatchOf(r, pos, <<pairSlot(a), pairSlot(b)>>, 0, 0)
  BY Zenon DEF Meeting
<1> DEFINE p == pairSlot(a)
           q == pairSlot(b)
<1>2. p.type # "empty" /\ q.type # "empty"
  BY DEF pairSlot, Slot, Bye
<1> HIDE DEF p, q
<1>3. x.slots[1] = p /\ x.slots[2] = q
  BY <1>1 DEF MatchOf, p, q
<1>5. x.slots[1].type # "empty" /\ x.slots[2].type # "empty"
  BY <1>2, <1>3, Zenon
<1>6. \A k \in 1 .. 2 : k = 1 \/ k = 2
  OBVIOUS
<1>7. Seated(x)
  BY <1>5, <1>6, Zenon DEF Seated
<1> QED
  BY <1>1, <1>7, Zenon DEF Plain

(* A round robin is a list of matches without successors. *)
LEMMA RobinPlain ==
  ASSUME NEW ids, List(ids)
  PROVE  /\ List(GenerateRoundRobin(ids))
         /\ \A m \in 1 .. Len(GenerateRoundRobin(ids)) : Plain(GenerateRoundRobin(ids)[m])
<1> DEFINE M == GenerateRoundRobin(ids)
<1>1. CASE Len(ids) < 2
  <2>1. M = <<>>
    BY <1>1 DEF GenerateRoundRobin
  <2> HIDE DEF M
  <2>2. List(M) /\ Len(M) = 0
    BY <2>1, NoItems, Zenon
  <2> QED
    BY <2>2 DEF M
<1>2. CASE ~(Len(ids) < 2)
  <2>1. Len(ids) >= 2
    <3>1. Len(ids) \in Nat
      BY ListIs, Zenon
    <3> QED
      BY <1>2, <3>1
  <2>2. PICK n \in Nat, h \in Nat : \E P, at : Robin(M, ids, n, h, P, at)
    BY <2>1, RobinIs, Zenon
  <2>3. PICK P, at : LeagueMade(M, n, h, P, at)
    BY <2>2, Zenon DEF Robin
  <2> HIDE DEF M
  <2>4. List(M) /\ \A m \in 1 .. Len(M) : \E r, a, b : Meeting(M[m], r, a, b)
    BY <2>3, Zenon DEF LeagueMade
  <2>5. \A m \in 1 .. Len(M) : Plain(M[m])
    BY <2>4, MeetingPlain, Zenon
  <2> QED
    BY <2>4, <2>5, Zenon DEF M
<1> QED
  BY <1>1, <1>2

(* The round robin of group g. *)
GroupPart(g, ids) == LET rr == GenerateRoundRobin(ids)
                     IN  [i \in DOMAIN rr |-> [rr[i] EXCEPT !.group = g]]

(* G is M with group g in every match. *)
Regrouped(G, M, g) ==
    List(G) /\ Len(G) = Len(M) /\ \A i \in 1 .. Len(G) : G[i] = [M[i] EXCEPT !.group = g]

(* TwoStages numbers the matches of a group's round robin. *)
LEMMA GroupPartIs ==
  ASSUME NEW g, NEW ids, List(ids)
  PROVE  Regrouped(GroupPart(g, ids), GenerateRoundRobin(ids), g)
<1> DEFINE M == GenerateRoundRobin(ids)
           G == GroupPart(g, ids)
<1>1. PICK l \in Nat : l = Len(M) /\ DOMAIN M = 1 .. l
  <2>1. List(M)
    BY RobinPlain, Zenon
  <2> HIDE DEF M
  <2> QED
    BY <2>1, ListIs, Zenon
<1> DEFINE e(i) == [M[i] EXCEPT !.group = g]
           T == {e(i) : i \in 1 .. l}
<1>2. G = [i \in 1 .. l |-> e(i)]
  BY <1>1, Zenon DEF GroupPart
<1> HIDE DEF e, G
<1>3. G \in [1 .. l -> T] /\ \A i \in 1 .. l : G[i] = e(i)
  BY <1>2
<1> HIDE DEF T, M
<1>4. List(G) /\ Len(G) = l
  BY <1>3, ListMade, Zenon
<1> QED
  BY <1>1, <1>3, <1>4, Zenon DEF e, G, M, Regrouped

(* A list of lists. *)
Grouping(groups) == List(groups) /\ \A g \in 1 .. Len(groups) : List(groups[g])

(* The round robins of the groups. *)
GroupParts(groups) == [g \in DOMAIN groups |-> GroupPart(g, groups[g])]

(* The group stage that TwoStages puts before the knockout. *)
Stage(groups) == FlattenSeq(GroupParts(groups))

(* The group stage holds the round robin of every group, in order. *)
LEMMA StageIs ==
  ASSUME NEW groups, Grouping(groups)
  PROVE  /\ List(Stage(groups)) /\ Lists(Len(groups), GroupParts(groups))
         /\ \A g \in 1 .. Len(groups) : GroupParts(groups)[g] = GroupPart(g, groups[g])
         /\ \E off : LaidOut(Len(groups), GroupParts(groups), Stage(groups), off)
<1> DEFINE ss == GroupParts(groups)
<1>1. PICK n \in Nat : n = Len(groups) /\ DOMAIN groups = 1 .. n
  <2>1. List(groups)
    BY DEF Grouping
  <2> QED
    BY <2>1, ListIs, Zenon
<1>2. ss = [g \in 1 .. n |-> GroupPart(g, groups[g])]
  BY <1>1, Zenon DEF GroupParts
<1>3. \A g \in 1 .. n : ss[g] = GroupPart(g, groups[g])
  BY <1>2
<1>4. ss = [g \in 1 .. n |-> ss[g]]
  BY <1>2
<1> HIDE DEF ss
<1>5. \A g \in 1 .. n : List(ss[g])
  <2> SUFFICES ASSUME NEW g \in 1 .. n PROVE List(ss[g])
    OBVIOUS
  <2>1. List(groups[g])
    BY <1>1, Zenon DEF Grouping
  <2>2. Regrouped(GroupPart(g, groups[g]), GenerateRoundRobin(groups[g]), g)
    BY <2>1, GroupPartIs, Zenon
  <2> QED
    BY <1>3, <2>2, Zenon DEF Regrouped
<1>6. Lists(n, ss)
  BY <1>4, <1>5, Zenon DEF Lists
<1>7. List(FlattenSeq(ss)) /\ \E off : LaidOut(n, ss, FlattenSeq(ss), off)
  BY <1>6, FlattenedLists, Zenon
<1> QED
  BY <1>1, <1>3, <1>6, <1>7, Zenon DEF ss, Stage

(* Its matches are numbered by their groups, have no successors and wait   *)
(* for nobody.                                                             *)
LEMMA StagePlain ==
  ASSUME NEW groups, Grouping(groups), NEW m \in 1 .. Len(Stage(groups))
  PROVE  /\ Stage(groups)[m].group \in 1 .. Len(groups) /\ Stage(groups)[m].next = 0
         /\ Seated(Stage(groups)[m])
<1> DEFINE ss == GroupParts(groups)
           st == Stage(groups)
<1>1. PICK off : LaidOut(Len(groups), ss, st, off)
  BY StageIs, Zenon
<1>2. PICK g \in 1 .. Len(groups) : \E k \in 1 .. Len(ss[g]) : st[m] = ss[g][k]
  BY <1>1, Zenon DEF LaidOut
<1>20. PICK k \in 1 .. Len(ss[g]) : st[m] = ss[g][k]
  BY <1>2
<1>3. ss[g] = GroupPart(g, groups[g]) /\ List(groups[g])
  BY StageIs, Zenon DEF Grouping
<1>4. k \in 1 .. Len(GenerateRoundRobin(groups[g]))
      /\ st[m] = [GenerateRoundRobin(groups[g])[k] EXCEPT !.group = g]
  <2>1. Regrouped(GroupPart(g, groups[g]), GenerateRoundRobin(groups[g]), g)
    BY <1>3, GroupPartIs, Zenon
  <2> QED
    BY <1>20, <1>3, <2>1, Zenon DEF Regrouped
<1>5. PICK x : x = GenerateRoundRobin(groups[g])[k] /\ Plain(x)
  BY <1>3, <1>4, RobinPlain, Zenon
<1>6. PICK r, pos, sl : x = MatchOf(r, pos, sl, 0, 0)
  BY <1>5, Zenon DEF Plain
<1> DEFINE y == [x EXCEPT !.group = g]
<1>7. y.group = g /\ y.next = 0 /\ y.slots = x.slots
  BY <1>6 DEF MatchOf
<1> HIDE DEF y
<1>8. Seated(y)
  BY <1>5, <1>7, Zenon DEF Plain, Seated
<1>9. st[m] = y
  BY <1>4, <1>5, Zenon DEF y
<1> QED
  BY <1>7, <1>8, <1>9, Zenon

(* After a group stage, if there is one, ms is a bracket. *)
MadeTree(ms) == \E o \in Nat, n \in Nat : \E first :
    n >= 1 /\ Bracketed(ms, o, n, first) /\ Filled(first, n)

(* A bracket by itself has no matches before it. *)
LEMMA PlainBracket == ASSUME NEW M, Knocked(M) PROVE MadeTree(M)
<1>1. PICK n \in Nat : \E first : n >= 1 /\ Len(first) = n /\ Wired(M, first) /\ Filled(first, n)
  BY Zenon DEF Knocked, Above
<1>2. PICK first : n >= 1 /\ Len(first) = n /\ Wired(M, first) /\ Filled(first, n)
  BY <1>1
<1>3. PICK last \in Nat : last = 2 * n - 1 /\ 1 <= last
  BY <1>2
<1>4. /\ M \in Seq(Drawn(first)) /\ Len(M) = last
      /\ \A m \in 1 .. last : M[m].group = 0 /\ M[m].round >= 1
      /\ M[last].next = 0 /\ M[1].round = 1
      /\ \A m \in 1 .. n : M[m].slots = first[m]
      /\ \A m \in n + 1 .. last : M[m].slots = <<Empty, Empty>>
      /\ \A m \in 1 .. last - 1 : /\ M[m].next = n + 1 + (m - 1) \div 2
                                  /\ M[m].nextSlot = ((m - 1) % 2) + 1
                                  /\ M[M[m].next].round = M[m].round + 1
  BY <1>2, <1>3, Zenon DEF Wired
<1>5. DOMAIN M = 1 .. last /\ \A m \in 1 .. last : M[m] \in Drawn(first)
  <2>1. DOMAIN M = 1 .. Len(M)
    BY <1>4, LenProperties
  <2>2. \A m \in 1 .. Len(M) : M[m] \in Drawn(first)
    BY <1>4, ElementOfSeq, Zenon
  <2> QED
    BY <1>4, <2>1, <2>2, Zenon
<1>6. \A x \in Drawn(first) : x.round \in Nat
  BY DEF Drawn
<1>7. 0 + last = last /\ 0 + 1 = 1 /\ \A m \in Nat : 0 + m = m
  OBVIOUS
<1>8. /\ \A m \in 1 .. n : m \in Nat
      /\ \A m \in n + 1 .. last : m \in Nat
      /\ \A m \in 1 .. last - 1 : m \in Nat
      /\ \A m \in 1 .. last - 1 : n + 1 + (m - 1) \div 2 \in Nat
      /\ \A m \in 1 .. 0 : FALSE
  OBVIOUS
<1>9. Bracketed(M, 0, n, first)
  <2>1. DOMAIN M = 1 .. 0 + last
    BY <1>5, <1>7, Zenon
  <2>2. \A m \in 1 .. 0 : M[m].group # 0 /\ M[m].next = 0
    BY <1>8, Zenon
  <2>3. \A m \in 0 + 1 .. 0 + last : M[m].group = 0 /\ M[m].round \in Nat /\ M[m].round >= 1
    BY <1>4, <1>5, <1>6, <1>7, Zenon
  <2>4. M[0 + last].next = 0 /\ M[0 + 1].round = 1
    BY <1>4, <1>7, Zenon
  <2>5. /\ \A m \in 1 .. n : M[0 + m].slots = first[m]
        /\ \A m \in n + 1 .. last : M[0 + m].slots = <<Empty, Empty>>
    <3>1. ASSUME NEW m \in 1 .. n PROVE M[0 + m].slots = first[m]
      <4>1. 0 + m = m
        OBVIOUS
      <4>2. M[m].slots = first[m]
        BY <1>4
      <4> QED
        BY <4>1, <4>2, Zenon
    <3>2. ASSUME NEW m \in n + 1 .. last PROVE M[0 + m].slots = <<Empty, Empty>>
      <4>1. 0 + m = m
        OBVIOUS
      <4>2. M[m].slots = <<Empty, Empty>>
        BY <1>4
      <4> QED
        BY <4>1, <4>2, Zenon
    <3> QED
      BY <3>1, <3>2, Zenon
  <2>6. ASSUME NEW m \in 1 .. last - 1
        PROVE  /\ M[0 + m].next = 0 + (n + 1 + (m - 1) \div 2)
               /\ M[0 + m].nextSlot = ((m - 1) % 2) + 1
               /\ M[M[0 + m].next].round = M[0 + m].round + 1
    <3>1. 0 + m = m /\ 0 + (n + 1 + (m - 1) \div 2) = n + 1 + (m - 1) \div 2
      BY <1>7, <1>8, Zenon
    <3>2. /\ M[m].next = n + 1 + (m - 1) \div 2
          /\ M[m].nextSlot = ((m - 1) % 2) + 1
          /\ M[M[m].next].round = M[m].round + 1
      BY <1>4, Zenon
    <3> QED
      BY <3>1, <3>2, Zenon
  <2> QED
    BY <1>3, <2>1, <2>2, <2>3, <2>4, <2>5, <2>6, Zenon DEF Bracketed
<1>10. 0 \in Nat
  OBVIOUS
<1> QED
  BY <1>2, <1>9, <1>10, Zenon DEF MadeTree

(* y is x with its successor moved o places. *)
Moved(x, o) == [x EXCEPT !.next = IF @ = 0 THEN 0 ELSE @ + o]

(* y is x but for its successor, which is moved o places. *)
Copied(y, x, o) ==
    /\ y.group = x.group /\ y.round = x.round /\ x.round \in Nat
    /\ y.slots = x.slots /\ y.nextSlot = x.nextSlot
    /\ y.next = IF x.next = 0 THEN 0 ELSE x.next + o

(* Nothing else changes. *)
LEMMA MovedIs ==
  ASSUME NEW first, NEW x \in Drawn(first), NEW o \in Nat
  PROVE  Copied(Moved(x, o), x, o)
  BY DEF Moved, Drawn, Copied

(* ms is the group stage st and then a bracket above the first round.     *)
StagedAbove(ms, st, n, first) ==
    /\ n >= 1 /\ Bracketed(ms, Len(st), n, first) /\ Filled(first, n)
    /\ \A m \in 1 .. Len(st) : ms[m] = st[m]

Staged(ms, st) == \E n \in Nat : \E first : StagedAbove(ms, st, n, first)

(* That is what TwoStages makes. *)
LEMMA StagesMade ==
  ASSUME NEW groups, Grouping(groups), NEW M, NEW n \in Nat, NEW first, Above(M, n, first)
  PROVE  StagedAbove(TwoStages(groups, M), Stage(groups), n, first)
<1>2. n >= 1 /\ Len(first) = n /\ Wired(M, first) /\ Filled(first, n)
  BY Zenon DEF Above
<1>3. PICK last \in Nat : last = 2 * n - 1 /\ 1 <= last
  BY <1>2
<1>4. /\ M \in Seq(Drawn(first)) /\ Len(M) = last
      /\ \A m \in 1 .. last : M[m].group = 0 /\ M[m].round >= 1
      /\ M[last].next = 0 /\ M[1].round = 1
      /\ \A m \in 1 .. n : M[m].slots = first[m]
      /\ \A m \in n + 1 .. last : M[m].slots = <<Empty, Empty>>
      /\ \A m \in 1 .. last - 1 : /\ M[m].next = n + 1 + (m - 1) \div 2
                                  /\ M[m].nextSlot = ((m - 1) % 2) + 1
                                  /\ M[M[m].next].round = M[m].round + 1
  BY <1>2, <1>3, Zenon DEF Wired
<1>5. DOMAIN M = 1 .. last /\ \A m \in 1 .. last : M[m] \in Drawn(first)
  <2>1. DOMAIN M = 1 .. Len(M)
    BY <1>4, LenProperties
  <2>2. \A m \in 1 .. Len(M) : M[m] \in Drawn(first)
    BY <1>4, ElementOfSeq, Zenon
  <2> QED
    BY <1>4, <2>1, <2>2, Zenon
<1> DEFINE st == Stage(groups)
<1>6. List(st)
  BY StageIs, Zenon
<1>7. PICK o \in Nat : o = Len(st)
  <2> HIDE DEF st
  <2> QED
    BY <1>6, ListIs, Zenon
<1> DEFINE mv == [i \in 1 .. last |-> Moved(M[i], o)]
           T == {Moved(M[i], o) : i \in 1 .. last}
<1>8. mv \in [1 .. last -> T] /\ \A i \in 1 .. last : mv[i] = Moved(M[i], o)
  OBVIOUS
<1>9. TwoStages(groups, M) = st \o mv
  BY <1>5, <1>7, Zenon DEF TwoStages, Stage, GroupParts, GroupPart, Moved
<1>10. List(mv) /\ Len(mv) = last
  <2> HIDE DEF mv, T
  <2> QED
    BY <1>8, ListMade, Zenon
<1> HIDE DEF mv, st, T
<1> DEFINE ms == st \o mv
<1>11. /\ List(ms) /\ Len(ms) = o + last
       /\ \A k \in 1 .. o : ms[k] = st[k]
       /\ \A k \in 1 .. last : ms[o + k] = mv[k]
  <2>1. Chained(ms, st, mv)
    BY <1>6, <1>10, Joined, Zenon
  <2> HIDE DEF ms
  <2> QED
    BY <1>7, <1>10, <2>1, Zenon DEF Chained
<1> HIDE DEF ms
<1>12. DOMAIN ms = 1 .. o + last
  BY <1>11, ListIs, Zenon
<1>13. \A m \in 1 .. o : ms[m].group # 0 /\ ms[m].next = 0
  <2> SUFFICES ASSUME NEW m \in 1 .. o PROVE ms[m].group # 0 /\ ms[m].next = 0
    OBVIOUS
  <2>1. st[m].group \in 1 .. Len(groups) /\ st[m].next = 0
    BY <1>7, StagePlain, Zenon DEF st
  <2>2. st[m].group # 0
    BY <2>1
  <2> QED
    BY <1>11, <2>1, <2>2, Zenon
<1>14. ASSUME NEW k \in 1 .. last PROVE Copied(ms[o + k], M[k], o)
  <2>1. PICK x \in Drawn(first) : x = M[k]
    BY <1>5
  <2>2. ms[o + k] = Moved(x, o)
    BY <1>8, <1>11, <2>1, Zenon
  <2> QED
    BY <2>1, <2>2, MovedIs, Zenon
<1>15. Bracketed(ms, o, n, first)
  <2>1. \A m \in o + 1 .. o + last : ms[m].group = 0 /\ ms[m].round \in Nat /\ ms[m].round >= 1
    <3> SUFFICES ASSUME NEW m \in o + 1 .. o + last
                 PROVE  ms[m].group = 0 /\ ms[m].round \in Nat /\ ms[m].round >= 1
      OBVIOUS
    <3>1. PICK k \in 1 .. last : m = o + k
      <4>1. m - o \in 1 .. last /\ m = o + (m - o)
        OBVIOUS
      <4> QED
        BY <4>1
    <3>2. Copied(ms[o + k], M[k], o)
      BY <1>14, Zenon
    <3>3. M[k].group = 0 /\ M[k].round >= 1
      BY <1>4, Zenon
    <3> QED
      BY <3>1, <3>2, <3>3, Zenon DEF Copied
  <2>2. ms[o + last].next = 0 /\ ms[o + 1].round = 1
    <3>1. last \in 1 .. last /\ 1 \in 1 .. last
      BY <1>3
    <3> QED
      BY <1>4, <1>14, <3>1, Zenon DEF Copied
  <2>3. \A m \in 1 .. n : ms[o + m].slots = first[m]
    <3> SUFFICES ASSUME NEW m \in 1 .. n PROVE ms[o + m].slots = first[m]
      OBVIOUS
    <3>1. m \in 1 .. last
      BY <1>3
    <3>2. Copied(ms[o + m], M[m], o)
      BY <1>14, <3>1, Zenon
    <3>3. M[m].slots = first[m]
      BY <1>4, Zenon
    <3> QED
      BY <3>2, <3>3, Zenon DEF Copied
  <2>4. \A m \in n + 1 .. last : ms[o + m].slots = <<Empty, Empty>>
    <3> SUFFICES ASSUME NEW m \in n + 1 .. last PROVE ms[o + m].slots = <<Empty, Empty>>
      OBVIOUS
    <3>1. m \in 1 .. last
      OBVIOUS
    <3>2. Copied(ms[o + m], M[m], o)
      BY <1>14, <3>1, Zenon
    <3>3. M[m].slots = <<Empty, Empty>>
      BY <1>4, Zenon
    <3> QED
      BY <3>2, <3>3, Zenon DEF Copied
  <2>5. ASSUME NEW m \in 1 .. last - 1
        PROVE  /\ ms[o + m].next = o + (n + 1 + (m - 1) \div 2)
               /\ ms[o + m].nextSlot = ((m - 1) % 2) + 1
               /\ ms[ms[o + m].next].round = ms[o + m].round + 1
    <3>1. m \in 1 .. last
      OBVIOUS
    <3>2. PICK d \in Nat : d = (m - 1) \div 2 /\ (2 * d = m - 1 \/ 2 * d + 1 = m - 1)
      OBVIOUS
    <3>3. PICK t \in Nat : t = n + 1 + d
      OBVIOUS
    <3>4. t \in 1 .. last /\ t # 0 /\ t + o = o + t
      <4>1. 2 * d = m - 1 \/ 2 * d + 1 = m - 1
        BY <3>2, Zenon
      <4> QED
        BY <1>3, <3>3, <4>1
    <3>5. M[m].next = t /\ M[m].nextSlot = ((m - 1) % 2) + 1 /\ M[t].round = M[m].round + 1
      BY <1>4, <3>2, <3>3, Zenon
    <3>6. ms[o + m].next = o + t
      BY <1>14, <3>1, <3>4, <3>5, Zenon DEF Copied
    <3>7. ms[o + t].round = ms[o + m].round + 1
      BY <1>14, <3>1, <3>4, <3>5, Zenon DEF Copied
    <3> QED
      BY <1>14, <3>1, <3>2, <3>3, <3>5, <3>6, <3>7, Zenon DEF Copied
  <2> QED
    BY <1>3, <1>12, <1>13, <2>1, <2>2, <2>3, <2>4, <2>5, Zenon DEF Bracketed
<1>16. StagedAbove(ms, st, n, first)
  BY <1>2, <1>7, <1>11, <1>15, Zenon DEF StagedAbove
<1> QED
  BY <1>9, <1>16, Zenon DEF ms, st

(* Any bracket after a group stage is one of these. *)
LEMMA StagesKnocked ==
  ASSUME NEW groups, Grouping(groups), NEW M, Knocked(M)
  PROVE  Staged(TwoStages(groups, M), Stage(groups))
  BY StagesMade, Zenon DEF Knocked, Staged

(* A bracket after a group stage. *)
LEMMA StagedBracket ==
  ASSUME NEW groups, Grouping(groups), NEW M, Knocked(M)
  PROVE  MadeTree(TwoStages(groups, M))
<1>1. List(Stage(groups))
  BY StageIs, Zenon
<1>2. Len(Stage(groups)) \in Nat
  BY <1>1, ListIs, Zenon
<1> QED
  BY <1>2, StagesKnocked, Zenon DEF Staged, StagedAbove, MadeTree

----------------------------------------------------------------------------
(* Advancing places *)

(* The slots of the places that group g of n sends a through for. *)
Advancers(g, n, a) ==
    <<placement(g, 1)>>
    \o (IF a > 1 THEN <<placement(OtherGroup(g, n), 2)>> ELSE <<>>)
    \o [p \in 1 .. (IF a > 2 THEN a - 2 ELSE 0) |-> placement(g, p + 2)]

(* A list of one slot per place. *)
Ordered(s, g, n, a) ==
    /\ List(s) /\ Len(s) = a
    /\ \A r \in 1 .. a : s[r] = placement(IF r = 2 THEN OtherGroup(g, n) ELSE g, r)

(* The slots come in the order of the places. *)
LEMMA AdvancersOrdered ==
  ASSUME NEW g, NEW n, NEW a \in Nat, a >= 1
  PROVE  Ordered(Advancers(g, n, a), g, n, a)
<1> DEFINE s == <<placement(g, 1)>>
           t == IF a > 1 THEN <<placement(OtherGroup(g, n), 2)>> ELSE <<>>
           k == IF a > 2 THEN a - 2 ELSE 0
           e(p) == placement(g, p + 2)
           u == [p \in 1 .. k |-> e(p)]
<1>1. List(s) /\ Len(s) = 1 /\ s[1] = placement(g, 1)
  BY OneItem, Zenon
<1>2. CASE a = 1
  <2>1. t = <<>> /\ k = 0
    BY <1>2
  <2>2. List(t) /\ Len(t) = 0
    <3> HIDE DEF t
    <3> QED
      BY <2>1, NoItems, Zenon
  <2>3. u \in [1 .. 0 -> {}]
    BY <2>1
  <2>4. List(u) /\ Len(u) = 0
    <3> HIDE DEF u
    <3>1. 0 \in Nat
      OBVIOUS
    <3> QED
      BY <2>3, <3>1, ListMade, Zenon
  <2>5. Advancers(g, n, a) = s \o t \o u
    BY Zenon DEF Advancers
  <2> HIDE DEF s, t, u
  <2>6. Chained(s \o t, s, t)
    BY <1>1, <2>2, Joined, Zenon
  <2>7. Chained(s \o t \o u, s \o t, u)
    <3>1. List(s \o t)
      BY <2>6, Zenon DEF Chained
    <3> QED
      BY <2>4, <3>1, Joined, Zenon
  <2>8. Len(s \o t) = 1 /\ (s \o t)[1] = placement(g, 1)
    <3>1. 1 + 0 = 1 /\ 1 \in 1 .. 1
      OBVIOUS
    <3> QED
      BY <1>1, <2>2, <2>6, <3>1, Zenon DEF Chained
  <2>9. List(s \o t \o u) /\ Len(s \o t \o u) = 1 /\ (s \o t \o u)[1] = placement(g, 1)
    <3>1. 1 + 0 = 1 /\ 1 \in 1 .. 1
      OBVIOUS
    <3> QED
      BY <2>4, <2>7, <2>8, <3>1, Zenon DEF Chained
  <2>10. \A r \in 1 .. a : r = 1 /\ r # 2
    BY <1>2
  <2> QED
    BY <1>2, <2>5, <2>9, <2>10, Zenon DEF Ordered
<1>3. CASE a > 1
  <2>1. t = <<placement(OtherGroup(g, n), 2)>> /\ k = a - 2 /\ k \in Nat
    BY <1>3
  <2>2. List(t) /\ Len(t) = 1 /\ t[1] = placement(OtherGroup(g, n), 2)
    <3> HIDE DEF t
    <3> QED
      BY <2>1, OneItem, Zenon
  <2>3. PICK l \in Nat : l = k /\ a = l + 2
    BY <2>1
  <2>4. u \in [1 .. l -> {e(p) : p \in 1 .. l}] /\ \A p \in 1 .. l : u[p] = e(p)
    <3> HIDE DEF e, k
    <3> QED
      BY <2>3
  <2>5. List(u) /\ Len(u) = l
    <3> HIDE DEF u
    <3> QED
      BY <2>4, ListMade, Zenon
  <2>6. Advancers(g, n, a) = s \o t \o u
    BY Zenon DEF Advancers
  <2> HIDE DEF s, t, u, k
  <2>7. Chained(s \o t, s, t)
    BY <1>1, <2>2, Joined, Zenon
  <2>8. Chained(s \o t \o u, s \o t, u)
    <3>1. List(s \o t)
      BY <2>7, Zenon DEF Chained
    <3> QED
      BY <2>5, <3>1, Joined, Zenon
  <2>9. Len(s \o t) = 2 /\ (s \o t)[1] = placement(g, 1) /\ (s \o t)[2] = placement(OtherGroup(g, n), 2)
    <3>1. 1 + 1 = 2 /\ 1 \in 1 .. 1
      OBVIOUS
    <3> QED
      BY <1>1, <2>2, <2>7, <3>1, Zenon DEF Chained
  <2> DEFINE v == s \o t \o u
  <2>10. /\ List(v) /\ Len(v) = a
         /\ v[1] = placement(g, 1) /\ v[2] = placement(OtherGroup(g, n), 2)
         /\ \A p \in 1 .. l : v[2 + p] = placement(g, p + 2)
    <3>1. 2 + l = a /\ 1 \in 1 .. 2 /\ 2 \in 1 .. 2
      BY <2>3
    <3>2. /\ List(v) /\ Len(v) = Len(s \o t) + Len(u)
          /\ \A j \in 1 .. Len(s \o t) : v[j] = (s \o t)[j]
          /\ \A j \in 1 .. Len(u) : v[Len(s \o t) + j] = u[j]
      BY <2>8, Zenon DEF Chained
    <3> HIDE DEF v
    <3>3. List(v) /\ Len(v) = a
      BY <2>5, <2>9, <3>1, <3>2, Zenon
    <3>4. v[1] = placement(g, 1) /\ v[2] = placement(OtherGroup(g, n), 2)
      BY <2>9, <3>1, <3>2, Zenon
    <3>5. \A p \in 1 .. l : v[2 + p] = placement(g, p + 2)
      BY <2>4, <2>5, <2>9, <3>2, Zenon
    <3> QED
      BY <3>3, <3>4, <3>5
  <2> HIDE DEF v
  <2>11. ASSUME NEW r \in 1 .. a PROVE v[r] = placement(IF r = 2 THEN OtherGroup(g, n) ELSE g, r)
    <3>1. CASE r = 1
      <4>1. r # 2
        BY <3>1
      <4> QED
        BY <2>10, <3>1, <4>1, Zenon
    <3>2. CASE r = 2
      BY <2>10, <3>2, Zenon
    <3>3. CASE r # 1 /\ r # 2
      <4>1. r - 2 \in 1 .. l /\ 2 + (r - 2) = r /\ (r - 2) + 2 = r
        BY <2>3, <3>3
      <4> QED
        BY <2>10, <3>3, <4>1, Zenon
    <3> QED
      BY <3>1, <3>2, <3>3
  <2> QED
    BY <2>6, <2>10, <2>11, Zenon DEF Ordered, v
<1> QED
  BY <1>2, <1>3

(* A placement is known. *)
LEMMA PlacementKnown == \A g, r : Known(placement(g, r))
  BY DEF Known, placement, Slot

(* Lists that are not empty make one as long as there are lists. *)
LEMMA LaidLong ==
  ASSUME NEW N \in Nat, NEW ss, Lists(N, ss), \A r \in 1 .. N : Len(ss[r]) >= 1
  PROVE  List(FlattenSeq(ss)) /\ Len(FlattenSeq(ss)) >= N
<1> DEFINE flat == FlattenSeq(ss)
           lens == [r \in 1 .. N |-> Len(ss[r])]
<1>1. List(flat)
  BY FlattenedLists, Zenon
<1>2. PICK off : LaidOut(N, ss, flat, off)
  BY FlattenedLists, Zenon
<1> HIDE DEF flat
<1>3. PICK len : len = lens
  OBVIOUS
<1>4. \A r \in 1 .. N : len[r] \in Nat /\ len[r] >= 1
  <2>1. \A r \in 1 .. N : len[r] = Len(ss[r])
    BY <1>3
  <2>2. \A r \in 1 .. N : Len(ss[r]) \in Nat
    BY ListIs, Zenon DEF Lists
  <2> QED
    BY <2>1, <2>2, Zenon
<1>5. Offsets(N, len, off) /\ Len(flat) = off[N + 1]
  BY <1>2, <1>3, Zenon DEF LaidOut
<1>6. /\ off[1] = 0
      /\ \A r \in 1 .. N + 1 : off[r] \in Nat
      /\ \A r \in 1 .. N : off[r + 1] = off[r] + len[r]
  BY <1>5, Zenon DEF Offsets
<1> DEFINE B == {r \in Nat : r <= N => off[r + 1] >= r}
<1>7. 0 \in B
  <2>1. 0 + 1 = 1
    OBVIOUS
  <2> QED
    BY <1>6, <2>1
<1>8. ASSUME NEW r \in Nat, r \in B PROVE r + 1 \in B
  <2> SUFFICES ASSUME r + 1 <= N PROVE off[(r + 1) + 1] >= r + 1
    OBVIOUS
  <2>1. r + 1 \in 1 .. N /\ r + 1 \in 1 .. N + 1
    OBVIOUS
  <2>2. off[(r + 1) + 1] = off[r + 1] + len[r + 1] /\ off[r + 1] \in Nat /\ off[r + 1] >= r
    BY <1>6, <1>8, <2>1
  <2>3. len[r + 1] \in Nat /\ len[r + 1] >= 1
    BY <1>4, <2>1
  <2> QED
    BY <2>2, <2>3
<1> HIDE DEF B
<1>9. Nat \subseteq B
  BY <1>7, <1>8, AllNumbers
<1>10. off[N + 1] >= N
  <2>1. N \in B /\ N <= N
    BY <1>9
  <2> QED
    BY <2>1 DEF B
<1> QED
  BY <1>1, <1>5, <1>10, Zenon DEF flat

(* Everything in them is known when it was known before. *)
LEMMA LaidKnown ==
  ASSUME NEW N \in Nat, NEW ss, Lists(N, ss), \A r \in 1 .. N : \A k \in 1 .. Len(ss[r]) : Known(ss[r][k])
  PROVE  \A m \in 1 .. Len(FlattenSeq(ss)) : Known(FlattenSeq(ss)[m])
<1>1. PICK off : LaidOut(N, ss, FlattenSeq(ss), off)
  BY FlattenedLists, Zenon
<1> QED
  BY <1>1, Zenon DEF LaidOut

(* The slots of each group's advancers. *)
AdvancerParts(specs) == [g \in 1 .. Len(specs) |-> Advancers(g, Len(specs), specs[g].advance)]

(* What SetGroups knows of the groups it goes on with. *)
Assigned(specs) ==
    /\ List(specs) /\ Len(specs) >= 1
    /\ \A g \in 1 .. Len(specs) : specs[g].advance \in Nat /\ specs[g].advance >= 1
    /\ Len(specs) = 1 => specs[1].advance >= 2
    /\ \A g \in 1 .. Len(specs) : List(specs[g].teams) /\ Len(specs[g].teams) >= 2

(* Each group's slots are in the order of its places. *)
LEMMA AdvancerPartsAre ==
  ASSUME NEW specs, Assigned(specs)
  PROVE  /\ Lists(Len(specs), AdvancerParts(specs))
         /\ \A g \in 1 .. Len(specs) : Ordered(AdvancerParts(specs)[g], g, Len(specs), specs[g].advance)
<1> DEFINE n == Len(specs)
           ss == AdvancerParts(specs)
<1>1. \A g \in 1 .. n : ss[g] = Advancers(g, n, specs[g].advance)
  BY DEF AdvancerParts
<1>2. ss = [g \in 1 .. n |-> ss[g]]
  BY DEF AdvancerParts
<1> HIDE DEF ss
<1>3. \A g \in 1 .. n : Ordered(ss[g], g, n, specs[g].advance)
  <2> SUFFICES ASSUME NEW g \in 1 .. n PROVE Ordered(ss[g], g, n, specs[g].advance)
    OBVIOUS
  <2>1. PICK a \in Nat : a = specs[g].advance /\ a >= 1
    BY Zenon DEF Assigned
  <2>2. Ordered(Advancers(g, n, a), g, n, a)
    BY <2>1, AdvancersOrdered, Zenon
  <2> QED
    BY <1>1, <2>1, <2>2, Zenon
<1>4. Lists(n, ss)
  BY <1>2, <1>3, Zenon DEF Lists, Ordered
<1> QED
  BY <1>3, <1>4, Zenon DEF ss

(* The sum over one group is its own. *)
LEMMA OneSum ==
  ASSUME NEW specs, DOMAIN specs = {1}, specs[1].advance \in Int
  PROVE  totalAdvance(specs) = specs[1].advance
<1> DEFINE Right(it) == it = [s \in SUBSET {1} |->
                               IF s = {} THEN 0
                               ELSE LET x == CHOOSE y \in s : TRUE IN specs[x].advance + it[s \ {x}]]
           h == [s \in SUBSET {1} |-> IF s = {} THEN 0 ELSE specs[1].advance]
<1>1. Right(h)
  <2>1. ASSUME NEW s \in SUBSET {1}
        PROVE  (IF s = {} THEN 0 ELSE specs[1].advance)
               = IF s = {} THEN 0 ELSE LET x == CHOOSE y \in s : TRUE IN specs[x].advance + h[s \ {x}]
    <3>1. CASE s = {}
      BY <3>1
    <3>2. CASE s # {}
      <4>1. s = {1} /\ (CHOOSE y \in s : TRUE) = 1
        BY <3>2
      <4>2. s \ {1} = {}
        BY <4>1
      <4>3. {} \in SUBSET {1}
        OBVIOUS
      <4>4. h[{}] = 0
        BY <4>3
      <4> QED
        BY <3>2, <4>1, <4>2, <4>4
    <3> QED
      BY <3>1, <3>2
  <2> DEFINE e(s) == IF s = {} THEN 0
                     ELSE LET x == CHOOSE y \in s : TRUE IN specs[x].advance + h[s \ {x}]
  <2>2. h = [s \in SUBSET {1} |-> e(s)]
    BY <2>1
  <2> HIDE DEF h
  <2> QED
    BY <2>2
<1>2. PICK it : Right(it) /\ totalAdvance(specs) = it[{1}]
  <2>1. Right(CHOOSE it : Right(it))
    <3> HIDE DEF Right, h
    <3> QED
      BY <1>1, Zenon
  <2>2. totalAdvance(specs) = (CHOOSE it : Right(it))[{1}]
    BY DEF totalAdvance, FoldFunction, FoldFunctionOnSet, MapThenFoldSet
  <2> HIDE DEF Right
  <2> QED
    BY <2>1, <2>2, Zenon
<1>3. it[{}] = 0
  <2>1. {} \in SUBSET {1}
    OBVIOUS
  <2> QED
    BY <1>2, <2>1
<1>4. it[{1}] = specs[1].advance + it[{}]
  <2>1. {1} \in SUBSET {1} /\ {1} # {} /\ (CHOOSE y \in {1} : TRUE) = 1 /\ {1} \ {1} = {}
    OBVIOUS
  <2>2. it[{1}] = LET x == CHOOSE y \in {1} : TRUE IN specs[x].advance + it[{1} \ {x}]
    BY <1>2, <2>1, Zenon
  <2> QED
    BY <2>1, <2>2, Zenon
<1>5. totalAdvance(specs) = it[{1}]
  BY <1>2
<1>6. specs[1].advance + 0 = specs[1].advance
  OBVIOUS
<1> QED
  BY <1>3, <1>4, <1>5, <1>6, Zenon

(* An assignment that SetGroups goes on with. *)
LEMMA ValidAssigned ==
  ASSUME NEW specs \in Seq([teams : Seq(Nat), advance : Int]), NEW valid, SetGroupsValid(specs, valid)
  PROVE  Assigned(specs)
<1>1. PICK n \in Nat : n = Len(specs) /\ DOMAIN specs = 1 .. n
  BY LenProperties
<1>2. List(specs)
  BY SeqIsList, Zenon
<1>3. specs # <<>> /\ totalAdvance(specs) >= 2
  BY DEF SetGroupsValid
<1>4. \A g \in DOMAIN specs : Len(specs[g].teams) >= 2 /\ specs[g].advance \in 1 .. Len(specs[g].teams)
  BY DEF SetGroupsValid
<1>5. n >= 1
  <2> SUFFICES ASSUME n = 0 PROVE FALSE
    BY <1>1
  <2>1. specs = <<>>
    BY <1>1, EmptySeq
  <2> QED
    BY <1>3, <2>1
<1>6. \A g \in 1 .. n : specs[g] \in [teams : Seq(Nat), advance : Int]
  BY <1>1, ElementOfSeq, Zenon
<1>7. \A x \in [teams : Seq(Nat), advance : Int] : x.teams \in Seq(Nat) /\ x.advance \in Int
  OBVIOUS
<1>8. \A g \in 1 .. n : /\ List(specs[g].teams) /\ Len(specs[g].teams) \in Nat /\ specs[g].advance \in Int
                        /\ Len(specs[g].teams) >= 2 /\ specs[g].advance \in 1 .. Len(specs[g].teams)
  <2> SUFFICES ASSUME NEW g \in 1 .. n
               PROVE  /\ List(specs[g].teams) /\ Len(specs[g].teams) \in Nat /\ specs[g].advance \in Int
                      /\ Len(specs[g].teams) >= 2 /\ specs[g].advance \in 1 .. Len(specs[g].teams)
    OBVIOUS
  <2>1. specs[g].teams \in Seq(Nat) /\ specs[g].advance \in Int
    BY <1>6, <1>7, Zenon
  <2>2. List(specs[g].teams)
    BY <2>1, SeqIsList, Zenon
  <2>3. Len(specs[g].teams) \in Nat
    BY <2>2, ListIs, Zenon
  <2> QED
    BY <1>1, <1>4, <2>1, <2>2, <2>3, Zenon
<1>9. ASSUME NEW g \in 1 .. n PROVE specs[g].advance \in Nat /\ specs[g].advance >= 1
  <2>1. PICK l \in Nat, a \in Int : l = Len(specs[g].teams) /\ a = specs[g].advance
    BY <1>8, Zenon
  <2>2. a \in 1 .. l
    BY <1>8, <2>1, Zenon
  <2>3. a \in Nat /\ a >= 1
    BY <2>2
  <2> QED
    BY <2>1, <2>3, Zenon
<1>10. ASSUME n = 1 PROVE specs[1].advance >= 2
  <2>1. DOMAIN specs = {1}
    BY <1>1, <1>10
  <2>2. specs[1].advance \in Int
    <3>1. 1 \in 1 .. n
      BY <1>5
    <3> QED
      BY <1>8, <3>1, Zenon
  <2>3. totalAdvance(specs) = specs[1].advance
    BY <2>1, <2>2, OneSum, Zenon
  <2> QED
    BY <1>3, <2>3
<1> QED
  BY <1>1, <1>2, <1>5, <1>8, <1>9, <1>10, Zenon DEF Assigned

(* The knockout above the advancing places of an assignment. *)
LEMMA AssignedSeats ==
  ASSUME NEW specs, Assigned(specs)
  PROVE  SeatsAbove(buildKnockoutFromSlots(advancerSlots(specs)), advancerSlots(specs))
<1> DEFINE ss == AdvancerParts(specs)
           flat == FlattenSeq(ss)
<1>1. PICK n \in Nat : n = Len(specs) /\ n >= 1
  <2>1. Len(specs) \in Nat /\ Len(specs) >= 1
    BY ListIs, Zenon DEF Assigned
  <2> QED
    BY <2>1
<1>2. advancerSlots(specs) = flat
  BY DEF advancerSlots, AdvancerParts, Advancers
<1>3. Lists(n, ss) /\ \A g \in 1 .. n : Ordered(ss[g], g, n, specs[g].advance)
  BY <1>1, AdvancerPartsAre, Zenon
<1> HIDE DEF ss
<1>4. \A g \in 1 .. n : Len(ss[g]) = specs[g].advance /\ specs[g].advance >= 1
  BY <1>1, <1>3, Zenon DEF Ordered, Assigned
<1>5. List(flat) /\ Len(flat) >= n
  <2>1. \A g \in 1 .. n : Len(ss[g]) >= 1
    BY <1>4, Zenon
  <2> QED
    BY <1>3, <2>1, LaidLong, Zenon
<1>6. \A m \in 1 .. Len(flat) : Known(flat[m])
  <2>1. \A g \in 1 .. n : \A k \in 1 .. Len(ss[g]) : Known(ss[g][k])
    <3> SUFFICES ASSUME NEW g \in 1 .. n, NEW k \in 1 .. Len(ss[g]) PROVE Known(ss[g][k])
      OBVIOUS
    <3>1. PICK x : ss[g][k] = placement(x, k)
      <4>1. PICK a : a = specs[g].advance /\ Ordered(ss[g], g, n, a) /\ k \in 1 .. a
        BY <1>3, <1>4, Zenon
      <4>2. PICK x : x = IF k = 2 THEN OtherGroup(g, n) ELSE g
        OBVIOUS
      <4>3. ss[g][k] = placement(x, k)
        BY <4>1, <4>2, Zenon DEF Ordered
      <4> QED
        BY <4>3, Zenon
    <3> QED
      BY <3>1, PlacementKnown, Zenon
  <2> QED
    BY <1>3, <2>1, LaidKnown, Zenon
<1>7. Len(flat) >= 2
  <2>1. CASE n = 1
    <3>1. PICK off : LaidOut(n, ss, flat, off)
      BY <1>3, FlattenedLists, Zenon
    <3>2. 1 \in 1 .. n /\ 1 + 1 = n + 1
      BY <2>1
    <3>3. /\ off[1] = 0 /\ off[n + 1] = off[1] + [r \in 1 .. n |-> Len(ss[r])][1]
          /\ Len(flat) = off[n + 1]
      BY <3>1, <3>2, Zenon DEF LaidOut, Offsets
    <3>4. [r \in 1 .. n |-> Len(ss[r])][1] = Len(ss[1])
      BY <3>2
    <3>5. Len(ss[1]) = specs[1].advance /\ specs[1].advance \in Nat /\ specs[1].advance >= 2
      BY <1>1, <1>4, <2>1, <3>2, Zenon DEF Assigned
    <3>6. PICK a \in Nat : a = specs[1].advance /\ a >= 2
      BY <3>5
    <3>7. Len(flat) = 0 + a
      BY <3>3, <3>4, <3>5, <3>6, Zenon
    <3> QED
      BY <3>6, <3>7
  <2>2. CASE n # 1
    <3>1. PICK l \in Nat : l = Len(flat)
      BY <1>5, ListIs, Zenon
    <3> QED
      BY <1>1, <1>5, <2>2, <3>1
  <2> QED
    BY <2>1, <2>2
<1> HIDE DEF flat
<1> QED
  BY <1>2, <1>5, <1>6, <1>7, PaddedKnocked, Zenon

(* The knockout of an accepted assignment is a bracket that starts with    *)
(* the advancing places.                                                   *)
LEMMA AssignedKnocked ==
  ASSUME NEW specs, Assigned(specs)
  PROVE  Knocked(buildKnockoutFromSlots(advancerSlots(specs)))
  BY AssignedSeats, SeatsKnocked, Zenon

(* The knockout above the winners and runners-up of two groups or more. *)
LEMMA LabelsKnocked ==
  ASSUME NEW n \in Nat, n >= 2, NEW advance
  PROVE  Knocked(buildKnockoutFromSlots(knockoutSeedLabels(n, advance)))
<1> DEFINE e(g) == IF advance > 1 THEN <<placement(g, 1), placement(OtherGroup(g, n), 2)>>
                   ELSE <<placement(g, 1)>>
           ss == [g \in 1 .. n |-> e(g)]
           flat == FlattenSeq(ss)
<1>1. knockoutSeedLabels(n, advance) = flat
  BY DEF knockoutSeedLabels
<1>2. ASSUME NEW g \in 1 .. n
      PROVE  List(e(g)) /\ Len(e(g)) >= 1 /\ \A k \in 1 .. Len(e(g)) : Known(e(g)[k])
  <2>1. PICK x, y : x = placement(g, 1) /\ y = placement(OtherGroup(g, n), 2)
    OBVIOUS
  <2>2. Known(x) /\ Known(y)
    BY <2>1, PlacementKnown, Zenon
  <2>3. CASE advance > 1
    <3>1. e(g) = <<x, y>>
      BY <2>1, <2>3
    <3>2. <<x, y>> \in Seq({x, y}) /\ Len(<<x, y>>) = 2 /\ <<x, y>>[1] = x /\ <<x, y>>[2] = y
      OBVIOUS
    <3>3. List(<<x, y>>)
      BY <3>2, SeqIsList, Zenon
    <3>4. 2 >= 1 /\ \A k \in 1 .. 2 : k = 1 \/ k = 2
      OBVIOUS
    <3> HIDE DEF e
    <3> QED
      BY <2>2, <3>1, <3>2, <3>3, <3>4, Zenon
  <2>4. CASE ~(advance > 1)
    <3>1. e(g) = <<x>>
      BY <2>1, <2>4
    <3>2. List(<<x>>) /\ Len(<<x>>) = 1 /\ <<x>>[1] = x
      BY OneItem, Zenon
    <3>3. 1 >= 1 /\ \A k \in 1 .. 1 : k = 1
      OBVIOUS
    <3> HIDE DEF e
    <3> QED
      BY <2>2, <3>1, <3>2, <3>3, Zenon
  <2> QED
    BY <2>3, <2>4
<1> HIDE DEF e
<1>3. (\A g \in 1 .. n : ss[g] = e(g)) /\ ss = [g \in 1 .. n |-> ss[g]]
  OBVIOUS
<1> HIDE DEF ss
<1>4. Lists(n, ss)
  BY <1>2, <1>3, Zenon DEF Lists
<1>5. List(flat) /\ Len(flat) >= n
  BY <1>2, <1>3, <1>4, LaidLong, Zenon
<1>6. \A m \in 1 .. Len(flat) : Known(flat[m])
  BY <1>2, <1>3, <1>4, LaidKnown, Zenon
<1>7. Len(flat) >= 2
  <2>1. PICK l \in Nat : l = Len(flat)
    BY <1>5, ListIs, Zenon
  <2> QED
    BY <1>5, <2>1
<1> HIDE DEF flat
<1> QED
  BY <1>1, <1>5, <1>6, <1>7, PaddedKnocked, SeatsKnocked, Zenon

(* An assignment makes a tree. *)
LEMMA AssignedTree ==
  ASSUME NEW specs, Assigned(specs)
  PROVE  MadeTree(groupKnockoutFromAssignment(specs))
<1>1. PICK n \in Nat : n = Len(specs) /\ DOMAIN specs = 1 .. n
  BY ListIs, Zenon DEF Assigned
<1> DEFINE groups == [g \in DOMAIN specs |-> specs[g].teams]
           T == {specs[g].teams : g \in 1 .. n}
<1>2. groups \in [1 .. n -> T] /\ \A g \in 1 .. n : groups[g] = specs[g].teams
  BY <1>1
<1>3. groupKnockoutFromAssignment(specs) = TwoStages(groups, buildKnockoutFromSlots(advancerSlots(specs)))
  BY DEF groupKnockoutFromAssignment
<1> HIDE DEF groups, T
<1>4. List(groups) /\ Len(groups) = n
  BY <1>2, ListMade, Zenon
<1>5. Grouping(groups)
  BY <1>1, <1>2, <1>4, Zenon DEF Grouping, Assigned
<1> QED
  BY <1>3, <1>5, AssignedKnocked, StagedBracket, Zenon

(* The ids sorted by seed. *)
SortedIds(entries) == [i \in DOMAIN sortBySeed(entries) |-> sortBySeed(entries)[i].id]

(* The groups of the snake. *)
SnakeGroups(ids, n) == [g \in 1 .. n |-> Picked(ids, {i \in DOMAIN ids : SnakeGroup(i, n) = g})]

(* The ids are a list of the same length. *)
LEMMA SortedList ==
  ASSUME NEW entries, List(entries)
  PROVE  List(SortedIds(entries)) /\ Len(SortedIds(entries)) = Len(entries)
<1>1. PICK n \in Nat : n = Len(entries) /\ DOMAIN entries = 1 .. n
  BY ListIs, Zenon
<1>2. DOMAIN sortBySeed(entries) = 1 .. n
  BY <1>1 DEF sortBySeed
<1> DEFINE e(i) == sortBySeed(entries)[i].id
           s == [i \in 1 .. n |-> e(i)]
           T == {e(i) : i \in 1 .. n}
<1>3. SortedIds(entries) = s
  BY <1>2, Zenon DEF SortedIds
<1> HIDE DEF e
<1>4. s \in [1 .. n -> T]
  OBVIOUS
<1> HIDE DEF s, T
<1> QED
  BY <1>1, <1>3, <1>4, ListMade, Zenon

(* So are the groups. *)
LEMMA SnakeGrouping ==
  ASSUME NEW n \in Nat, NEW ids, List(ids)
  PROVE  Grouping(SnakeGroups(ids, n)) /\ Len(SnakeGroups(ids, n)) = n
<1> DEFINE e(g) == Picked(ids, {i \in DOMAIN ids : SnakeGroup(i, n) = g})
           s == SnakeGroups(ids, n)
           T == {e(g) : g \in 1 .. n}
<1>1. \A g \in 1 .. n : List(e(g))
  BY PickedList, Zenon
<1>2. s = [g \in 1 .. n |-> e(g)]
  BY Zenon DEF SnakeGroups
<1> HIDE DEF e, s
<1>3. s \in [1 .. n -> T] /\ \A g \in 1 .. n : s[g] = e(g)
  BY <1>2
<1> HIDE DEF T
<1>4. List(s) /\ Len(s) = n
  BY <1>3, ListMade, Zenon
<1> QED
  BY <1>1, <1>3, <1>4, Zenon DEF Grouping, s

(* What GenerateGroupKnockout makes of a split it goes on with. *)
LEMMA SnakeDraw ==
  ASSUME NEW entries, List(entries), NEW n \in Int, NEW advance \in Int,
         GenerateGroupKnockout(entries, n, advance) # <<>>
  PROVE  /\ n \in Nat /\ n >= 2
         /\ GenerateGroupKnockout(entries, n, advance) =
               TwoStages(SnakeGroups(SortedIds(entries), n),
                         buildKnockoutFromSlots(knockoutSeedLabels(n, advance)))
<1> DEFINE order == sortBySeed(entries)
           ids   == [i \in DOMAIN order |-> order[i].id]
           group(g) == FlattenSeq([i \in DOMAIN ids |->
                           IF SnakeGroup(i, n) = g THEN <<ids[i]>> ELSE <<>>])
           off == \/ Len(entries) < 4 \/ n < 2 \/ advance < 1
                  \/ n * advance > Len(entries)
<1>1. GenerateGroupKnockout(entries, n, advance) =
         IF off THEN <<>> ELSE TwoStages([g \in 1 .. n |-> group(g)],
                                         buildKnockoutFromSlots(knockoutSeedLabels(n, advance)))
  BY SMT DEF GenerateGroupKnockout
<1>2. ~off
  <2> HIDE DEF off, group
  <2> QED
    BY <1>1, Zenon
<1>3. n \in Nat /\ n >= 2
  <2>1. ~(n < 2)
    BY <1>2, Zenon
  <2> QED
    BY <2>1
<1>4. ids = SortedIds(entries)
  BY Zenon DEF SortedIds
<1> HIDE DEF ids
<1>5. ASSUME NEW g PROVE group(g) = Picked(ids, {i \in DOMAIN ids : SnakeGroup(i, n) = g})
  <2>1. [i \in DOMAIN ids |-> IF SnakeGroup(i, n) = g THEN <<ids[i]>> ELSE <<>>]
        = [i \in DOMAIN ids |-> IF i \in {j \in DOMAIN ids : SnakeGroup(j, n) = g} THEN <<ids[i]>> ELSE <<>>]
    BY Zenon
  <2> QED
    BY <2>1, Zenon DEF Picked
<1> HIDE DEF group
<1>6. [g \in 1 .. n |-> group(g)] = SnakeGroups(ids, n)
  BY <1>5, Zenon DEF SnakeGroups
<1> HIDE DEF off
<1> QED
  BY <1>1, <1>2, <1>3, <1>4, <1>6, Zenon

(* It makes a tree. *)
LEMMA SnakeTree ==
  ASSUME NEW entries, List(entries), NEW n \in Int, NEW advance \in Int,
         GenerateGroupKnockout(entries, n, advance) # <<>>
  PROVE  MadeTree(GenerateGroupKnockout(entries, n, advance))
<1>1. /\ n \in Nat /\ n >= 2
      /\ GenerateGroupKnockout(entries, n, advance) =
            TwoStages(SnakeGroups(SortedIds(entries), n),
                      buildKnockoutFromSlots(knockoutSeedLabels(n, advance)))
  BY SnakeDraw, Zenon
<1>2. List(SortedIds(entries))
  BY SortedList, Zenon
<1>3. Grouping(SnakeGroups(SortedIds(entries), n))
  BY <1>1, <1>2, SnakeGrouping, Zenon
<1>4. Knocked(buildKnockoutFromSlots(knockoutSeedLabels(n, advance)))
  BY <1>1, LabelsKnocked, Zenon
<1> QED
  BY <1>1, <1>3, <1>4, StagedBracket, Zenon

----------------------------------------------------------------------------
(* Every knockout is a tree *)

(* What BracketIsTree says of a call and its rows. *)
TreeDrawn(c, rs) ==
    LET K == {m \in DOMAIN rs : rs[m].group = 0 /\ c.op # "league"}
    IN  K # {} => Tree(rs, K)

(* It is what the invariant says. *)
LEMMA TreeDrawnIs ==
  /\ TreeDrawn(call, rows) => BracketIsTree
  /\ TreeDrawn(call', rows') => BracketIsTree'
  BY DEF TreeDrawn, Tree, BracketIsTree, Knockout

(* A bracket persisted is a tree. *)
LEMMA MadeDrawn ==
  ASSUME NEW c, c.op # "league", NEW ms, MadeTree(ms)
  PROVE  TreeDrawn(c, Persisted(ms))
<1>1. PICK o \in Nat, n \in Nat : \E first : n >= 1 /\ Bracketed(ms, o, n, first) /\ Filled(first, n)
  BY Zenon DEF MadeTree
<1>2. PICK first : n >= 1 /\ Bracketed(ms, o, n, first) /\ Filled(first, n)
  BY <1>1
<1> DEFINE rs == Persisted(ms)
<1>3. {m \in DOMAIN rs : rs[m].group = 0} = o + 1 .. o + (2 * n - 1)
  BY <1>2, KnockoutOf, Zenon
<1>4. Tree(rs, o + 1 .. o + (2 * n - 1))
  BY <1>2, PersistedTree, Zenon
<1> HIDE DEF rs
<1>5. {m \in DOMAIN rs : rs[m].group = 0 /\ c.op # "league"} = {m \in DOMAIN rs : rs[m].group = 0}
  BY Zenon
<1>6. TreeDrawn(c, rs)
  BY <1>3, <1>4, <1>5, Zenon DEF TreeDrawn
<1> QED
  BY <1>6 DEF rs

(* Neither a league nor an empty draw has a knockout. *)
LEMMA NoneDrawn ==
  ASSUME NEW c, NEW rs, c.op = "league" \/ DOMAIN rs = {}
  PROVE  TreeDrawn(c, rs)
<1>1. {m \in DOMAIN rs : rs[m].group = 0 /\ c.op # "league"} = {}
  OBVIOUS
<1> QED
  BY <1>1, Zenon DEF TreeDrawn

(* Neither has a draw of no matches. *)
LEMMA NothingDrawn == \A c : TreeDrawn(c, <<>>) /\ TreeDrawn(c, Persisted(<<>>))
<1>1. DOMAIN <<>> = {}
  OBVIOUS
<1>2. DOMAIN Persisted(<<>>) = {}
  BY <1>1, PersistedDomain, Zenon
<1> QED
  BY <1>1, <1>2, NoneDrawn, Zenon

(* Whatever is drawn is nothing or a tree. *)
LEMMA DrawnTree ==
  ASSUME NEW c, c.op # "league", NEW ms, ms = <<>> \/ MadeTree(ms)
  PROVE  TreeDrawn(c, Persisted(ms))
  BY MadeDrawn, NothingDrawn, Zenon

(* Every persisted knockout, of any field, pairs and assignment, is one    *)
(* tree: every waiting slot has the one feeder that persistWithGroups      *)
(* looks for, one match has no successor, and GetBracket shows each match  *)
(* in the round wireFedRounds gave it.                                     *)
THEOREM DrawsAreTrees == Spec => []BracketIsTree
<1>1. Init => BracketIsTree
  <2> SUFFICES ASSUME Init PROVE TreeDrawn(call, rows)
    BY TreeDrawnIs, Zenon
  <2>1. rows = <<>>
    BY DEF Init
  <2> QED
    BY <2>1, NothingDrawn, Zenon
<1>2. BracketIsTree /\ [Next]_formatVars => BracketIsTree'
  <2> SUFFICES ASSUME BracketIsTree, [Next]_formatVars PROVE BracketIsTree'
    OBVIOUS
  <2>1. CASE Seeded
    <3>1. PICK f \in Fields : Draw([op |-> "seeded", field |-> f], GenerateSingleElimination(f))
      BY <2>1 DEF Seeded
    <3> DEFINE c == [op |-> "seeded", field |-> f]
    <3>2. call' = c /\ rows' = Persisted(GenerateSingleElimination(f))
      BY <3>1, Zenon DEF Draw, Answer
    <3>3. c.op # "league"
      OBVIOUS
    <3> HIDE DEF c
    <3>4. List(f)
      BY FieldsAssumption, SeqIsList, Zenon
    <3>5. GenerateSingleElimination(f) = <<>> \/ MadeTree(GenerateSingleElimination(f))
      <4>1. CASE Len(f) >= 2
        BY <3>4, <4>1, SeededKnocked, PlainBracket, Zenon
      <4>2. CASE ~(Len(f) >= 2)
        <5>1. Len(f) < 2
          <6>1. Len(f) \in Nat
            BY <3>4, ListIs, Zenon
          <6> QED
            BY <4>2, <6>1
        <5> QED
          BY <5>1, Zenon DEF GenerateSingleElimination
      <4> QED
        BY <4>1, <4>2
    <3>6. TreeDrawn(c, Persisted(GenerateSingleElimination(f)))
      BY <3>3, <3>5, DrawnTree, Zenon
    <3> QED
      BY <3>2, <3>6, TreeDrawnIs, Zenon
  <2>2. CASE SeededGroups
    <3>1. PICK f \in Fields, s \in Splits :
             Draw([op |-> "snake", field |-> f, groups |-> s[1], advance |-> s[2]],
                  GenerateGroupKnockout(f, s[1], s[2]))
      BY <2>2 DEF SeededGroups
    <3> DEFINE c == [op |-> "snake", field |-> f, groups |-> s[1], advance |-> s[2]]
    <3>2. call' = c /\ rows' = Persisted(GenerateGroupKnockout(f, s[1], s[2]))
      BY <3>1, Zenon DEF Draw, Answer
    <3>3. c.op # "league"
      OBVIOUS
    <3> HIDE DEF c
    <3>4. List(f) /\ s[1] \in Int /\ s[2] \in Int
      <4>1. List(f)
        BY FieldsAssumption, SeqIsList, Zenon
      <4>2. s[1] \in Int /\ s[2] \in Int
        BY SplitsAssumption
      <4> QED
        BY <4>1, <4>2
    <3>5. GenerateGroupKnockout(f, s[1], s[2]) = <<>> \/ MadeTree(GenerateGroupKnockout(f, s[1], s[2]))
      BY <3>4, SnakeTree, Zenon
    <3>6. TreeDrawn(c, Persisted(GenerateGroupKnockout(f, s[1], s[2])))
      BY <3>3, <3>5, DrawnTree, Zenon
    <3> QED
      BY <3>2, <3>6, TreeDrawnIs, Zenon
  <2>3. CASE RoundRobin
    <3>1. call'.op = "league"
      BY <2>3 DEF RoundRobin, Draw, Answer
    <3>2. TreeDrawn(call', rows')
      BY <3>1, NoneDrawn, Zenon
    <3> QED
      BY <3>2, TreeDrawnIs, Zenon
  <2>4. CASE Build
    <3>1. PICK p \in PairLists :
             Draw([op |-> "build", pairs |-> p],
                  IF validatePairs(p, Registered) THEN GenerateFromPairs(p) ELSE <<>>)
      BY <2>4 DEF Build
    <3> DEFINE c == [op |-> "build", pairs |-> p]
               ms == IF validatePairs(p, Registered) THEN GenerateFromPairs(p) ELSE <<>>
    <3>2. call' = c /\ rows' = Persisted(ms)
      BY <3>1, Zenon DEF Draw, Answer
    <3>3. c.op # "league"
      OBVIOUS
    <3> HIDE DEF c
    <3>4. List(p)
      BY PairListsAssumption, SeqIsList, Zenon
    <3>5. ms = <<>> \/ MadeTree(ms)
      <4>1. ms = <<>> \/ ms = GenerateFromPairs(p)
        BY Zenon
      <4> HIDE DEF ms
      <4>2. GenerateFromPairs(p) = <<>> \/ Knocked(GenerateFromPairs(p))
        BY <3>4, PairsKnocked, Zenon
      <4> QED
        BY <4>1, <4>2, PlainBracket, Zenon
    <3> HIDE DEF ms
    <3>6. TreeDrawn(c, Persisted(ms))
      BY <3>3, <3>5, DrawnTree, Zenon
    <3> QED
      BY <3>2, <3>6, TreeDrawnIs, Zenon
  <2>5. CASE SetGroups
    <3>1. PICK a \in Assignments :
             Draw([op |-> "groups", specs |-> a],
                  IF SetGroupsValid(a, Registered) THEN groupKnockoutFromAssignment(a) ELSE <<>>)
      BY <2>5 DEF SetGroups
    <3> DEFINE c == [op |-> "groups", specs |-> a]
               ms == IF SetGroupsValid(a, Registered) THEN groupKnockoutFromAssignment(a) ELSE <<>>
    <3>2. call' = c /\ rows' = Persisted(ms)
      BY <3>1, Zenon DEF Draw, Answer
    <3>3. c.op # "league"
      OBVIOUS
    <3> HIDE DEF c
    <3>4. SetGroupsValid(a, Registered) => MadeTree(groupKnockoutFromAssignment(a))
      <4> SUFFICES ASSUME SetGroupsValid(a, Registered) PROVE MadeTree(groupKnockoutFromAssignment(a))
        OBVIOUS
      <4>1. a \in Seq([teams : Seq(Nat), advance : Int])
        BY AssignmentsAssumption, Zenon
      <4>2. Assigned(a)
        BY <4>1, ValidAssigned, Zenon
      <4> QED
        BY <4>2, AssignedTree, Zenon
    <3>5. ms = <<>> \/ MadeTree(ms)
      BY <3>4, Zenon
    <3> HIDE DEF ms
    <3>6. TreeDrawn(c, Persisted(ms))
      BY <3>3, <3>5, DrawnTree, Zenon
    <3> QED
      BY <3>2, <3>6, TreeDrawnIs, Zenon
  <2>6. CASE SubmitScore
    <3>1. rows' = <<>>
      BY <2>6, Zenon DEF SubmitScore, Answer
    <3> QED
      BY <3>1, NothingDrawn, TreeDrawnIs, Zenon
  <2>7. CASE Return
    <3>1. rows' = <<>>
      BY <2>7, Zenon DEF Return
    <3> QED
      BY <3>1, NothingDrawn, TreeDrawnIs, Zenon
  <2>8. CASE UNCHANGED formatVars
    BY <2>8 DEF formatVars, BracketIsTree, Knockout
  <2> QED
    BY <2>1, <2>2, <2>3, <2>4, <2>5, <2>6, <2>7, <2>8, Zenon DEF Next, Call
<1> QED
  BY <1>1, <1>2, PTL DEF Spec

----------------------------------------------------------------------------
(* The circle method *)

(* The place that the element of place i has after r turns of n. *)
PlaceAfter(n, r, i) == IF i = 1 THEN 1 ELSE IF i + r <= n THEN i + r ELSE i + r - (n - 1)

(* Shifted and PlaceAfter undo each other. *)
Around(n, r) ==
    /\ \A k \in 1 .. n : Shifted(n, r, k) \in 1 .. n /\ PlaceAfter(n, r, Shifted(n, r, k)) = k
    /\ \A i \in 1 .. n : PlaceAfter(n, r, i) \in 1 .. n /\ Shifted(n, r, PlaceAfter(n, r, i)) = i

(* Turning moves the places around. *)
LEMMA TurnedPlaces == ASSUME NEW n \in Nat, n >= 2, NEW r \in Nat, r <= n - 2 PROVE Around(n, r)
  BY DEF Around, Shifted, PlaceAfter

(* The places i and j are opposite each other after r turns. *)
Opposite(n, r, i, j) == PlaceAfter(n, r, i) + PlaceAfter(n, r, j) = n + 1

(* Two places are opposite after one number of turns. *)
LEMMA OppositeOnce ==
  ASSUME NEW n \in Nat, n >= 2, NEW h \in Nat, n = 2 * h,
         NEW i \in 1 .. n, NEW j \in 1 .. n, i # j
  PROVE  /\ \E r \in 0 .. n - 2 : Opposite(n, r, i, j)
         /\ \A r, q \in 0 .. n - 2 : Opposite(n, r, i, j) /\ Opposite(n, q, i, j) => r = q
<1>1. \E r \in 0 .. n - 2 : Opposite(n, r, i, j)
  <2>1. CASE i = 1
    <3>1. n - j \in 0 .. n - 2 /\ Opposite(n, n - j, i, j)
      BY <2>1 DEF Opposite, PlaceAfter
    <3> QED
      BY <3>1
  <2>2. CASE j = 1
    <3>1. n - i \in 0 .. n - 2 /\ Opposite(n, n - i, i, j)
      BY <2>2 DEF Opposite, PlaceAfter
    <3> QED
      BY <3>1
  <2>3. CASE i # 1 /\ j # 1
    <3>1. PICK d \in Nat : i + j = 2 * d \/ i + j = 2 * d + 1
      <4>1. PICK s \in Nat : s = i + j
        OBVIOUS
      <4>2. s \div 2 \in Nat /\ (s = 2 * (s \div 2) \/ s = 2 * (s \div 2) + 1)
        OBVIOUS
      <4> QED
        BY <4>1, <4>2
    <3>2. CASE i + j = 2 * d
      <4>1. n - d \in 0 .. n - 2 /\ Opposite(n, n - d, i, j)
        BY <2>3, <3>2 DEF Opposite, PlaceAfter
      <4> QED
        BY <4>1
    <3>3. CASE i + j = 2 * d + 1 /\ i + j <= n + 1
      <4>1. h - d \in 0 .. n - 2 /\ Opposite(n, h - d, i, j)
        BY <2>3, <3>3 DEF Opposite, PlaceAfter
      <4> QED
        BY <4>1
    <3>4. CASE i + j = 2 * d + 1 /\ ~(i + j <= n + 1)
      <4>1. 3 * h - 1 - d \in 0 .. n - 2 /\ Opposite(n, 3 * h - 1 - d, i, j)
        BY <2>3, <3>4 DEF Opposite, PlaceAfter
      <4> QED
        BY <4>1
    <3> QED
      BY <3>1, <3>2, <3>3, <3>4
  <2> QED
    BY <2>1, <2>2, <2>3
<1>2. ASSUME NEW r \in 0 .. n - 2, NEW q \in 0 .. n - 2, Opposite(n, r, i, j), Opposite(n, q, i, j)
      PROVE  r = q
  BY <1>2 DEF Opposite, PlaceAfter
<1> QED
  BY <1>1, <1>2

(* i and j are the places of the pair k of round r. *)
Meets(n, r, k, i, j) ==
    (Home(n, r, k) = i /\ Away(n, r, k) = j) \/ (Home(n, r, k) = j /\ Away(n, r, k) = i)

(* i and j meet as the pair k of round r and never else. *)
OnlyMeet(n, h, r, k, i, j) ==
    /\ Meets(n, r, k, i, j)
    /\ \A q \in 1 .. n - 1 : \A l \in 1 .. h : Meets(n, q, l, i, j) => q = r /\ l = k

(* The places of the pair k of round r are two, opposite each other. *)
Seats(n, r, k) ==
    /\ Home(n, r, k) \in 1 .. n /\ Away(n, r, k) \in 1 .. n /\ Home(n, r, k) # Away(n, r, k)
    /\ PlaceAfter(n, r - 1, Home(n, r, k)) = k /\ PlaceAfter(n, r - 1, Away(n, r, k)) = n + 1 - k

(* The places of a pair are two places, opposite each other. *)
LEMMA PairPlaces ==
  ASSUME NEW n \in Nat, n >= 2, NEW h \in Nat, n = 2 * h, NEW r \in 1 .. n - 1, NEW k \in 1 .. h
  PROVE  Seats(n, r, k)
<1>1. r - 1 \in Nat /\ r - 1 <= n - 2 /\ k \in 1 .. n /\ n + 1 - k \in 1 .. n /\ k # n + 1 - k
  OBVIOUS
<1>2. /\ Home(n, r, k) \in 1 .. n /\ PlaceAfter(n, r - 1, Home(n, r, k)) = k
      /\ Away(n, r, k) \in 1 .. n /\ PlaceAfter(n, r - 1, Away(n, r, k)) = n + 1 - k
  <2>1. Around(n, r - 1)
    BY <1>1, TurnedPlaces, Zenon
  <2> QED
    BY <1>1, <2>1, Zenon DEF Around, Home, Away
<1>3. Home(n, r, k) # Away(n, r, k)
  BY <1>1, <1>2, Zenon
<1> QED
  BY <1>2, <1>3, Zenon DEF Seats

(* Every two places meet once. *)
LEMMA CircleOnce ==
  ASSUME NEW n \in Nat, n >= 2, NEW h \in Nat, n = 2 * h,
         NEW i \in 1 .. n, NEW j \in 1 .. n, i # j
  PROVE  \E r \in 1 .. n - 1 : \E k \in 1 .. h : OnlyMeet(n, h, r, k, i, j)
<1>1. PICK r \in 0 .. n - 2 : Opposite(n, r, i, j)
  BY OppositeOnce
<1>2. r + 1 \in 1 .. n - 1 /\ (r + 1) - 1 = r /\ r \in Nat /\ r <= n - 2
  OBVIOUS
<1>3. PICK x \in 1 .. n, y \in 1 .. n :
         x = PlaceAfter(n, r, i) /\ y = PlaceAfter(n, r, j) /\ Shifted(n, r, x) = i /\ Shifted(n, r, y) = j
  <2>1. Around(n, r)
    BY <1>2, TurnedPlaces, Zenon
  <2> QED
    BY <2>1, Zenon DEF Around
<1>4. x + y = n + 1
  BY <1>1, <1>3 DEF Opposite
<1>5. \E k \in 1 .. h : Meets(n, r + 1, k, i, j)
  <2>1. CASE x <= h
    <3>1. x \in 1 .. h /\ n + 1 - x = y
      BY <1>4, <2>1
    <3> QED
      BY <1>2, <1>3, <3>1, Zenon DEF Meets, Home, Away
  <2>2. CASE ~(x <= h)
    <3>1. y \in 1 .. h /\ n + 1 - y = x
      BY <1>4, <2>2
    <3> QED
      BY <1>2, <1>3, <3>1, Zenon DEF Meets, Home, Away
  <2> QED
    BY <2>1, <2>2
<1>6. PICK k \in 1 .. h : Meets(n, r + 1, k, i, j)
  BY <1>5
<1>7. ASSUME NEW q \in 1 .. n - 1, NEW l \in 1 .. h, Meets(n, q, l, i, j)
      PROVE  /\ Opposite(n, q - 1, i, j)
             /\ (PlaceAfter(n, q - 1, i) = l \/ PlaceAfter(n, q - 1, j) = l)
             /\ {PlaceAfter(n, q - 1, i), PlaceAfter(n, q - 1, j)} = {l, n + 1 - l}
  <2>1. PlaceAfter(n, q - 1, Home(n, q, l)) = l /\ PlaceAfter(n, q - 1, Away(n, q, l)) = n + 1 - l
    <3>1. Seats(n, q, l)
      BY PairPlaces, Zenon
    <3> QED
      BY <3>1, Zenon DEF Seats
  <2>2. l + (n + 1 - l) = n + 1 /\ (n + 1 - l) + l = n + 1
    OBVIOUS
  <2>3. CASE Home(n, q, l) = i /\ Away(n, q, l) = j
    BY <2>1, <2>2, <2>3, Zenon DEF Opposite
  <2>4. CASE Home(n, q, l) = j /\ Away(n, q, l) = i
    BY <2>1, <2>2, <2>4, Zenon DEF Opposite
  <2> QED
    BY <1>7, <2>3, <2>4, Zenon DEF Meets
<1>8. ASSUME NEW q \in 1 .. n - 1, NEW l \in 1 .. h, Meets(n, q, l, i, j)
      PROVE  q = r + 1 /\ l = k
  <2>1. q - 1 \in 0 .. n - 2 /\ r \in 0 .. n - 2
    OBVIOUS
  <2>2. Opposite(n, q - 1, i, j)
    BY <1>7, <1>8, Zenon
  <2>3. q - 1 = r
    BY <1>1, <2>1, <2>2, OppositeOnce
  <2>4. q = r + 1
    BY <2>3
  <2>5. {PlaceAfter(n, r, i), PlaceAfter(n, r, j)} = {l, n + 1 - l}
    BY <1>7, <1>8, <2>3, Zenon
  <2>6. {PlaceAfter(n, r, i), PlaceAfter(n, r, j)} = {k, n + 1 - k}
    BY <1>2, <1>6, <1>7, Zenon
  <2>7. l = k \/ l = n + 1 - k
    BY <2>5, <2>6, Zenon
  <2>8. l = k
    BY <2>7
  <2> QED
    BY <2>4, <2>8
<1>9. OnlyMeet(n, h, r + 1, k, i, j)
  BY <1>6, <1>8, Zenon DEF OnlyMeet
<1> QED
  BY <1>2, <1>9

(* In a round no place is in two pairs. *)
LEMMA CircleRound ==
  ASSUME NEW n \in Nat, n >= 2, NEW h \in Nat, n = 2 * h, NEW r \in 1 .. n - 1,
         NEW k \in 1 .. h, NEW l \in 1 .. h, k # l
  PROVE  {Home(n, r, k), Away(n, r, k)} \cap {Home(n, r, l), Away(n, r, l)} = {}
<1>1. /\ PlaceAfter(n, r - 1, Home(n, r, k)) = k /\ PlaceAfter(n, r - 1, Away(n, r, k)) = n + 1 - k
      /\ PlaceAfter(n, r - 1, Home(n, r, l)) = l /\ PlaceAfter(n, r - 1, Away(n, r, l)) = n + 1 - l
  <2>1. Seats(n, r, k) /\ Seats(n, r, l)
    BY PairPlaces, Zenon
  <2> QED
    BY <2>1, Zenon DEF Seats
<1>2. k # n + 1 - l /\ n + 1 - k # l /\ n + 1 - k # n + 1 - l
  OBVIOUS
<1> QED
  BY <1>1, <1>2, Zenon

----------------------------------------------------------------------------
(* Every two teams meet once *)

(* The teams in the slots of a match. *)
TeamsOf(x) == {x.slots[k].team : k \in 1 .. 2}

(* x is a group match of a and b in round r. *)
Between(x, r, a, b) ==
    /\ x.round = r /\ x.next = 0 /\ TeamsOf(x) = {a, b}
    /\ \A k \in 1 .. 2 : x.slots[k].type # "empty"

(* A meeting is between its two teams. *)
LEMMA MeetingTeams == ASSUME NEW x, NEW r, NEW a, NEW b, Meeting(x, r, a, b) PROVE Between(x, r, a, b)
<1>1. PICK pos : x = MatchOf(r, pos, <<pairSlot(a), pairSlot(b)>>, 0, 0)
  BY DEF Meeting
<1>2. ASSUME NEW c PROVE pairSlot(c).team = c /\ pairSlot(c).type # "empty"
  BY DEF pairSlot, Slot, Bye
<1> DEFINE p == pairSlot(a)
           q == pairSlot(b)
<1>3. p.team = a /\ q.team = b /\ p.type # "empty" /\ q.type # "empty"
  BY <1>2
<1> HIDE DEF p, q
<1>4. x.round = r /\ x.next = 0 /\ x.slots[1] = p /\ x.slots[2] = q
  BY <1>1 DEF MatchOf, p, q
<1>5. 1 .. 2 = {1, 2}
  OBVIOUS
<1>6. TeamsOf(x) = {a, b}
  BY <1>3, <1>4, <1>5 DEF TeamsOf
<1>7. \A k \in 1 .. 2 : x.slots[k].type # "empty"
  BY <1>3, <1>4, <1>5
<1> QED
  BY <1>4, <1>6, <1>7, Zenon DEF Between

(* The matches of rs at D are a round robin of T. *)
OnlyHere(rs, D, m, s, t) ==
    TeamsOf(rs[m]) = {s, t} /\ \A q \in D : TeamsOf(rs[q]) = {s, t} => q = m

(* Two matches of one round have no team in common. *)
Apart(rs, m, q) == m # q /\ rs[m].round = rs[q].round => TeamsOf(rs[m]) \cap TeamsOf(rs[q]) = {}

(* The matches D are a round robin of the teams T. *)
FairOn(rs, D, T) ==
    /\ \A m \in D : TeamsOf(rs[m]) \subseteq T
    /\ \A s, t \in T : s # t => \E m \in D : OnlyHere(rs, D, m, s, t)
    /\ \A m, q \in D : Apart(rs, m, q)

(* The teams of ids are different, and none is nil. *)
Distinct(ids) ==
    /\ \A i \in 1 .. Len(ids) : ids[i] # 0
    /\ \A i, j \in 1 .. Len(ids) : ids[i] = ids[j] => i = j

(* No team has two places. *)
Spread(P, n) == \A i, j \in 1 .. n : P[i] # 0 /\ P[i] = P[j] => i = j

(* Match m is the pair k of round r, with the teams of the places i and j. *)
PairAt(M, P, n, h, at, m, r, k, i, j) ==
    /\ r \in 1 .. n - 1 /\ k \in 1 .. h /\ i \in 1 .. n /\ j \in 1 .. n /\ i # j
    /\ i = Home(n, r, k) /\ j = Away(n, r, k) /\ P[i] # 0 /\ P[j] # 0
    /\ m = at[<<r, k>>] /\ Between(M[m], r, P[i], P[j])

(* Every match of a league is one of its pairs. *)
LEMMA EveryPair ==
  ASSUME NEW n \in Nat, n >= 2, NEW h \in Nat, n = 2 * h, NEW M, NEW P, NEW at,
         LeagueMade(M, n, h, P, at), NEW m \in 1 .. Len(M)
  PROVE  \E r, k, i, j : PairAt(M, P, n, h, at, m, r, k, i, j)
<1>1. PICK r \in 1 .. n - 1 : \E k \in 1 .. h : Sit(P, Home(n, r, k), Away(n, r, k)) /\ at[<<r, k>>] = m
  BY Zenon DEF LeagueMade
<1>2. PICK k \in 1 .. h : Sit(P, Home(n, r, k), Away(n, r, k)) /\ at[<<r, k>>] = m
  BY <1>1
<1>3. Seats(n, r, k)
  BY PairPlaces, Zenon
<1>4. Meeting(M[m], r, P[Home(n, r, k)], P[Away(n, r, k)])
  BY <1>2, Zenon DEF LeagueMade
<1>5. Between(M[m], r, P[Home(n, r, k)], P[Away(n, r, k)])
  BY <1>4, MeetingTeams, Zenon
<1>6. PairAt(M, P, n, h, at, m, r, k, Home(n, r, k), Away(n, r, k))
  BY <1>2, <1>3, <1>5, Zenon DEF PairAt, Seats, Sit
<1> QED
  BY <1>6

(* Every two teams make one pair. *)
LEMMA OnePair ==
  ASSUME NEW n \in Nat, n >= 2, NEW h \in Nat, n = 2 * h, NEW M, NEW P, NEW at,
         LeagueMade(M, n, h, P, at), Spread(P, n),
         NEW i \in 1 .. n, NEW j \in 1 .. n, i # j, P[i] # 0, P[j] # 0
  PROVE  \E m \in 1 .. Len(M) : OnlyHere(M, 1 .. Len(M), m, P[i], P[j])
<1>1. PICK r \in 1 .. n - 1 : \E k \in 1 .. h : OnlyMeet(n, h, r, k, i, j)
  BY CircleOnce, Zenon
<1>2. PICK k \in 1 .. h : OnlyMeet(n, h, r, k, i, j)
  BY <1>1
<1> DEFINE m == at[<<r, k>>]
<1>3. (Home(n, r, k) = i /\ Away(n, r, k) = j) \/ (Home(n, r, k) = j /\ Away(n, r, k) = i)
  BY <1>2, Zenon DEF OnlyMeet, Meets
<1>4. Sit(P, Home(n, r, k), Away(n, r, k))
  BY <1>3, Zenon DEF Sit
<1>5. m \in 1 .. Len(M) /\ Meeting(M[m], r, P[Home(n, r, k)], P[Away(n, r, k)])
  BY <1>4, Zenon DEF LeagueMade
<1> HIDE DEF m
<1>6. TeamsOf(M[m]) = {P[Home(n, r, k)], P[Away(n, r, k)]}
  <2>1. Between(M[m], r, P[Home(n, r, k)], P[Away(n, r, k)])
    BY <1>5, MeetingTeams, Zenon
  <2> QED
    BY <2>1, Zenon DEF Between
<1>7. TeamsOf(M[m]) = {P[i], P[j]}
  BY <1>3, <1>6
<1>8. ASSUME NEW q \in 1 .. Len(M), TeamsOf(M[q]) = {P[i], P[j]} PROVE q = m
  <2>1. PICK e, l, x, y : PairAt(M, P, n, h, at, q, e, l, x, y)
    BY EveryPair, Zenon
  <2>2. {P[x], P[y]} = {P[i], P[j]} /\ x \in 1 .. n /\ y \in 1 .. n /\ P[x] # 0 /\ P[y] # 0 /\ x # y
    BY <1>8, <2>1, Zenon DEF PairAt, Between
  <2>3. (P[x] = P[i] /\ P[y] = P[j]) \/ (P[x] = P[j] /\ P[y] = P[i])
    <3>1. P[x] # P[y]
      BY <2>2, Zenon DEF Spread
    <3> QED
      BY <2>2, <3>1
  <2>4. (x = i /\ y = j) \/ (x = j /\ y = i)
    BY <2>2, <2>3, Zenon DEF Spread
  <2>5. e \in 1 .. n - 1 /\ l \in 1 .. h /\ Meets(n, e, l, i, j) /\ q = at[<<e, l>>]
    BY <2>1, <2>4, Zenon DEF PairAt, Meets
  <2>6. e = r /\ l = k
    BY <1>2, <2>5, Zenon DEF OnlyMeet
  <2> QED
    BY <2>5, <2>6, Zenon DEF m
<1>9. OnlyHere(M, 1 .. Len(M), m, P[i], P[j])
  BY <1>7, <1>8, Zenon DEF OnlyHere
<1> QED
  BY <1>5, <1>9

(* Nobody plays twice in a round. *)
LEMMA PairsApart ==
  ASSUME NEW n \in Nat, n >= 2, NEW h \in Nat, n = 2 * h, NEW M, NEW P, NEW at,
         LeagueMade(M, n, h, P, at), Spread(P, n), NEW m \in 1 .. Len(M), NEW q \in 1 .. Len(M)
  PROVE  Apart(M, m, q)
<1> SUFFICES ASSUME m # q, M[m].round = M[q].round PROVE TeamsOf(M[m]) \cap TeamsOf(M[q]) = {}
  BY Zenon DEF Apart
<1>1. PICK r, k, i, j : PairAt(M, P, n, h, at, m, r, k, i, j)
  BY EveryPair, Zenon
<1>2. PICK e, l, x, y : PairAt(M, P, n, h, at, q, e, l, x, y)
  BY EveryPair, Zenon
<1>3. e = r
  BY <1>1, <1>2, Zenon DEF PairAt, Between
<1>4. k # l
  BY <1>1, <1>2, <1>3, Zenon DEF PairAt
<1>5. r \in 1 .. n - 1 /\ k \in 1 .. h /\ l \in 1 .. h
  BY <1>1, <1>2, Zenon DEF PairAt
<1>6. {Home(n, r, k), Away(n, r, k)} \cap {Home(n, r, l), Away(n, r, l)} = {}
  BY <1>4, <1>5, CircleRound, Zenon
<1>7. {i, j} \cap {x, y} = {}
  BY <1>1, <1>2, <1>3, <1>6, Zenon DEF PairAt
<1>8. i # x /\ i # y /\ j # x /\ j # y
  BY <1>7
<1>9. /\ i \in 1 .. n /\ j \in 1 .. n /\ x \in 1 .. n /\ y \in 1 .. n /\ P[i] # 0 /\ P[j] # 0
      /\ TeamsOf(M[m]) = {P[i], P[j]} /\ TeamsOf(M[q]) = {P[x], P[y]}
  BY <1>1, <1>2, Zenon DEF PairAt, Between
<1>10. P[i] # P[x] /\ P[i] # P[y] /\ P[j] # P[x] /\ P[j] # P[y]
  BY <1>8, <1>9, Zenon DEF Spread
<1> QED
  BY <1>9, <1>10

(* A league of different teams is a round robin. *)
LEMMA RobinFair ==
  ASSUME NEW ids, List(ids), Distinct(ids)
  PROVE  FairOn(GenerateRoundRobin(ids), 1 .. Len(GenerateRoundRobin(ids)), Items(ids))
<1> DEFINE M == GenerateRoundRobin(ids)
           D == 1 .. Len(M)
<1>1. PICK l \in Nat : l = Len(ids)
  BY ListIs, Zenon
<1>2. CASE l < 2
  <2>1. M = <<>>
    BY <1>1, <1>2 DEF GenerateRoundRobin
  <2>2. D = {}
    <3>1. Len(M) = 0
      BY <2>1, NoItems, Zenon
    <3> HIDE DEF M
    <3> QED
      BY <3>1
  <2>3. ASSUME NEW s \in Items(ids), NEW t \in Items(ids) PROVE s = t
    <3>1. PICK i \in 1 .. l, j \in 1 .. l : s = ids[i] /\ t = ids[j]
      BY <1>1, Zenon DEF Items
    <3>2. i = j
      BY <1>2
    <3> QED
      BY <3>1, <3>2
  <2> HIDE DEF M, D
  <2>4. FairOn(M, D, Items(ids))
    <3>1. \A m \in D : FALSE
      BY <2>2
    <3> QED
      BY <2>3, <3>1, Zenon DEF FairOn
  <2> QED
    BY <2>4 DEF M, D
<1>3. CASE ~(l < 2)
  <2>1. Len(ids) >= 2
    BY <1>1, <1>3
  <2>2. PICK n \in Nat, h \in Nat : \E P, at : Robin(M, ids, n, h, P, at)
    BY <2>1, RobinIs, Zenon
  <2>3. PICK P, at : Robin(M, ids, n, h, P, at)
    BY <2>2
  <2> HIDE DEF M
  <2>4. h >= 1 /\ n = 2 * h /\ (n = l \/ n = l + 1) /\ LeagueMade(M, n, h, P, at)
    BY <1>1, <2>3, Zenon DEF Robin
  <2>5. n >= 2
    BY <2>4
  <2>6. \A i \in 1 .. n : (i \in 1 .. l /\ P[i] = ids[i] /\ ids[i] # 0) \/ P[i] = 0
    <3> SUFFICES ASSUME NEW i \in 1 .. n
                 PROVE  (i \in 1 .. l /\ P[i] = ids[i] /\ ids[i] # 0) \/ P[i] = 0
      OBVIOUS
    <3>1. i \in 1 .. l \/ i > l
      OBVIOUS
    <3> QED
      BY <1>1, <2>3, <3>1, Zenon DEF Robin, Distinct
  <2>7. Spread(P, n)
    BY <1>1, <2>6, Zenon DEF Spread, Distinct
  <2>8. ASSUME NEW m \in D PROVE TeamsOf(M[m]) \subseteq Items(ids)
    <3>1. PICK r, k, i, j : PairAt(M, P, n, h, at, m, r, k, i, j)
      BY <2>4, <2>5, EveryPair, Zenon
    <3>2. /\ TeamsOf(M[m]) = {P[i], P[j]}
          /\ i \in 1 .. n /\ j \in 1 .. n /\ P[i] # 0 /\ P[j] # 0
      BY <3>1, Zenon DEF PairAt, Between
    <3>3. P[i] \in Items(ids) /\ P[j] \in Items(ids)
      BY <1>1, <2>6, <3>2, Zenon DEF Items
    <3> QED
      BY <3>2, <3>3
  <2>9. ASSUME NEW s \in Items(ids), NEW t \in Items(ids), s # t
        PROVE  \E m \in D : OnlyHere(M, D, m, s, t)
    <3>1. PICK i \in 1 .. l, j \in 1 .. l : s = ids[i] /\ t = ids[j]
      BY <1>1, Zenon DEF Items
    <3>2. i \in 1 .. n /\ j \in 1 .. n
      BY <2>4
    <3>3. i # j
      BY <2>9, <3>1
    <3>4. P[i] = s /\ P[j] = t /\ s # 0 /\ t # 0
      BY <1>1, <2>3, <3>1, Zenon DEF Robin, Distinct
    <3>5. P[i] # 0 /\ P[j] # 0
      BY <3>4
    <3>6. \E m \in D : OnlyHere(M, D, m, P[i], P[j])
      BY <2>4, <2>5, <2>7, <3>2, <3>3, <3>5, OnePair, Zenon
    <3> QED
      BY <3>4, <3>6, Zenon
  <2>10. ASSUME NEW m \in D, NEW q \in D PROVE Apart(M, m, q)
    BY <2>4, <2>5, <2>7, PairsApart, Zenon
  <2> HIDE DEF D
  <2>11. FairOn(M, D, Items(ids))
    BY <2>8, <2>9, <2>10, Zenon DEF FairOn
  <2> QED
    BY <2>11 DEF M, D
<1> QED
  BY <1>2, <1>3

(* y has the teams and the round of x. *)
Alike(y, x) == TeamsOf(y) = TeamsOf(x) /\ y.round = x.round

(* f numbers the matches of M at D anew, those of rs at E. *)
Renumbered(rs, E, M, D, f) ==
    /\ \A x \in D : f[x] \in E /\ Alike(rs[f[x]], M[x])
    /\ \A m \in E : \E x \in D : f[x] = m

(* A round robin numbered anew is one. *)
LEMMA FairMoved ==
  ASSUME NEW rs, NEW E, NEW M, NEW D, NEW f, NEW T, Renumbered(rs, E, M, D, f), FairOn(M, D, T)
  PROVE  FairOn(rs, E, T)
<1>1. ASSUME NEW m \in E PROVE TeamsOf(rs[m]) \subseteq T
  <2>1. PICK x \in D : f[x] = m
    BY Zenon DEF Renumbered
  <2>2. TeamsOf(rs[m]) = TeamsOf(M[x])
    BY <2>1, Zenon DEF Renumbered, Alike
  <2>3. TeamsOf(M[x]) \subseteq T
    BY Zenon DEF FairOn
  <2> QED
    BY <2>2, <2>3
<1>2. ASSUME NEW s \in T, NEW t \in T, s # t PROVE \E m \in E : OnlyHere(rs, E, m, s, t)
  <2>1. PICK x \in D : OnlyHere(M, D, x, s, t)
    BY <1>2, Zenon DEF FairOn
  <2>2. f[x] \in E /\ TeamsOf(rs[f[x]]) = {s, t}
    BY <2>1, Zenon DEF Renumbered, Alike, OnlyHere
  <2>3. ASSUME NEW q \in E, TeamsOf(rs[q]) = {s, t} PROVE q = f[x]
    <3>1. PICK y \in D : f[y] = q
      BY Zenon DEF Renumbered
    <3>2. TeamsOf(M[y]) = {s, t}
      BY <2>3, <3>1, Zenon DEF Renumbered, Alike
    <3>3. y = x
      BY <2>1, <3>2, Zenon DEF OnlyHere
    <3> QED
      BY <3>1, <3>3, Zenon
  <2> QED
    BY <2>2, <2>3, Zenon DEF OnlyHere
<1>3. ASSUME NEW m \in E, NEW q \in E PROVE Apart(rs, m, q)
  <2> SUFFICES ASSUME m # q, rs[m].round = rs[q].round PROVE TeamsOf(rs[m]) \cap TeamsOf(rs[q]) = {}
    BY Zenon DEF Apart
  <2>1. PICK x \in D : f[x] = m
    BY Zenon DEF Renumbered
  <2>2. PICK y \in D : f[y] = q
    BY Zenon DEF Renumbered
  <2>3. Alike(rs[m], M[x]) /\ Alike(rs[q], M[y])
    BY <2>1, <2>2, Zenon DEF Renumbered
  <2>4. x # y /\ M[x].round = M[y].round
    BY <2>1, <2>2, <2>3, Zenon DEF Alike
  <2>5. TeamsOf(M[x]) \cap TeamsOf(M[y]) = {}
    BY <2>4, Zenon DEF FairOn, Apart
  <2> QED
    BY <2>3, <2>5, Zenon DEF Alike
<1> QED
  BY <1>1, <1>2, <1>3, Zenon DEF FairOn

(* What MeetOnce says of a call and its rows. *)
MetOnce(rs, GS, g) ==
    LET stage == {m \in GS : rs[m].group = g}
        teams == UNION {TeamsOf(rs[m]) : m \in stage}
    IN  /\ 0 \notin teams
        /\ \A m \in GS \ stage : TeamsOf(rs[m]) \cap teams = {}
        /\ \A s, t \in teams : s # t => Cardinality({m \in stage : TeamsOf(rs[m]) = {s, t}}) = 1
        /\ \A m, n \in stage : m # n /\ rs[m].round = rs[n].round => TeamsOf(rs[m]) \cap TeamsOf(rs[n]) = {}

(* The group stage of a call's rows, and its meetings. *)
StageOf(c, rs) == DOMAIN rs \ {m \in DOMAIN rs : rs[m].group = 0 /\ c.op # "league"}

MeetDrawn(c, rs) == \A g \in {rs[m].group : m \in StageOf(c, rs)} : MetOnce(rs, StageOf(c, rs), g)

(* It is what the invariant says. *)
LEMMA MeetDrawnIs ==
  /\ MeetDrawn(call, rows) <=> MeetOnce
  /\ MeetDrawn(call', rows') => MeetOnce'
  BY DEF MeetDrawn, MetOnce, StageOf, MeetOnce, GroupStage, Knockout, Entrants, TeamsOf

(* T[g] are the teams of group g, and its matches are their round robin. *)
FairStage(rs, GS, T) ==
    /\ \A m \in GS : FairOn(rs, {q \in GS : rs[q].group = rs[m].group}, T[rs[m].group])
    /\ \A m \in GS : 0 \notin T[rs[m].group]
    /\ \A m, q \in GS : rs[m].group # rs[q].group => T[rs[m].group] \cap T[rs[q].group] = {}

(* Separate round robins are what MeetOnce asks for. *)
LEMMA StageMeets ==
  ASSUME NEW rs, NEW GS, NEW T, FairStage(rs, GS, T), NEW g \in {rs[m].group : m \in GS}
  PROVE  MetOnce(rs, GS, g)
<1> DEFINE stage == {m \in GS : rs[m].group = g}
           teams == UNION {TeamsOf(rs[m]) : m \in stage}
<1>1. FairOn(rs, stage, T[g]) /\ 0 \notin T[g]
  BY Zenon DEF FairStage
<1>2. \A m \in stage : TeamsOf(rs[m]) \subseteq T[g]
  <2> HIDE DEF stage
  <2> QED
    BY <1>1, Zenon DEF FairOn
<1>3. teams \subseteq T[g]
  <2> HIDE DEF stage
  <2> QED
    BY <1>2
<1>4. 0 \notin teams
  BY <1>1, <1>3
<1>5. ASSUME NEW m \in GS \ stage PROVE TeamsOf(rs[m]) \cap teams = {}
  <2>1. rs[m].group # g /\ m \in GS
    OBVIOUS
  <2>2. T[rs[m].group] \cap T[g] = {}
    BY <2>1, Zenon DEF FairStage
  <2>3. TeamsOf(rs[m]) \subseteq T[rs[m].group]
    <3>1. FairOn(rs, {q \in GS : rs[q].group = rs[m].group}, T[rs[m].group])
      BY <2>1, Zenon DEF FairStage
    <3>2. m \in {q \in GS : rs[q].group = rs[m].group}
      BY <2>1
    <3> QED
      BY <3>1, <3>2, Zenon DEF FairOn
  <2> HIDE DEF teams
  <2> QED
    BY <1>3, <2>2, <2>3
<1>6. ASSUME NEW s \in teams, NEW t \in teams, s # t
      PROVE  Cardinality({m \in stage : TeamsOf(rs[m]) = {s, t}}) = 1
  <2>1. s \in T[g] /\ t \in T[g]
    BY <1>3
  <2> HIDE DEF stage, teams
  <2>2. PICK m \in stage : OnlyHere(rs, stage, m, s, t)
    BY <1>1, <1>6, <2>1, Zenon DEF FairOn
  <2>3. {q \in stage : TeamsOf(rs[q]) = {s, t}} = {m}
    <3>1. TeamsOf(rs[m]) = {s, t} /\ \A q \in stage : TeamsOf(rs[q]) = {s, t} => q = m
      BY <2>2, Zenon DEF OnlyHere
    <3> QED
      BY <3>1
  <2> QED
    BY <2>3, FS_Singleton, Zenon
<1>7. ASSUME NEW m \in stage, NEW n \in stage, m # n, rs[m].round = rs[n].round
      PROVE  TeamsOf(rs[m]) \cap TeamsOf(rs[n]) = {}
  <2> HIDE DEF stage
  <2> QED
    BY <1>1, <1>7, Zenon DEF FairOn, Apart
<1> QED
  BY <1>4, <1>5, <1>6, <1>7, Zenon DEF MetOnce

(* So is a league. *)
LEMMA FairDrawn ==
  ASSUME NEW c, NEW rs, NEW T, FairStage(rs, StageOf(c, rs), T)
  PROVE  MeetDrawn(c, rs)
  BY StageMeets, Zenon DEF MeetDrawn

(* A draw without matches has no stage. *)
LEMMA NoMeetings == \A c : MeetDrawn(c, <<>>) /\ MeetDrawn(c, Persisted(<<>>))
<1>1. DOMAIN <<>> = {}
  OBVIOUS
<1>2. DOMAIN Persisted(<<>>) = {}
  BY <1>1, PersistedDomain, Zenon
<1>3. ASSUME NEW c, NEW rs, DOMAIN rs = {} PROVE MeetDrawn(c, rs)
  <2>1. {rs[m].group : m \in StageOf(c, rs)} = {}
    BY <1>3 DEF StageOf
  <2> QED
    BY <2>1, Zenon DEF MeetDrawn
<1> QED
  BY <1>1, <1>2, <1>3, Zenon

(* A place of the whole is one place of one part. *)
Coordinates(N, ss, off) ==
    \A r, q \in 1 .. N : \A k \in 1 .. Len(ss[r]), l \in 1 .. Len(ss[q]) :
        off[r] + k = off[q] + l => r = q /\ k = l

(* Parts laid out one after the other share no place. *)
LEMMA OneCoordinate ==
  ASSUME NEW N \in Nat, NEW ss, Lists(N, ss), NEW flat, NEW off, LaidOut(N, ss, flat, off)
  PROVE  Coordinates(N, ss, off)
<1> SUFFICES ASSUME NEW r \in 1 .. N, NEW q \in 1 .. N, NEW k \in 1 .. Len(ss[r]), NEW l \in 1 .. Len(ss[q]),
                    off[r] + k = off[q] + l
             PROVE  r = q /\ k = l
  BY Zenon DEF Coordinates
<1> DEFINE len == [e \in 1 .. N |-> Len(ss[e])]
<1>1. \A e \in 1 .. N : len[e] \in Nat /\ len[e] = Len(ss[e])
  <2>1. \A e \in 1 .. N : Len(ss[e]) \in Nat
    BY ListIs, Zenon DEF Lists
  <2> QED
    BY <2>1
<1>2. Offsets(N, len, off)
  BY Zenon DEF LaidOut
<1> HIDE DEF len
<1>3. PICK lens : lens = len
  OBVIOUS
<1>4. /\ \A e \in 1 .. N + 1 : off[e] \in Nat
      /\ \A e \in 1 .. N : off[e + 1] = off[e] + lens[e]
      /\ \A e, f \in 1 .. N + 1 : e <= f => off[e] <= off[f]
  BY <1>1, <1>2, <1>3, OffsetsGrow, Zenon
<1>5. ASSUME NEW e \in 1 .. N, NEW f \in 1 .. N, NEW i \in 1 .. Len(ss[e]), NEW j \in 1 .. Len(ss[f]), e < f
      PROVE  off[e] + i # off[f] + j
  <2>1. e \in 1 .. N + 1 /\ e + 1 \in 1 .. N + 1 /\ f \in 1 .. N + 1 /\ e + 1 <= f
    BY <1>5
  <2>2. off[e] \in Nat /\ off[f] \in Nat /\ off[e + 1] = off[e] + lens[e] /\ off[e + 1] <= off[f]
    BY <1>4, <2>1, Zenon
  <2>3. PICK x \in Nat, y \in Nat, z \in Nat : x = off[e] /\ y = off[f] /\ z = lens[e]
    BY <1>1, <1>3, <2>2, Zenon
  <2>4. x + z <= y
    BY <2>2, <2>3
  <2>5. z = Len(ss[e])
    BY <1>1, <1>3, <2>3, Zenon
  <2>6. i \in 1 .. z /\ j \in Nat /\ j >= 1
    <3>1. Len(ss[f]) \in Nat
      BY <1>1, Zenon
    <3> QED
      BY <2>5, <3>1
  <2>7. x + i # y + j
    BY <2>4, <2>6
  <2> QED
    BY <2>3, <2>7, Zenon
<1>6. r = q
  <2>1. r < q \/ q < r \/ r = q
    OBVIOUS
  <2> QED
    BY <1>5, <2>1, Zenon
<1>7. k = l
  <2>1. PICK x \in Nat : x = off[r]
    <3>1. r \in 1 .. N + 1
      OBVIOUS
    <3> QED
      BY <1>4, <3>1, Zenon
  <2>2. PICK z \in Nat : z = Len(ss[r])
    BY <1>1, Zenon
  <2>3. k \in 1 .. z /\ l \in 1 .. z /\ x + k = x + l
    BY <1>6, <2>1, <2>2, Zenon
  <2> QED
    BY <2>3
<1> QED
  BY <1>6, <1>7

(* The matches of group g. *)
GroupAt(rs, D, g) == {m \in D : rs[m].group = g}

(* Each group of different teams plays a round robin. *)
LEMMA GroupFair ==
  ASSUME NEW groups, Grouping(groups), NEW g \in 1 .. Len(groups), Distinct(groups[g])
  PROVE  FairOn(Stage(groups), GroupAt(Stage(groups), 1 .. Len(Stage(groups)), g), Items(groups[g]))
<1> DEFINE st == Stage(groups)
           ss == GroupParts(groups)
           N == Len(groups)
           E == GroupAt(st, 1 .. Len(st), g)
           M == GenerateRoundRobin(groups[g])
           D == 1 .. Len(M)
<1>1. List(groups[g]) /\ N \in Nat
  <2>1. List(groups) /\ List(groups[g])
    BY Zenon DEF Grouping
  <2> QED
    BY <2>1, ListIs, Zenon
<1>2. FairOn(M, D, Items(groups[g]))
  BY <1>1, RobinFair, Zenon
<1>3. Lists(N, ss) /\ \A q \in 1 .. N : ss[q] = GroupPart(q, groups[q])
  BY StageIs, Zenon
<1>4. PICK off : LaidOut(N, ss, st, off)
  BY StageIs, Zenon
<1>45. \A q \in 1 .. N : \A k \in 1 .. Len(ss[q]) : off[q] + k \in 1 .. Len(st)
  <2> HIDE DEF ss, st, N
  <2>1. N \in Nat /\ Lists(N, ss) /\ LaidOut(N, ss, st, off)
    BY <1>1, <1>3, <1>4, Zenon
  <2> QED
    BY <2>1, LaidWithin, Zenon
<1>5. ASSUME NEW q \in 1 .. N PROVE Regrouped(ss[q], GenerateRoundRobin(groups[q]), q)
  <2>1. List(groups[q])
    BY Zenon DEF Grouping
  <2>2. Regrouped(GroupPart(q, groups[q]), GenerateRoundRobin(groups[q]), q)
    BY <2>1, GroupPartIs, Zenon
  <2> QED
    BY <1>3, <2>2, Zenon
<1>6. ASSUME NEW q \in 1 .. N, NEW k \in 1 .. Len(ss[q])
      PROVE  ss[q][k].group = q /\ Alike(ss[q][k], GenerateRoundRobin(groups[q])[k])
  <2>1. /\ k \in 1 .. Len(GenerateRoundRobin(groups[q]))
        /\ ss[q][k] = [GenerateRoundRobin(groups[q])[k] EXCEPT !.group = q]
    BY <1>5, Zenon DEF Regrouped
  <2>2. List(groups[q])
    BY Zenon DEF Grouping
  <2>3. PICK x : x = GenerateRoundRobin(groups[q])[k] /\ Plain(x)
    BY <2>1, <2>2, RobinPlain, Zenon
  <2>4. PICK r, pos, sl : x = MatchOf(r, pos, sl, 0, 0)
    BY <2>3, Zenon DEF Plain
  <2> DEFINE y == [x EXCEPT !.group = q]
  <2>5. y.group = q /\ y.round = x.round /\ y.slots = x.slots
    BY <2>4 DEF MatchOf
  <2> HIDE DEF y
  <2>6. Alike(y, x)
    BY <2>5, Zenon DEF Alike, TeamsOf
  <2>7. ss[q][k] = y
    BY <2>1, <2>3, Zenon DEF y
  <2> QED
    BY <2>3, <2>5, <2>6, <2>7, Zenon
<1>7. Len(ss[g]) = Len(M)
  BY <1>5, Zenon DEF Regrouped
<1> HIDE DEF ss, st, M
<1> DEFINE f == [k \in D |-> off[g] + k]
<1>8. \A k \in D : f[k] = off[g] + k
  OBVIOUS
<1> HIDE DEF f
<1>9. ASSUME NEW k \in D PROVE f[k] \in E /\ Alike(st[f[k]], M[k])
  <2>1. k \in 1 .. Len(ss[g])
    BY <1>7, Zenon
  <2>2. f[k] \in 1 .. Len(st)
    BY <1>45, <1>8, <2>1, Zenon
  <2>3. st[f[k]] = ss[g][k]
    BY <1>4, <1>8, <2>1, Zenon DEF LaidOut
  <2>4. ss[g][k].group = g /\ Alike(ss[g][k], M[k])
    BY <1>6, <2>1, Zenon DEF M
  <2>5. f[k] \in E
    BY <2>2, <2>3, <2>4, Zenon DEF GroupAt
  <2> QED
    BY <2>3, <2>4, <2>5, Zenon
<1>10. ASSUME NEW m \in E PROVE \E k \in D : f[k] = m
  <2>1. m \in 1 .. Len(st) /\ st[m].group = g
    BY Zenon DEF GroupAt
  <2>2. PICK q \in 1 .. N : \E k \in 1 .. Len(ss[q]) : m = off[q] + k /\ st[m] = ss[q][k]
    BY <1>4, <2>1, Zenon DEF LaidOut
  <2>3. PICK k \in 1 .. Len(ss[q]) : m = off[q] + k /\ st[m] = ss[q][k]
    BY <2>2
  <2>4. q = g
    BY <1>6, <2>1, <2>3, Zenon
  <2> QED
    BY <1>7, <1>8, <2>3, <2>4, Zenon
<1>11. Renumbered(st, E, M, D, f)
  BY <1>9, <1>10, Zenon DEF Renumbered
<1> HIDE DEF D, E
<1>12. FairOn(st, E, Items(groups[g]))
  BY <1>2, <1>11, FairMoved, Zenon
<1> QED
  BY <1>12, Zenon DEF st, E

(* Every team is in one group, once. *)
Grouped(groups) ==
    /\ Grouping(groups)
    /\ \A g \in 1 .. Len(groups) : Distinct(groups[g])
    /\ \A g, h \in 1 .. Len(groups) : g # h => Items(groups[g]) \cap Items(groups[h]) = {}

(* The teams of each group. *)
GroupTeams(groups) == [g \in 1 .. Len(groups) |-> Items(groups[g])]

(* The rows of a match without a slot that waits. *)
LEMMA SeatedRow ==
  ASSUME NEW ms, NEW m \in DOMAIN ms, Seated(ms[m])
  PROVE  Alike(Persisted(ms)[m], ms[m]) /\ Persisted(ms)[m].group = ms[m].group
<1> DEFINE r == Persisted(ms)[m]
<1>1. RowOf(r, ms, m)
  BY PersistedRow, Zenon
<1> HIDE DEF r
<1>2. \A k \in 1 .. 2 : r.slots[k] = ms[m].slots[k]
  BY <1>1, Zenon DEF RowOf, Seated
<1>3. TeamsOf(r) = TeamsOf(ms[m])
  BY <1>2 DEF TeamsOf
<1>4. r.round = ms[m].round /\ r.group = ms[m].group
  BY <1>1, Zenon DEF RowOf
<1> QED
  BY <1>3, <1>4, Zenon DEF Alike, r

(* A persisted group stage is separate round robins. *)
LEMMA StagedFair ==
  ASSUME NEW groups, Grouped(groups), NEW ms, Staged(ms, Stage(groups)), NEW c, c.op # "league"
  PROVE  FairStage(Persisted(ms), StageOf(c, Persisted(ms)), GroupTeams(groups))
<1> DEFINE st == Stage(groups)
           rs == Persisted(ms)
           T == GroupTeams(groups)
           GS == StageOf(c, rs)
           N == Len(groups)
<1>1. PICK o \in Nat : o = Len(st)
  <2>1. List(st)
    BY StageIs, Zenon DEF Grouped
  <2> HIDE DEF st
  <2> QED
    BY <2>1, ListIs, Zenon
<1>2. PICK n \in Nat : \E first :
         n >= 1 /\ Bracketed(ms, o, n, first) /\ \A m \in 1 .. o : ms[m] = st[m]
  BY <1>1, Zenon DEF Staged, StagedAbove
<1>3. PICK first : n >= 1 /\ Bracketed(ms, o, n, first) /\ \A m \in 1 .. o : ms[m] = st[m]
  BY <1>2
<1>4. PICK last \in Nat : last = 2 * n - 1
  BY <1>3
<1>5. DOMAIN rs = 1 .. o + last /\ DOMAIN ms = 1 .. o + last
  BY <1>3, <1>4, PersistedDomain, Zenon DEF Bracketed
<1>6. {m \in DOMAIN rs : rs[m].group = 0} = o + 1 .. o + last
  BY <1>3, <1>4, KnockoutOf, Zenon
<1>7. GS = 1 .. o
  <2>1. {m \in DOMAIN rs : rs[m].group = 0 /\ c.op # "league"} = {m \in DOMAIN rs : rs[m].group = 0}
    OBVIOUS
  <2>2. GS = DOMAIN rs \ (o + 1 .. o + last)
    BY <1>6, <2>1, Zenon DEF StageOf
  <2>3. (1 .. o + last) \ (o + 1 .. o + last) = 1 .. o
    OBVIOUS
  <2> QED
    BY <1>5, <2>2, <2>3, Zenon
<1>8. \A m \in 1 .. o : m \in DOMAIN ms
  BY <1>5
<1>9. ASSUME NEW m \in 1 .. o
      PROVE  Alike(rs[m], st[m]) /\ rs[m].group = st[m].group /\ st[m].group \in 1 .. N
  <2>1. st[m].group \in 1 .. N /\ Seated(st[m])
    BY <1>1, StagePlain, Zenon DEF Grouped
  <2>2. ms[m] = st[m] /\ m \in DOMAIN ms
    BY <1>3, <1>8, Zenon
  <2> QED
    BY <2>1, <2>2, SeatedRow, Zenon
<1>10. \A g \in 1 .. N : T[g] = Items(groups[g])
  BY DEF GroupTeams
<1> HIDE DEF st, rs, T, GS
<1>11. ASSUME NEW g \in 1 .. N PROVE FairOn(rs, GroupAt(rs, GS, g), T[g])
  <2> DEFINE E == GroupAt(rs, GS, g)
             f == [m \in E |-> m]
  <2>1. FairOn(st, GroupAt(st, 1 .. o, g), T[g])
    <3>1. Grouping(groups) /\ Distinct(groups[g])
      BY Zenon DEF Grouped
    <3>2. FairOn(Stage(groups), GroupAt(Stage(groups), 1 .. Len(Stage(groups)), g), Items(groups[g]))
      BY <3>1, GroupFair, Zenon
    <3> QED
      BY <1>1, <1>10, <3>2 DEF st
  <2>2. GroupAt(st, 1 .. o, g) = E
    BY <1>7, <1>9 DEF GroupAt
  <2>3. \A m \in E : m \in 1 .. o
    BY <1>7, Zenon DEF GroupAt
  <2>4. \A m \in E : f[m] = m
    OBVIOUS
  <2> HIDE DEF f, E
  <2>5. Renumbered(rs, E, st, E, f)
    BY <1>9, <2>3, <2>4, Zenon DEF Renumbered
  <2>6. FairOn(rs, E, T[g])
    BY <2>1, <2>2, <2>5, FairMoved, Zenon
  <2> QED
    BY <2>6 DEF E
<1>12. \A g \in 1 .. N : 0 \notin T[g]
  <2> SUFFICES ASSUME NEW g \in 1 .. N PROVE 0 \notin Items(groups[g])
    BY <1>10
  <2> QED
    BY Zenon DEF Grouped, Distinct, Items
<1>13. \A g, h \in 1 .. N : g # h => T[g] \cap T[h] = {}
  BY <1>10, Zenon DEF Grouped
<1>14. \A m \in GS : rs[m].group \in 1 .. N
  BY <1>7, <1>9, Zenon
<1>15. FairStage(rs, GS, T)
  BY <1>11, <1>12, <1>13, <1>14, Zenon DEF FairStage, GroupAt
<1> QED
  BY <1>15, Zenon DEF rs, T, GS

(* A persisted league is a round robin. *)
LEMMA LeagueMeets ==
  ASSUME NEW ids, List(ids), Distinct(ids), NEW c, c.op = "league"
  PROVE  MeetDrawn(c, Persisted(GenerateRoundRobin(ids)))
<1> DEFINE M == GenerateRoundRobin(ids)
           rs == Persisted(M)
           GS == StageOf(c, rs)
           T == [g \in {0} |-> Items(ids)]
           f == [m \in GS |-> m]
<1>1. List(M) /\ \A m \in 1 .. Len(M) : Plain(M[m])
  BY RobinPlain, Zenon
<1>2. FairOn(M, 1 .. Len(M), Items(ids))
  BY RobinFair, Zenon
<1>3. T[0] = Items(ids)
  OBVIOUS
<1>4. 0 \notin Items(ids)
  BY Zenon DEF Distinct, Items
<1> HIDE DEF M
<1>5. DOMAIN M = 1 .. Len(M)
  BY <1>1, ListIs, Zenon
<1>6. DOMAIN rs = 1 .. Len(M)
  BY <1>5, PersistedDomain, Zenon
<1>7. GS = 1 .. Len(M)
  <2>1. {m \in DOMAIN rs : rs[m].group = 0 /\ c.op # "league"} = {}
    OBVIOUS
  <2>2. GS = DOMAIN rs \ {}
    BY <2>1, Zenon DEF StageOf
  <2> HIDE DEF GS, rs
  <2> QED
    BY <1>6, <2>2
<1>8. ASSUME NEW m \in 1 .. Len(M) PROVE Alike(rs[m], M[m]) /\ rs[m].group = 0
  <2>1. Plain(M[m]) /\ m \in DOMAIN M
    BY <1>1, <1>5, Zenon
  <2>2. Seated(M[m])
    BY <2>1, Zenon DEF Plain
  <2>3. Alike(rs[m], M[m]) /\ rs[m].group = M[m].group
    BY <2>1, <2>2, SeatedRow, Zenon
  <2>4. PICK r, pos, sl : M[m] = MatchOf(r, pos, sl, 0, 0)
    BY <2>1, Zenon DEF Plain
  <2>5. M[m].group = 0
    BY <2>4 DEF MatchOf
  <2> QED
    BY <2>3, <2>5, Zenon
<1>9. \A m \in GS : f[m] = m
  OBVIOUS
<1> HIDE DEF f, GS, T, rs
<1>10. Renumbered(rs, GS, M, 1 .. Len(M), f)
  BY <1>7, <1>8, <1>9, Zenon DEF Renumbered
<1>11. FairOn(rs, GS, Items(ids))
  BY <1>2, <1>10, FairMoved, Zenon
<1>12. \A m \in GS : {q \in GS : rs[q].group = rs[m].group} = GS
  BY <1>7, <1>8
<1>13. \A m \in GS : T[rs[m].group] = Items(ids)
  BY <1>3, <1>7, <1>8, Zenon
<1>14. \A m \in GS : FairOn(rs, {q \in GS : rs[q].group = rs[m].group}, T[rs[m].group])
  BY <1>11, <1>12, <1>13, Zenon
<1>15. FairStage(rs, GS, T)
  BY <1>4, <1>7, <1>8, <1>13, <1>14, Zenon DEF FairStage
<1> QED
  BY <1>15, FairDrawn, Zenon DEF GS, rs, M

(* The teams of a league are numbers. *)
LEMMA LeagueTeams ==
  ASSUME NEW n \in Nat
  PROVE  List([i \in 1 .. n |-> i]) /\ Distinct([i \in 1 .. n |-> i])
<1> DEFINE s == [i \in 1 .. n |-> i]
<1>1. s \in [1 .. n -> 1 .. n] /\ \A i \in 1 .. n : s[i] = i
  OBVIOUS
<1> HIDE DEF s
<1>2. List(s) /\ Len(s) = n
  BY <1>1, ListMade, Zenon
<1>3. \A i \in 1 .. n : i # 0
  OBVIOUS
<1>4. Distinct(s)
  BY <1>1, <1>2, <1>3, Zenon DEF Distinct
<1> QED
  BY <1>2, <1>4 DEF s

(* A bracket without a group stage has no meetings to speak of. *)
LEMMA KnockoutAlone ==
  ASSUME NEW M, Knocked(M), NEW c, c.op # "league"
  PROVE  MeetDrawn(c, Persisted(M))
<1> DEFINE rs == Persisted(M)
<1>1. PICK n \in Nat : \E first : n >= 1 /\ Len(first) = n /\ Wired(M, first) /\ Filled(first, n)
  BY Zenon DEF Knocked, Above
<1>2. PICK first : n >= 1 /\ Len(first) = n /\ Wired(M, first) /\ Filled(first, n)
  BY <1>1
<1>3. PICK last \in Nat : last = 2 * n - 1
  BY <1>2
<1>4. Len(M) = last /\ (\A m \in 1 .. last : M[m].group = 0) /\ M \in Seq(Drawn(first))
  BY <1>2, <1>3, Zenon DEF Wired
<1>5. DOMAIN M = 1 .. last
  BY <1>4, LenProperties
<1>6. \A m \in DOMAIN M : rs[m].group = M[m].group
  <2>1. \A m \in DOMAIN M : RowOf(rs[m], M, m)
    BY PersistedRow, Zenon
  <2> HIDE DEF rs
  <2> QED
    BY <2>1, Zenon DEF RowOf
<1>7. DOMAIN rs = DOMAIN M
  BY PersistedDomain, Zenon
<1> HIDE DEF rs
<1>8. \A m \in DOMAIN rs : rs[m].group = 0
  BY <1>4, <1>5, <1>6, <1>7, Zenon
<1>9. StageOf(c, rs) = {}
  BY <1>8 DEF StageOf
<1>10. {rs[m].group : m \in StageOf(c, rs)} = {}
  BY <1>9
<1>11. MeetDrawn(c, rs)
  BY <1>10, Zenon DEF MeetDrawn
<1> QED
  BY <1>11 DEF rs

(* A group stage and a bracket that follows it. *)
LEMMA StagesMeet ==
  ASSUME NEW groups, Grouped(groups), NEW M, Knocked(M), NEW c, c.op # "league"
  PROVE  MeetDrawn(c, Persisted(TwoStages(groups, M)))
<1> DEFINE ms == TwoStages(groups, M)
<1>1. Staged(ms, Stage(groups))
  BY StagesKnocked, Zenon DEF Grouped
<1> HIDE DEF ms
<1>2. FairStage(Persisted(ms), StageOf(c, Persisted(ms)), GroupTeams(groups))
  BY <1>1, StagedFair, Zenon
<1>3. MeetDrawn(c, Persisted(ms))
  BY <1>2, FairDrawn, Zenon
<1> QED
  BY <1>3 DEF ms

(* The teams of each group of an assignment. *)
GroupsOf(specs) == [g \in DOMAIN specs |-> specs[g].teams]

(* The list has no id twice, and only the ids of valid. *)
ListedOnce(ids, valid) ==
    \A i \in DOMAIN ids : ids[i] \in valid /\ \A j \in DOMAIN ids : ids[i] = ids[j] => i = j

(* The groups hold valid teams only. *)
Within(groups, valid) == \A g \in 1 .. Len(groups) : \A k \in 1 .. Len(groups[g]) : groups[g][k] \in valid

(* Lists that have no id twice together are groups. *)
LEMMA OnceGrouped ==
  ASSUME NEW groups, Grouping(groups), NEW valid, 0 \notin valid, ListedOnce(FlattenSeq(groups), valid)
  PROVE  Grouped(groups) /\ Within(groups, valid)
<1>1. PICK n \in Nat : n = Len(groups) /\ DOMAIN groups = 1 .. n
  <2>1. List(groups)
    BY Zenon DEF Grouping
  <2> QED
    BY <2>1, ListIs, Zenon
<1>2. Lists(n, groups)
  <2>1. groups = [g \in 1 .. n |-> groups[g]]
    <3>1. List(groups)
      BY Zenon DEF Grouping
    <3>2. groups \in [1 .. n -> Items(groups)]
      BY <1>1, <3>1, ListIs, Zenon
    <3> QED
      BY <3>2
  <2> QED
    BY <1>1, <2>1, Zenon DEF Lists, Grouping
<1> DEFINE flat == FlattenSeq(groups)
<1>3. List(flat) /\ \E off : LaidOut(n, groups, flat, off)
  BY <1>2, FlattenedLists, Zenon
<1> HIDE DEF flat
<1>4. PICK off : LaidOut(n, groups, flat, off)
  BY <1>3
<1>5. DOMAIN flat = 1 .. Len(flat)
  BY <1>3, ListIs, Zenon
<1>6. \A r \in 1 .. n : \A k \in 1 .. Len(groups[r]) : off[r] + k \in 1 .. Len(flat)
  BY <1>2, <1>4, LaidWithin, Zenon
<1>7. ASSUME NEW r \in 1 .. n, NEW k \in 1 .. Len(groups[r])
      PROVE  off[r] + k \in DOMAIN flat /\ flat[off[r] + k] = groups[r][k]
  <2>1. off[r] + k \in DOMAIN flat
    BY <1>5, <1>6, Zenon
  <2>2. flat[off[r] + k] = groups[r][k]
    BY <1>4, Zenon DEF LaidOut
  <2> QED
    BY <2>1, <2>2
<1>80. Coordinates(n, groups, off)
  BY <1>2, <1>4, OneCoordinate, Zenon
<1>8. ASSUME NEW r \in 1 .. n, NEW k \in 1 .. Len(groups[r]),
             NEW q \in 1 .. n, NEW l \in 1 .. Len(groups[q]), groups[r][k] = groups[q][l]
      PROVE  r = q /\ k = l
  <2>0. PICK x \in DOMAIN flat : x = off[r] + k /\ flat[x] = groups[r][k]
    BY <1>7, Zenon
  <2>01. PICK y \in DOMAIN flat : y = off[q] + l /\ flat[y] = groups[q][l]
    BY <1>7, Zenon
  <2>1. x = off[r] + k /\ y = off[q] + l /\ flat[x] = flat[y]
    BY <1>8, <2>0, <2>01, Zenon
  <2>2. x = y
    BY <2>1, Zenon DEF ListedOnce, flat
  <2>3. off[r] + k = off[q] + l
    BY <2>1, <2>2
  <2> QED
    BY <1>80, <2>3, Zenon DEF Coordinates
<1>9. ASSUME NEW r \in 1 .. n, NEW k \in 1 .. Len(groups[r]) PROVE groups[r][k] # 0 /\ groups[r][k] \in valid
  <2>1. PICK x \in DOMAIN flat : flat[x] = groups[r][k]
    BY <1>7, Zenon
  <2>2. flat[x] \in valid
    BY <2>1, Zenon DEF ListedOnce, flat
  <2> QED
    BY <2>1, <2>2
<1>10. ASSUME NEW r \in 1 .. n PROVE Distinct(groups[r])
  BY <1>8, <1>9, Zenon DEF Distinct
<1>11. ASSUME NEW r \in 1 .. n, NEW q \in 1 .. n, r # q PROVE Items(groups[r]) \cap Items(groups[q]) = {}
  <2> SUFFICES ASSUME NEW t \in Items(groups[r]), t \in Items(groups[q]) PROVE FALSE
    OBVIOUS
  <2>1. PICK k \in 1 .. Len(groups[r]) : t = groups[r][k]
    BY Zenon DEF Items
  <2>2. PICK l \in 1 .. Len(groups[q]) : t = groups[q][l]
    BY Zenon DEF Items
  <2> QED
    BY <1>8, <1>11, <2>1, <2>2, Zenon
<1>12. Within(groups, valid)
  BY <1>1, <1>9, Zenon DEF Within
<1>13. Grouped(groups)
  BY <1>1, <1>10, <1>11, Zenon DEF Grouped
<1> QED
  BY <1>12, <1>13

(* What groupKnockoutFromAssignment makes. *)
LEMMA AssignmentIs ==
  ASSUME NEW specs
  PROVE  groupKnockoutFromAssignment(specs) =
            TwoStages(GroupsOf(specs), buildKnockoutFromSlots(advancerSlots(specs)))
  BY Zenon DEF groupKnockoutFromAssignment, GroupsOf

(* The assignment that SetGroups goes on with makes groups. *)
LEMMA AssignmentGroups ==
  ASSUME NEW specs \in Seq([teams : Seq(Nat), advance : Int]), NEW valid, 0 \notin valid,
         SetGroupsValid(specs, valid)
  PROVE  Grouped(GroupsOf(specs)) /\ Within(GroupsOf(specs), valid) /\ Len(GroupsOf(specs)) = Len(specs)
<1>1. Assigned(specs)
  BY ValidAssigned, Zenon
<1>2. PICK n \in Nat : n = Len(specs) /\ DOMAIN specs = 1 .. n
  BY <1>1, ListIs, Zenon DEF Assigned
<1> DEFINE groups == GroupsOf(specs)
           T == {specs[g].teams : g \in 1 .. n}
<1>3. groups \in [1 .. n -> T] /\ \A g \in 1 .. n : groups[g] = specs[g].teams
  BY <1>2 DEF GroupsOf
<1>5. ListedOnce(FlattenSeq(groups), valid)
  BY Zenon DEF SetGroupsValid, ListedOnce, GroupsOf
<1> HIDE DEF groups, T
<1>6. List(groups) /\ Len(groups) = n
  BY <1>3, ListMade, Zenon
<1>7. Grouping(groups)
  BY <1>1, <1>2, <1>3, <1>6, Zenon DEF Grouping, Assigned
<1>8. Grouped(groups) /\ Within(groups, valid)
  BY <1>5, <1>7, OnceGrouped, Zenon
<1> QED
  BY <1>2, <1>6, <1>8 DEF groups

(* Its teams meet once. *)
LEMMA AssignmentMeets ==
  ASSUME NEW specs \in Seq([teams : Seq(Nat), advance : Int]), NEW valid, 0 \notin valid,
         SetGroupsValid(specs, valid), NEW c, c.op # "league"
  PROVE  MeetDrawn(c, Persisted(groupKnockoutFromAssignment(specs)))
<1>1. Grouped(GroupsOf(specs))
  BY AssignmentGroups, Zenon
<1>2. Assigned(specs)
  BY ValidAssigned, Zenon
<1>3. Knocked(buildKnockoutFromSlots(advancerSlots(specs)))
  BY <1>2, AssignedKnocked, Zenon
<1>4. MeetDrawn(c, Persisted(TwoStages(GroupsOf(specs), buildKnockoutFromSlots(advancerSlots(specs)))))
  BY <1>1, <1>3, StagesMeet, Zenon
<1> QED
  BY <1>4, AssignmentIs, Zenon

(* The places of s in E hold different teams. *)
LEMMA PickedOnce ==
  ASSUME NEW s, List(s), Distinct(s), NEW E, E \subseteq 1 .. Len(s)
  PROVE  /\ Distinct(Picked(s, E))
         /\ \A t \in Items(Picked(s, E)) : \E i \in E : s[i] = t
<1> DEFINE t == Picked(s, E)
<1>1. List(t) /\ \E at : Found(t, s, E, at)
  BY PickedAt, Zenon
<1> HIDE DEF t
<1>2. PICK at : Found(t, s, E, at)
  BY <1>1
<1>3. ASSUME NEW m \in 1 .. Len(t)
      PROVE  \E i \in E : i \in 1 .. Len(s) /\ at[i] = m /\ t[m] = s[i]
  <2>1. PICK i \in E : at[i] = m
    BY <1>2, Zenon DEF Found
  <2>2. t[at[i]] = s[i]
    BY <1>2, Zenon DEF Found
  <2>3. i \in 1 .. Len(s)
    OBVIOUS
  <2> QED
    BY <2>1, <2>2, <2>3, Zenon
<1>4. Distinct(t)
  <2>1. ASSUME NEW m \in 1 .. Len(t) PROVE t[m] # 0
    <3>1. PICK i \in E : i \in 1 .. Len(s) /\ at[i] = m /\ t[m] = s[i]
      BY <1>3, Zenon
    <3> QED
      BY <3>1, Zenon DEF Distinct
  <2>2. ASSUME NEW m \in 1 .. Len(t), NEW q \in 1 .. Len(t), t[m] = t[q] PROVE m = q
    <3>1. PICK i \in E : i \in 1 .. Len(s) /\ at[i] = m /\ t[m] = s[i]
      BY <1>3, Zenon
    <3>2. PICK j \in E : j \in 1 .. Len(s) /\ at[j] = q /\ t[q] = s[j]
      BY <1>3, Zenon
    <3>3. i = j
      BY <2>2, <3>1, <3>2, Zenon DEF Distinct
    <3> QED
      BY <3>1, <3>2, <3>3
  <2> QED
    BY <2>1, <2>2, Zenon DEF Distinct
<1>5. ASSUME NEW u \in Items(t) PROVE \E i \in E : s[i] = u
  <2>1. PICK m \in 1 .. Len(t) : u = t[m]
    BY Zenon DEF Items
  <2>2. PICK i \in E : i \in 1 .. Len(s) /\ at[i] = m /\ t[m] = s[i]
    BY <1>3, Zenon
  <2> QED
    BY <2>1, <2>2, Zenon
<1> QED
  BY <1>4, <1>5 DEF t

(* The snake deals different teams to groups. *)
LEMMA SnakeGrouped ==
  ASSUME NEW n \in Nat, NEW ids, List(ids), Distinct(ids)
  PROVE  Grouped(SnakeGroups(ids, n))
<1> DEFINE s == SnakeGroups(ids, n)
           E(g) == {i \in DOMAIN ids : SnakeGroup(i, n) = g}
<1>1. Grouping(s) /\ Len(s) = n
  BY SnakeGrouping, Zenon
<1>2. \A g \in 1 .. n : s[g] = Picked(ids, E(g))
  BY DEF SnakeGroups
<1>3. \A g : E(g) \subseteq 1 .. Len(ids)
  <2>1. DOMAIN ids = 1 .. Len(ids)
    BY ListIs, Zenon
  <2> QED
    BY <2>1
<1>4. \A i, g, h : i \in E(g) /\ i \in E(h) => g = h
  OBVIOUS
<1> HIDE DEF s, E
<1>5. ASSUME NEW g \in 1 .. n
      PROVE  Distinct(s[g]) /\ \A t \in Items(s[g]) : \E i \in E(g) : ids[i] = t
  <2>1. PICK F : F = E(g) /\ F \subseteq 1 .. Len(ids)
    BY <1>3, Zenon
  <2>2. Distinct(Picked(ids, F))
    BY <2>1, PickedOnce, Zenon
  <2>3. \A t \in Items(Picked(ids, F)) : \E i \in F : ids[i] = t
    BY <2>1, PickedOnce, Zenon
  <2> QED
    BY <1>2, <2>1, <2>2, <2>3, Zenon
<1>6. ASSUME NEW g \in 1 .. n, NEW h \in 1 .. n, g # h PROVE Items(s[g]) \cap Items(s[h]) = {}
  <2> SUFFICES ASSUME NEW t \in Items(s[g]), t \in Items(s[h]) PROVE FALSE
    OBVIOUS
  <2>1. PICK i \in E(g) : ids[i] = t
    BY <1>5, Zenon
  <2>2. PICK j \in E(h) : ids[j] = t
    BY <1>5, Zenon
  <2>3. i \in 1 .. Len(ids) /\ j \in 1 .. Len(ids)
    BY <1>3
  <2>4. i = j
    BY <2>1, <2>2, <2>3, Zenon DEF Distinct
  <2> QED
    BY <1>4, <1>6, <2>4, Zenon
<1> QED
  BY <1>1, <1>5, <1>6, Zenon DEF Grouped, s

----------------------------------------------------------------------------
(* The stable sort by seed keeps every entry *)

(* The key sortBySeed sorts by, and who comes before whom in a stable      *)
(* sort.                                                                   *)
KeyOf(entries, i) == IF entries[i].seed = 0 THEN 1073741824 ELSE entries[i].seed

Earlier(entries, i, j) ==
    \/ KeyOf(entries, i) < KeyOf(entries, j)
    \/ KeyOf(entries, i) = KeyOf(entries, j) /\ i < j

EarlierThan(entries, i) == {j \in DOMAIN entries : Earlier(entries, j, i)}

RankOf(entries, i) == Cardinality(EarlierThan(entries, i)) + 1

(* The sort in these terms. *)
LEMMA SortIs ==
  ASSUME NEW entries
  PROVE  sortBySeed(entries) =
            [k \in DOMAIN entries |-> entries[CHOOSE i \in DOMAIN entries : RankOf(entries, i) = k]]
  BY SMT DEF sortBySeed, RankOf, EarlierThan, Earlier, KeyOf

(* The entries before i are finitely many, and i is not among them. *)
LEMMA RankIs ==
  ASSUME NEW entries, NEW n \in Nat, DOMAIN entries = 1 .. n,
         \A i \in 1 .. n : KeyOf(entries, i) \in Nat, NEW i \in 1 .. n
  PROVE  /\ RankOf(entries, i) \in 1 .. n
         /\ EarlierThan(entries, i) \subseteq (1 .. n) \ {i} /\ IsFiniteSet(EarlierThan(entries, i))
         /\ RankOf(entries, i) = Cardinality(EarlierThan(entries, i)) + 1
<1> DEFINE S == EarlierThan(entries, i)
<1>1. ~Earlier(entries, i, i)
  <2>1. PICK x \in Nat : x = KeyOf(entries, i)
    BY Zenon
  <2>2. ~(x < x) /\ ~(i < i)
    OBVIOUS
  <2> QED
    BY <2>1, <2>2, Zenon DEF Earlier
<1>2. S \subseteq 1 .. n /\ i \notin S
  BY <1>1 DEF EarlierThan
<1> HIDE DEF S
<1>3. IsFiniteSet(1 .. n) /\ Cardinality(1 .. n) = n
  BY FS_Interval
<1>4. S \cup {i} \subseteq 1 .. n
  BY <1>2
<1>5. IsFiniteSet(S)
  BY <1>2, <1>3, FS_Subset, Zenon
<1>6. PICK c \in Nat : c = Cardinality(S)
  BY <1>5, FS_CardinalityType, Zenon
<1>7. Cardinality(S \cup {i}) = c + 1
  BY <1>2, <1>5, <1>6, FS_AddElement
<1>8. Cardinality(S \cup {i}) <= n
  BY <1>3, <1>4, FS_Subset
<1>9. c + 1 \in 1 .. n
  BY <1>6, <1>7, <1>8
<1>10. S \subseteq (1 .. n) \ {i}
  BY <1>2
<1> QED
  BY <1>5, <1>6, <1>9, <1>10, Zenon DEF RankOf, S

(* An earlier entry has a smaller rank. *)
LEMMA RankGrows ==
  ASSUME NEW entries, NEW n \in Nat, DOMAIN entries = 1 .. n,
         \A i \in 1 .. n : KeyOf(entries, i) \in Nat,
         NEW i \in 1 .. n, NEW j \in 1 .. n, Earlier(entries, i, j)
  PROVE  RankOf(entries, i) # RankOf(entries, j)
<1> DEFINE S == EarlierThan(entries, i)
           T == EarlierThan(entries, j)
<1>1. PICK x \in Nat, y \in Nat : x = KeyOf(entries, i) /\ y = KeyOf(entries, j)
  BY Zenon
<1>2. x < y \/ (x = y /\ i < j)
  BY <1>1, Zenon DEF Earlier
<1>3. ASSUME NEW k \in 1 .. n, Earlier(entries, k, i) PROVE Earlier(entries, k, j)
  <2>1. PICK z \in Nat : z = KeyOf(entries, k)
    BY Zenon
  <2>2. z < x \/ (z = x /\ k < i)
    BY <1>1, <1>3, <2>1, Zenon DEF Earlier
  <2>3. z < y \/ (z = y /\ k < j)
    BY <1>2, <2>2
  <2> QED
    BY <1>1, <2>1, <2>3, Zenon DEF Earlier
<1>4. S \subseteq T /\ i \in T
  BY <1>3 DEF EarlierThan
<1>5. i \notin S /\ IsFiniteSet(S) /\ IsFiniteSet(T)
  <2>1. S \subseteq (1 .. n) \ {i} /\ IsFiniteSet(S) /\ IsFiniteSet(T)
    BY RankIs, Zenon
  <2> QED
    BY <2>1
<1> HIDE DEF S, T
<1>6. S # T
  BY <1>4, <1>5
<1>7. Cardinality(S) # Cardinality(T)
  BY <1>4, <1>5, <1>6, FS_Subset
<1>8. PICK c \in Nat, d \in Nat : c = Cardinality(S) /\ d = Cardinality(T)
  BY <1>5, FS_CardinalityType, Zenon
<1>9. c + 1 # d + 1
  BY <1>7, <1>8
<1> QED
  BY <1>8, <1>9, Zenon DEF RankOf, S, T

(* Every rank is the rank of one entry. *)
LEMMA RankTaken ==
  ASSUME NEW entries, NEW n \in Nat, DOMAIN entries = 1 .. n,
         \A i \in 1 .. n : KeyOf(entries, i) \in Nat, NEW k \in 1 .. n
  PROVE  \E i \in 1 .. n : RankOf(entries, i) = k
<1> DEFINE f == [i \in 1 .. n |-> RankOf(entries, i)]
<1>1. ASSUME NEW i \in 1 .. n PROVE RankOf(entries, i) \in 1 .. n
  BY RankIs, Zenon
<1>2. ASSUME NEW i \in 1 .. n, NEW j \in 1 .. n, i # j PROVE RankOf(entries, i) # RankOf(entries, j)
  <2>1. PICK x \in Nat, y \in Nat : x = KeyOf(entries, i) /\ y = KeyOf(entries, j)
    BY Zenon
  <2>2. x < y \/ (x = y /\ i < j) \/ y < x \/ (y = x /\ j < i)
    BY <1>2
  <2>3. Earlier(entries, i, j) \/ Earlier(entries, j, i)
    BY <2>1, <2>2, Zenon DEF Earlier
  <2>4. CASE Earlier(entries, i, j)
    BY <2>4, RankGrows, Zenon
  <2>5. CASE Earlier(entries, j, i)
    BY <2>5, RankGrows, Zenon
  <2> QED
    BY <2>3, <2>4, <2>5
<1>3. \A i \in 1 .. n : f[i] = RankOf(entries, i)
  OBVIOUS
<1>4. f \in [1 .. n -> 1 .. n]
  BY <1>1
<1> HIDE DEF f
<1>5. f \in Injection(1 .. n, 1 .. n)
  <2>1. \A i, j \in 1 .. n : f[i] = f[j] => i = j
    BY <1>2, <1>3, Zenon
  <2> QED
    BY <1>4, <2>1 DEF Injection, IsInjective
<1>6. IsFiniteSet(1 .. n)
  BY FS_Interval
<1>7. f \in Surjection(1 .. n, 1 .. n)
  BY <1>5, <1>6, FS_Injection, Zenon
<1>8. \E i \in 1 .. n : f[i] = k
  BY <1>7 DEF Surjection
<1> QED
  BY <1>3, <1>8

(* Entries that are there once are sorted to ids that are. *)
LEMMA SortedDistinct ==
  ASSUME NEW entries \in Seq([id : Nat \ {0}, seed : Nat]),
         \A i, j \in DOMAIN entries : entries[i].id = entries[j].id => i = j
  PROVE  Distinct(SortedIds(entries))
<1>1. List(entries)
  BY SeqIsList, Zenon
<1>2. PICK n \in Nat : n = Len(entries) /\ DOMAIN entries = 1 .. n
  BY <1>1, ListIs, Zenon
<1>3. ASSUME NEW i \in 1 .. n PROVE entries[i].id # 0 /\ KeyOf(entries, i) \in Nat
  <2>1. entries[i] \in [id : Nat \ {0}, seed : Nat]
    BY <1>2, ElementOfSeq, Zenon
  <2>2. entries[i].id \in Nat \ {0} /\ entries[i].seed \in Nat
    BY <2>1
  <2> QED
    BY <2>2 DEF KeyOf
<1> DEFINE pick == [k \in 1 .. n |-> CHOOSE i \in 1 .. n : RankOf(entries, i) = k]
           ids == SortedIds(entries)
<1>4. ASSUME NEW k \in 1 .. n PROVE pick[k] \in 1 .. n /\ RankOf(entries, pick[k]) = k
  <2>1. \E i \in 1 .. n : RankOf(entries, i) = k
    BY <1>2, <1>3, RankTaken, Zenon
  <2>2. pick[k] = CHOOSE i \in 1 .. n : RankOf(entries, i) = k
    OBVIOUS
  <2> HIDE DEF pick
  <2> QED
    BY <2>1, <2>2, Zenon
<1>5. ASSUME NEW k \in 1 .. n PROVE ids[k] = entries[pick[k]].id
  <2>1. sortBySeed(entries) = [l \in 1 .. n |-> entries[CHOOSE i \in 1 .. n : RankOf(entries, i) = l]]
    <3>1. sortBySeed(entries) =
             [l \in DOMAIN entries |-> entries[CHOOSE i \in DOMAIN entries : RankOf(entries, i) = l]]
      BY SortIs, Zenon
    <3> QED
      BY <1>2, <3>1
  <2>2. ids = [l \in 1 .. n |-> sortBySeed(entries)[l].id]
    BY <2>1, Zenon DEF SortedIds
  <2>3. sortBySeed(entries)[k] = entries[pick[k]]
    BY <2>1
  <2> HIDE DEF pick
  <2>4. ids[k] = sortBySeed(entries)[k].id
    BY <2>2
  <2> QED
    BY <2>3, <2>4, Zenon
<1>6. Len(ids) = n
  BY <1>1, <1>2, SortedList, Zenon
<1> HIDE DEF pick, ids
<1>7. ASSUME NEW k \in 1 .. n PROVE ids[k] # 0
  BY <1>3, <1>4, <1>5, Zenon
<1>8. ASSUME NEW k \in 1 .. n, NEW l \in 1 .. n, ids[k] = ids[l] PROVE k = l
  <2>1. entries[pick[k]].id = entries[pick[l]].id
    BY <1>5, <1>8, Zenon
  <2>2. pick[k] = pick[l]
    BY <1>2, <1>4, <2>1, Zenon
  <2> QED
    BY <1>4, <2>2, Zenon
<1> QED
  BY <1>6, <1>7, <1>8, Zenon DEF Distinct, ids

(* The entries of a field, sorted and dealt to groups, meet once. *)
LEMMA SnakeMeets ==
  ASSUME NEW entries \in Seq([id : Nat \ {0}, seed : Nat]),
         \A i, j \in DOMAIN entries : entries[i].id = entries[j].id => i = j,
         NEW n \in Int, NEW advance \in Int,
         GenerateGroupKnockout(entries, n, advance) # <<>>, NEW c, c.op # "league"
  PROVE  MeetDrawn(c, Persisted(GenerateGroupKnockout(entries, n, advance)))
<1>0. List(entries)
  BY SeqIsList, Zenon
<1>1. /\ n \in Nat /\ n >= 2
      /\ GenerateGroupKnockout(entries, n, advance) =
            TwoStages(SnakeGroups(SortedIds(entries), n),
                      buildKnockoutFromSlots(knockoutSeedLabels(n, advance)))
  BY <1>0, SnakeDraw, Zenon
<1>2. List(SortedIds(entries))
  BY <1>0, SortedList, Zenon
<1>3. Distinct(SortedIds(entries))
  BY SortedDistinct, Zenon
<1>4. Grouped(SnakeGroups(SortedIds(entries), n))
  BY <1>1, <1>2, <1>3, SnakeGrouped, Zenon
<1>5. Knocked(buildKnockoutFromSlots(knockoutSeedLabels(n, advance)))
  BY <1>1, LabelsKnocked, Zenon
<1> QED
  BY <1>1, <1>4, <1>5, StagesMeet, Zenon

(* In every league and every group stage, of any field and assignment,     *)
(* every two teams meet exactly once, nobody plays twice in a round, and   *)
(* teams of different groups do not meet (GenerateRoundRobin, SetGroups).  *)
THEOREM TeamsMeetOnce == Spec => []MeetOnce
<1>1. Init => MeetOnce
  <2> SUFFICES ASSUME Init PROVE MeetDrawn(call, rows)
    BY MeetDrawnIs, Zenon
  <2>1. rows = <<>>
    BY DEF Init
  <2> QED
    BY <2>1, NoMeetings, Zenon
<1>2. MeetOnce /\ [Next]_formatVars => MeetOnce'
  <2> SUFFICES ASSUME MeetOnce, [Next]_formatVars PROVE MeetOnce'
    OBVIOUS
  <2>1. CASE Seeded
    <3>1. PICK f \in Fields : Draw([op |-> "seeded", field |-> f], GenerateSingleElimination(f))
      BY <2>1 DEF Seeded
    <3> DEFINE c == [op |-> "seeded", field |-> f]
    <3>2. call' = c /\ rows' = Persisted(GenerateSingleElimination(f))
      BY <3>1, Zenon DEF Draw, Answer
    <3>3. c.op # "league"
      OBVIOUS
    <3> HIDE DEF c
    <3>4. List(f)
      BY FieldsAssumption, SeqIsList, Zenon
    <3>5. MeetDrawn(c, Persisted(GenerateSingleElimination(f)))
      <4>1. CASE Len(f) >= 2
        <5>1. Knocked(GenerateSingleElimination(f))
          BY <3>4, <4>1, SeededKnocked, Zenon
        <5> QED
          BY <3>3, <5>1, KnockoutAlone, Zenon
      <4>2. CASE ~(Len(f) >= 2)
        <5>1. Len(f) < 2
          <6>1. Len(f) \in Nat
            BY <3>4, ListIs, Zenon
          <6> QED
            BY <4>2, <6>1
        <5>2. GenerateSingleElimination(f) = <<>>
          BY <5>1, Zenon DEF GenerateSingleElimination
        <5> QED
          BY <5>2, NoMeetings, Zenon
      <4> QED
        BY <4>1, <4>2
    <3> QED
      BY <3>2, <3>5, MeetDrawnIs, Zenon
  <2>2. CASE SeededGroups
    <3>1. PICK f \in Fields, s \in Splits :
             Draw([op |-> "snake", field |-> f, groups |-> s[1], advance |-> s[2]],
                  GenerateGroupKnockout(f, s[1], s[2]))
      BY <2>2 DEF SeededGroups
    <3> DEFINE c == [op |-> "snake", field |-> f, groups |-> s[1], advance |-> s[2]]
    <3>2. call' = c /\ rows' = Persisted(GenerateGroupKnockout(f, s[1], s[2]))
      BY <3>1, Zenon DEF Draw, Answer
    <3>3. c.op # "league"
      OBVIOUS
    <3> HIDE DEF c
    <3>4. f \in Seq([id : Nat \ {0}, seed : Nat])
          /\ \A i, j \in DOMAIN f : f[i].id = f[j].id => i = j
      BY FieldsAssumption, Zenon
    <3>5. s[1] \in Int /\ s[2] \in Int
      BY SplitsAssumption
    <3>6. MeetDrawn(c, Persisted(GenerateGroupKnockout(f, s[1], s[2])))
      <4>1. CASE GenerateGroupKnockout(f, s[1], s[2]) = <<>>
        BY <4>1, NoMeetings, Zenon
      <4>2. CASE GenerateGroupKnockout(f, s[1], s[2]) # <<>>
        BY <3>3, <3>4, <3>5, <4>2, SnakeMeets, Zenon
      <4> QED
        BY <4>1, <4>2
    <3> QED
      BY <3>2, <3>6, MeetDrawnIs, Zenon
  <2>3. CASE RoundRobin
    <3>1. PICK n \in 0 .. Cardinality(Registered) :
             Draw([op |-> "league", teams |-> [i \in 1 .. n |-> i]], GenerateRoundRobin([i \in 1 .. n |-> i]))
      BY <2>3 DEF RoundRobin
    <3> DEFINE ids == [i \in 1 .. n |-> i]
               c == [op |-> "league", teams |-> ids]
    <3>2. call' = c /\ rows' = Persisted(GenerateRoundRobin(ids))
      BY <3>1, Zenon DEF Draw, Answer
    <3>3. c.op = "league"
      OBVIOUS
    <3>4. n \in Nat
      OBVIOUS
    <3>5. List(ids) /\ Distinct(ids)
      BY <3>4, LeagueTeams, Zenon
    <3> HIDE DEF c, ids
    <3>6. MeetDrawn(c, Persisted(GenerateRoundRobin(ids)))
      BY <3>3, <3>5, LeagueMeets, Zenon
    <3> QED
      BY <3>2, <3>6, MeetDrawnIs, Zenon
  <2>4. CASE Build
    <3>1. PICK p \in PairLists :
             Draw([op |-> "build", pairs |-> p],
                  IF validatePairs(p, Registered) THEN GenerateFromPairs(p) ELSE <<>>)
      BY <2>4 DEF Build
    <3> DEFINE c == [op |-> "build", pairs |-> p]
               ms == IF validatePairs(p, Registered) THEN GenerateFromPairs(p) ELSE <<>>
    <3>2. call' = c /\ rows' = Persisted(ms)
      BY <3>1, Zenon DEF Draw, Answer
    <3>3. c.op # "league"
      OBVIOUS
    <3> HIDE DEF c
    <3>4. List(p)
      BY PairListsAssumption, SeqIsList, Zenon
    <3>5. ms = <<>> \/ Knocked(ms)
      <4>1. ms = <<>> \/ ms = GenerateFromPairs(p)
        BY Zenon
      <4> HIDE DEF ms
      <4>2. GenerateFromPairs(p) = <<>> \/ Knocked(GenerateFromPairs(p))
        BY <3>4, PairsKnocked, Zenon
      <4> QED
        BY <4>1, <4>2, Zenon
    <3> HIDE DEF ms
    <3>6. MeetDrawn(c, Persisted(ms))
      BY <3>3, <3>5, KnockoutAlone, NoMeetings, Zenon
    <3> QED
      BY <3>2, <3>6, MeetDrawnIs, Zenon
  <2>5. CASE SetGroups
    <3>1. PICK a \in Assignments :
             Draw([op |-> "groups", specs |-> a],
                  IF SetGroupsValid(a, Registered) THEN groupKnockoutFromAssignment(a) ELSE <<>>)
      BY <2>5 DEF SetGroups
    <3> DEFINE c == [op |-> "groups", specs |-> a]
               ms == IF SetGroupsValid(a, Registered) THEN groupKnockoutFromAssignment(a) ELSE <<>>
    <3>2. call' = c /\ rows' = Persisted(ms)
      BY <3>1, Zenon DEF Draw, Answer
    <3>3. c.op # "league"
      OBVIOUS
    <3> HIDE DEF c
    <3>4. 0 \notin Registered
      BY RegisteredAssumption
    <3>5. ASSUME SetGroupsValid(a, Registered)
          PROVE  MeetDrawn(c, Persisted(groupKnockoutFromAssignment(a)))
      <4>1. a \in Seq([teams : Seq(Nat), advance : Int])
        BY AssignmentsAssumption, Zenon
      <4> QED
        BY <3>3, <3>4, <3>5, <4>1, AssignmentMeets, Zenon
    <3>6. MeetDrawn(c, Persisted(ms))
      BY <3>5, NoMeetings, Zenon
    <3> HIDE DEF ms
    <3> QED
      BY <3>2, <3>6, MeetDrawnIs, Zenon
  <2>6. CASE SubmitScore
    <3>1. rows' = <<>>
      BY <2>6, Zenon DEF SubmitScore, Answer
    <3> QED
      BY <3>1, NoMeetings, MeetDrawnIs, Zenon
  <2>7. CASE Return
    <3>1. rows' = <<>>
      BY <2>7, Zenon DEF Return
    <3> QED
      BY <3>1, NoMeetings, MeetDrawnIs, Zenon
  <2>8. CASE UNCHANGED formatVars
    <3>1. MeetDrawn(call, rows)
      BY MeetDrawnIs, Zenon
    <3>2. call' = call /\ rows' = rows
      BY <2>8 DEF formatVars
    <3>3. MeetDrawn(call', rows')
      BY <3>1, <3>2, Zenon
    <3> QED
      BY <3>3, MeetDrawnIs, Zenon
  <2> QED
    BY <2>1, <2>2, <2>3, <2>4, <2>5, <2>6, <2>7, <2>8, Zenon DEF Next, Call
<1> QED
  BY <1>1, <1>2, PTL DEF Spec

----------------------------------------------------------------------------
(* Every place that advances has one slot *)

(* What a placement is. *)
LEMMA PlacementIs ==
  ASSUME NEW g, NEW r
  PROVE  placement(g, r).type = "group_placement" /\ placement(g, r).group = g /\ placement(g, r).rank = r
  BY DEF placement, Slot

(* The next group, and after the last the first. *)
LEMMA OtherGroupIs ==
  ASSUME NEW N \in Nat, N >= 1, NEW g \in 1 .. N
  PROVE  OtherGroup(g, N) = IF g = N THEN 1 ELSE g + 1
  BY SMTT(30) DEF OtherGroup

(* Every group has one before it. *)
LEMMA OtherGroupOnce ==
  ASSUME NEW N \in Nat, N >= 1
  PROVE  /\ \A g \in 1 .. N : OtherGroup(g, N) \in 1 .. N
         /\ \A g, h \in 1 .. N : OtherGroup(g, N) = OtherGroup(h, N) => g = h
         /\ \A h \in 1 .. N : \E g \in 1 .. N : OtherGroup(g, N) = h
         /\ \A g \in 1 .. N : OtherGroup(g, N) = g => N = 1
<1>1. \A g \in 1 .. N : OtherGroup(g, N) = IF g = N THEN 1 ELSE g + 1
  BY OtherGroupIs
<1>2. ASSUME NEW h \in 1 .. N PROVE \E g \in 1 .. N : OtherGroup(g, N) = h
  <2>1. CASE h = 1
    <3>1. N \in 1 .. N /\ OtherGroup(N, N) = h
      BY <1>1, <2>1
    <3> QED
      BY <3>1
  <2>2. CASE h # 1
    <3>1. h - 1 \in 1 .. N /\ h - 1 # N /\ (h - 1) + 1 = h
      BY <2>2
    <3>2. OtherGroup(h - 1, N) = h
      BY <1>1, <3>1
    <3> QED
      BY <3>1, <3>2
  <2> QED
    BY <2>1, <2>2
<1> QED
  BY <1>1, <1>2

(* The place r of group g, as advancerSlots sends it through: the          *)
(* runner-up is the next group's.                                          *)
SentBy(g, n, r) == placement(IF r = 2 THEN OtherGroup(g, n) ELSE g, r)

(* Group g's slots follow off[g], a of them. *)
Evenly(off, n, a) ==
    /\ off[1] = 0 /\ \A g \in 1 .. n + 1 : off[g] \in Nat
    /\ \A g \in 1 .. n : off[g + 1] = off[g] + a
    /\ \A g, h \in 1 .. n + 1 : g <= h => off[g] <= off[h]

(* The slots are the places of the groups, each once. *)
Sent(slots, off, n, a) ==
    /\ \A g \in 1 .. n : \A r \in 1 .. a :
          off[g] + r \in 1 .. Len(slots) /\ slots[off[g] + r] = SentBy(g, n, r)
    /\ \A i \in 1 .. Len(slots) : \E g \in 1 .. n : \E r \in 1 .. a : i = off[g] + r
    /\ \A g, h \in 1 .. n : \A r, q \in 1 .. a : off[g] + r = off[h] + q => g = h /\ r = q

(* Every group sends a through. *)
Uniform(specs, a) == \A g \in 1 .. Len(specs) : specs[g].advance = a

(* The slots of groups that all send a through. *)
LEMMA AdvancersSent ==
  ASSUME NEW specs, Assigned(specs), NEW a \in Nat, Uniform(specs, a)
  PROVE  \E off : Evenly(off, Len(specs), a) /\ Sent(advancerSlots(specs), off, Len(specs), a)
<1> DEFINE ss == AdvancerParts(specs)
           flat == advancerSlots(specs)
<1>1. PICK n \in Nat : n = Len(specs)
  BY ListIs, Zenon DEF Assigned
<1>2. flat = FlattenSeq(ss)
  BY DEF advancerSlots, AdvancerParts, Advancers
<1>3. Lists(n, ss) /\ \A g \in 1 .. n : Ordered(ss[g], g, n, specs[g].advance)
  BY <1>1, AdvancerPartsAre, Zenon
<1> HIDE DEF ss, flat
<1>4. ASSUME NEW g \in 1 .. n
      PROVE  Len(ss[g]) = a /\ \A r \in 1 .. a : ss[g][r] = SentBy(g, n, r)
  <2>1. Ordered(ss[g], g, n, a)
    BY <1>1, <1>3, Zenon DEF Uniform
  <2> QED
    BY <2>1, Zenon DEF Ordered, SentBy
<1>5. PICK off : LaidOut(n, ss, flat, off)
  BY <1>2, <1>3, FlattenedLists, Zenon
<1>6. \A g \in 1 .. n : \A k \in 1 .. Len(ss[g]) : off[g] + k \in 1 .. Len(flat)
  BY <1>3, <1>5, LaidWithin, Zenon
<1>7. Coordinates(n, ss, off)
  BY <1>3, <1>5, OneCoordinate, Zenon
<1>8. PICK len : len = [g \in 1 .. n |-> Len(ss[g])]
  OBVIOUS
<1>9. \A g \in 1 .. n : len[g] = a /\ len[g] \in Nat
  BY <1>4, <1>8
<1>10. Offsets(n, len, off)
  BY <1>5, <1>8, Zenon DEF LaidOut
<1>11. Evenly(off, n, a)
  <2>1. off[1] = 0
    BY <1>10, Zenon DEF Offsets
  <2>2. /\ \A e \in 1 .. n + 1 : off[e] \in Nat
        /\ \A e \in 1 .. n : off[e + 1] = off[e] + len[e]
        /\ \A e, f \in 1 .. n + 1 : e <= f => off[e] <= off[f]
    BY <1>9, <1>10, OffsetsGrow, Zenon
  <2> QED
    BY <1>9, <2>1, <2>2, Zenon DEF Evenly
<1>12. Sent(flat, off, n, a)
  <2>1. ASSUME NEW g \in 1 .. n, NEW r \in 1 .. a
        PROVE  off[g] + r \in 1 .. Len(flat) /\ flat[off[g] + r] = SentBy(g, n, r)
    <3>1. r \in 1 .. Len(ss[g])
      BY <1>4, Zenon
    <3>2. flat[off[g] + r] = ss[g][r]
      BY <1>5, <3>1, Zenon DEF LaidOut
    <3> QED
      BY <1>4, <1>6, <3>1, <3>2, Zenon
  <2>2. ASSUME NEW i \in 1 .. Len(flat) PROVE \E g \in 1 .. n : \E r \in 1 .. a : i = off[g] + r
    <3>1. PICK g \in 1 .. n : \E k \in 1 .. Len(ss[g]) : i = off[g] + k
      BY <1>5, Zenon DEF LaidOut
    <3> QED
      BY <1>4, <3>1, Zenon
  <2>3. ASSUME NEW g \in 1 .. n, NEW h \in 1 .. n, NEW r \in 1 .. a, NEW q \in 1 .. a, off[g] + r = off[h] + q
        PROVE  g = h /\ r = q
    <3>1. r \in 1 .. Len(ss[g]) /\ q \in 1 .. Len(ss[h])
      BY <1>4, Zenon
    <3> QED
      BY <1>7, <2>3, <3>1, Zenon DEF Coordinates
  <2> QED
    BY <2>1, <2>2, <2>3, Zenon DEF Sent
<1> QED
  BY <1>1, <1>11, <1>12, Zenon DEF flat

(* A slot for each place, one of them, and a winner is not paired with the *)
(* runner-up of its group unless there is only one group.                  *)
EachOnce(slots, n, a) ==
    /\ \A i \in 1 .. Len(slots) : \E g \in 1 .. n : \E r \in 1 .. a : slots[i] = placement(g, r)
    /\ \A g \in 1 .. n : \A r \in 1 .. a : \E i \in 1 .. Len(slots) : slots[i] = placement(g, r)
    /\ \A i, j \in 1 .. Len(slots) : slots[i] = slots[j] => i = j

(* No match is between the first two of one group. *)
NotOwn(slots, n) ==
    n # 1 => \A j \in Nat : 2 * j + 1 \in 1 .. Len(slots) /\ 2 * j + 2 \in 1 .. Len(slots) =>
                \A g \in 1 .. n : {slots[2 * j + 1], slots[2 * j + 2]} # {placement(g, 1), placement(g, 2)}

(* What is sent through is sent once. *)
LEMMA SentOnce ==
  ASSUME NEW slots, NEW off, NEW n \in Nat, n >= 1, NEW a \in Nat, Sent(slots, off, n, a)
  PROVE  EachOnce(slots, n, a)
<1>1. /\ \A g \in 1 .. n : OtherGroup(g, n) \in 1 .. n
      /\ \A g, h \in 1 .. n : OtherGroup(g, n) = OtherGroup(h, n) => g = h
      /\ \A h \in 1 .. n : \E g \in 1 .. n : OtherGroup(g, n) = h
  BY OtherGroupOnce
<1>2. ASSUME NEW i \in 1 .. Len(slots)
      PROVE  \E g \in 1 .. n : \E r \in 1 .. a : slots[i] = placement(g, r)
  <2>1. PICK g \in 1 .. n : \E r \in 1 .. a : i = off[g] + r
    BY Zenon DEF Sent
  <2>2. PICK r \in 1 .. a : i = off[g] + r
    BY <2>1
  <2>3. slots[i] = SentBy(g, n, r)
    BY <2>2, Zenon DEF Sent
  <2>4. CASE r = 2
    BY <1>1, <2>3, <2>4, Zenon DEF SentBy
  <2>5. CASE r # 2
    BY <2>3, <2>5, Zenon DEF SentBy
  <2> QED
    BY <2>4, <2>5
<1>3. ASSUME NEW g \in 1 .. n, NEW r \in 1 .. a PROVE \E i \in 1 .. Len(slots) : slots[i] = placement(g, r)
  <2>1. PICK h \in 1 .. n : g = IF r = 2 THEN OtherGroup(h, n) ELSE h
    BY <1>1, Zenon
  <2>2. SentBy(h, n, r) = placement(g, r)
    BY <2>1, Zenon DEF SentBy
  <2>3. off[h] + r \in 1 .. Len(slots) /\ slots[off[h] + r] = SentBy(h, n, r)
    BY Zenon DEF Sent
  <2> QED
    BY <2>2, <2>3, Zenon
<1>4. ASSUME NEW i \in 1 .. Len(slots), NEW j \in 1 .. Len(slots), slots[i] = slots[j] PROVE i = j
  <2>1. PICK g \in 1 .. n : \E r \in 1 .. a : i = off[g] + r
    BY Zenon DEF Sent
  <2>2. PICK r \in 1 .. a : i = off[g] + r
    BY <2>1
  <2>3. PICK h \in 1 .. n : \E q \in 1 .. a : j = off[h] + q
    BY Zenon DEF Sent
  <2>4. PICK q \in 1 .. a : j = off[h] + q
    BY <2>3
  <2>5. PICK x, y : x = (IF r = 2 THEN OtherGroup(g, n) ELSE g) /\ y = IF q = 2 THEN OtherGroup(h, n) ELSE h
    OBVIOUS
  <2>6. placement(x, r) = placement(y, q)
    <3>1. slots[i] = SentBy(g, n, r) /\ slots[j] = SentBy(h, n, q)
      BY <2>2, <2>4, Zenon DEF Sent
    <3> QED
      BY <1>4, <2>5, <3>1, Zenon DEF SentBy
  <2>7. x = y /\ r = q
    <3>1. placement(x, r).group = x /\ placement(x, r).rank = r
      BY PlacementIs, Zenon
    <3>2. placement(y, q).group = y /\ placement(y, q).rank = q
      BY PlacementIs, Zenon
    <3> QED
      BY <2>6, <3>1, <3>2, Zenon
  <2>8. g = h
    <3>1. CASE r = 2
      BY <1>1, <2>5, <2>7, <3>1, Zenon
    <3>2. CASE r # 2
      BY <2>5, <2>7, <3>2, Zenon
    <3> QED
      BY <3>1, <3>2
  <2> QED
    BY <2>2, <2>4, <2>7, <2>8, Zenon
<1> QED
  BY <1>2, <1>3, <1>4, Zenon DEF EachOnce

(* Slot i of the list is the place r of group g. *)
CameFrom(off, n, a, i, g, r) ==
    r \in 1 .. a /\ \E h \in 1 .. n : i = off[h] + r /\ g = IF r = 2 THEN OtherGroup(h, n) ELSE h

(* Where a place is sent from. *)
LEMMA SentFrom ==
  ASSUME NEW slots, NEW off, NEW n, NEW a, Sent(slots, off, n, a),
         NEW i \in 1 .. Len(slots), NEW g, NEW r, slots[i] = placement(g, r)
  PROVE  CameFrom(off, n, a, i, g, r)
<1>1. PICK h \in 1 .. n : \E q \in 1 .. a : i = off[h] + q
  BY Zenon DEF Sent
<1>2. PICK q \in 1 .. a : i = off[h] + q
  BY <1>1
<1>3. PICK x : x = IF q = 2 THEN OtherGroup(h, n) ELSE h
  OBVIOUS
<1>4. slots[i] = placement(x, q)
  BY <1>2, <1>3, Zenon DEF Sent, SentBy
<1>5. placement(x, q).group = x /\ placement(x, q).rank = q
  BY PlacementIs, Zenon
<1>6. placement(g, r).group = g /\ placement(g, r).rank = r
  BY PlacementIs, Zenon
<1>7. x = g /\ q = r
  BY <1>4, <1>5, <1>6, Zenon
<1> QED
  BY <1>2, <1>3, <1>7, Zenon DEF CameFrom

(* With two places sent through by each group, each starts a match.        *)
LEMMA EvenStart ==
  ASSUME NEW off, NEW n \in Nat, Evenly(off, n, 2), NEW g \in 1 .. n
  PROVE  off[g] % 2 = 0
<1>1. /\ off[1] = 0 /\ \A h \in 1 .. n + 1 : off[h] \in Nat
      /\ \A h \in 1 .. n : off[h + 1] = off[h] + 2
  BY Zenon DEF Evenly
<1> DEFINE B == {j \in Nat : j + 1 <= n => off[j + 1] % 2 = 0}
<1>2. 0 \in B
  <2>1. 0 + 1 = 1
    OBVIOUS
  <2> QED
    BY <1>1, <2>1
<1>3. ASSUME NEW j \in Nat, j \in B PROVE j + 1 \in B
  <2> SUFFICES ASSUME (j + 1) + 1 <= n PROVE off[(j + 1) + 1] % 2 = 0
    OBVIOUS
  <2>1. j + 1 \in 1 .. n /\ j + 1 \in 1 .. n + 1
    OBVIOUS
  <2>2. PICK x \in Nat : x = off[j + 1] /\ x % 2 = 0
    BY <1>1, <1>3, <2>1
  <2>3. (x + 2) % 2 = 0
    BY <2>2
  <2>4. off[(j + 1) + 1] = x + 2
    BY <1>1, <2>1, <2>2, Zenon
  <2> QED
    BY <2>3, <2>4, Zenon
<1> HIDE DEF B
<1>4. Nat \subseteq B
  BY <1>2, <1>3, AllNumbers
<1>5. g - 1 \in B /\ (g - 1) + 1 = g /\ g <= n
  BY <1>4
<1> QED
  BY <1>5 DEF B

(* No winner is paired with its own runner-up. *)
LEMMA SentApart ==
  ASSUME NEW slots, NEW off, NEW n \in Nat, n >= 1, NEW a \in Nat, Evenly(off, n, a), Sent(slots, off, n, a)
  PROVE  NotOwn(slots, n)
<1> SUFFICES ASSUME n # 1, NEW j \in Nat, 2 * j + 1 \in 1 .. Len(slots), 2 * j + 2 \in 1 .. Len(slots),
                    NEW g \in 1 .. n,
                    {slots[2 * j + 1], slots[2 * j + 2]} = {placement(g, 1), placement(g, 2)}
             PROVE  FALSE
  BY Zenon DEF NotOwn
<1>1. PICK x, y : x = placement(g, 1) /\ y = placement(g, 2)
  OBVIOUS
<1>2. PICK i \in 1 .. Len(slots), k \in 1 .. Len(slots) : i = 2 * j + 1 /\ k = 2 * j + 2
  OBVIOUS
<1>3. {slots[i], slots[k]} = {x, y}
  BY <1>1, <1>2, Zenon
<1>4. (slots[i] = x /\ slots[k] = y) \/ (slots[i] = y /\ slots[k] = x)
  BY <1>3
<1>5. ASSUME NEW m \in 1 .. Len(slots), slots[m] = x PROVE m = off[g] + 1
  <2>1. \E h \in 1 .. n : m = off[h] + 1 /\ g = IF 1 = 2 THEN OtherGroup(h, n) ELSE h
    <3>1. slots[m] = placement(g, 1)
      BY <1>1, <1>5, Zenon
    <3>2. CameFrom(off, n, a, m, g, 1)
      BY <3>1, SentFrom, Zenon
    <3> QED
      BY <3>2, Zenon DEF CameFrom
  <2>2. 1 # 2
    OBVIOUS
  <2> QED
    BY <2>1, <2>2, Zenon
<1>6. ASSUME NEW m \in 1 .. Len(slots), slots[m] = y
      PROVE  2 \in 1 .. a /\ \E h \in 1 .. n : m = off[h] + 2 /\ h # g
  <2>1. slots[m] = placement(g, 2)
    BY <1>1, <1>6, Zenon
  <2>2. 2 \in 1 .. a /\ \E h \in 1 .. n : m = off[h] + 2 /\ g = IF 2 = 2 THEN OtherGroup(h, n) ELSE h
    <3>1. CameFrom(off, n, a, m, g, 2)
      BY <2>1, SentFrom, Zenon
    <3> QED
      BY <3>1, Zenon DEF CameFrom
  <2>3. PICK h \in 1 .. n : m = off[h] + 2 /\ g = OtherGroup(h, n)
    BY <2>2, Zenon
  <2>4. h # g
    <3>1. \A f \in 1 .. n : OtherGroup(f, n) = f => n = 1
      BY OtherGroupOnce
    <3> QED
      BY <2>3, <3>1, Zenon
  <2> QED
    BY <2>2, <2>3, <2>4, Zenon
<1>7. /\ \A h \in 1 .. n + 1 : off[h] \in Nat
      /\ \A h \in 1 .. n : off[h + 1] = off[h] + a
      /\ \A f, h \in 1 .. n + 1 : f <= h => off[f] <= off[h]
  BY Zenon DEF Evenly
<1>8. \A h \in 1 .. n : h \in 1 .. n + 1 /\ h + 1 \in 1 .. n + 1
  OBVIOUS
<1>9. ASSUME NEW h \in 1 .. n, NEW f \in 1 .. n, h < f PROVE off[h] + a <= off[f]
  <2>1. h + 1 <= f
    BY <1>9
  <2>2. off[h + 1] = off[h] + a /\ off[h + 1] <= off[f]
    BY <1>7, <1>8, <2>1, Zenon
  <2> QED
    BY <2>2
<1>10. PICK h \in 1 .. n : 2 \in 1 .. a /\ h # g /\ ((i = off[g] + 1 /\ k = off[h] + 2) \/ (i = off[h] + 2 /\ k = off[g] + 1))
  BY <1>4, <1>5, <1>6, Zenon
<1>11. PICK u \in Nat, v \in Nat : u = off[g] /\ v = off[h]
  BY <1>7, <1>8, Zenon
<1>12. v + a <= u \/ u + a <= v
  <2>1. h < g \/ g < h
    BY <1>10
  <2> QED
    BY <1>9, <1>11, <2>1, Zenon
<1>13. a >= 2
  BY <1>10
<1>14. a = 2 /\ 2 * j + 1 = v + 2
  <2>1. (2 * j + 1 = u + 1 /\ 2 * j + 2 = v + 2) \/ (2 * j + 1 = v + 2 /\ 2 * j + 2 = u + 1)
    BY <1>2, <1>10, <1>11, Zenon
  <2> QED
    BY <1>12, <1>13, <2>1
<1>15. v % 2 = 0
  BY <1>11, <1>14, EvenStart, Zenon
<1> QED
  BY <1>14, <1>15

----------------------------------------------------------------------------
(* The slots in the rows *)

(* Slot k of the match j that follows the stage of o. *)
At(o, m, k) == 2 * (m - o) - 2 + k

(* The knockout matches K, after o others, wait for the placements that    *)
(* slots names, each in its seat, and for no other.                        *)
Waiting(rs, K, o, slots) ==
    /\ \A m \in K : \A k \in 1 .. 2 : rs[m].slots[k].type = "group_placement" =>
          At(o, m, k) \in 1 .. Len(slots) /\ rs[m].slots[k] = slots[At(o, m, k)]
    /\ \A i \in 1 .. Len(slots) : \E m \in K : \E k \in 1 .. 2 :
          i = At(o, m, k) /\ rs[m].slots[k] = slots[i]

(* Slot k of the match j as first has it, and above the first round of n   *)
(* matches no placement.                                                   *)
SeatKept(r, first, n, j, k) ==
    /\ j <= n => r.slots[k] = first[j][k]
    /\ ~(j <= n) => r.slots[k].type # "group_placement"

(* A seat of the first round is kept; the rest wait for winners. *)
LEMMA PersistedSeat ==
  ASSUME NEW ms, NEW o \in Nat, NEW n \in Nat, n >= 1, NEW first, Bracketed(ms, o, n, first),
         NEW j \in 1 .. 2 * n - 1, NEW k \in 1 .. 2
  PROVE  SeatKept(Persisted(ms)[o + j], first, n, j, k)
<1> DEFINE r == Persisted(ms)[o + j]
<1>1. o + j \in DOMAIN ms
  <2>1. DOMAIN ms = 1 .. o + (2 * n - 1)
    BY Zenon DEF Bracketed
  <2>2. o + j \in 1 .. o + (2 * n - 1)
    OBVIOUS
  <2> QED
    BY <2>1, <2>2, Zenon
<1>2. r.slots[k] = IF ms[o + j].slots[k].type = "empty" /\ FeedersOf(ms, o + j, k) # {}
                   THEN [ms[o + j].slots[k] EXCEPT !.type = "match_winner"] ELSE ms[o + j].slots[k]
  <2>1. RowOf(r, ms, o + j)
    BY <1>1, PersistedRow, Zenon
  <2> HIDE DEF r
  <2> QED
    BY <2>1, Zenon DEF RowOf
<1> HIDE DEF r
<1>3. ASSUME j <= n PROVE r.slots[k] = first[j][k]
  <2>1. j \in Nat /\ 1 <= j /\ j \in 1 .. n
    BY <1>3
  <2>2. FeedersOf(ms, o + j, k) = {}
    BY <1>3, <2>1, NoFeeder, Zenon
  <2>3. ms[o + j].slots = first[j]
    BY <2>1, Zenon DEF Bracketed
  <2> QED
    BY <1>2, <2>2, <2>3, Zenon
<1>4. ASSUME ~(j <= n) PROVE r.slots[k].type # "group_placement"
  <2>1. j \in n + 1 .. 2 * n - 1
    BY <1>4
  <2>2. ms[o + j].slots = <<Empty, Empty>>
    BY <2>1, Zenon DEF Bracketed
  <2>3. ms[o + j].slots[k] = Empty
    <3>1. <<Empty, Empty>>[1] = Empty /\ <<Empty, Empty>>[2] = Empty /\ (k = 1 \/ k = 2)
      OBVIOUS
    <3> QED
      BY <2>2, <3>1, Zenon
  <2>4. Empty.type = "empty" /\ [Empty EXCEPT !.type = "match_winner"].type = "match_winner"
    BY DEF Empty, Slot
  <2>5. r.slots[k] = Empty \/ r.slots[k] = [Empty EXCEPT !.type = "match_winner"]
    BY <1>2, <2>3, Zenon
  <2>6. "match_winner" # "group_placement" /\ "empty" # "group_placement"
    OBVIOUS
  <2> QED
    BY <2>4, <2>5, <2>6, Zenon
<1> QED
  BY <1>3, <1>4, Zenon DEF r, SeatKept

(* The knockout persisted above the slots waits for them. *)
LEMMA PersistedWaiting ==
  ASSUME NEW ms, NEW o \in Nat, NEW n \in Nat, n >= 1, NEW first, Bracketed(ms, o, n, first),
         NEW slots, List(slots), PaddedRound(first, n, slots)
  PROVE  Waiting(Persisted(ms), o + 1 .. o + (2 * n - 1), o, slots)
<1> DEFINE rs == Persisted(ms)
<1>1. PICK l \in Nat : l = Len(slots) /\ l <= 2 * n
  BY ListIs, Zenon DEF PaddedRound
<1>2. ASSUME NEW j \in 1 .. 2 * n - 1, NEW k \in 1 .. 2
      PROVE  /\ j <= n => rs[o + j].slots[k] = first[j][k]
             /\ ~(j <= n) => rs[o + j].slots[k].type # "group_placement"
  <2>1. SeatKept(rs[o + j], first, n, j, k)
    BY PersistedSeat, Zenon
  <2> HIDE DEF rs
  <2> QED
    BY <2>1, Zenon DEF SeatKept
<1> HIDE DEF rs
<1>3. ASSUME NEW m \in o + 1 .. o + (2 * n - 1), NEW k \in 1 .. 2, rs[m].slots[k].type = "group_placement"
      PROVE  At(o, m, k) \in 1 .. l /\ rs[m].slots[k] = slots[At(o, m, k)]
  <2>1. PICK j \in 1 .. 2 * n - 1 : m = o + j
    <3>1. m - o \in 1 .. 2 * n - 1 /\ m = o + (m - o)
      OBVIOUS
    <3> QED
      BY <3>1
  <2>2. j <= n
    BY <1>2, <1>3, <2>1, Zenon
  <2>3. j \in 1 .. n
    BY <2>2
  <2>4. rs[m].slots[k] = first[j][k]
    BY <1>2, <2>1, <2>2, Zenon
  <2>5. 2 * j - 2 + k <= l
    <3> SUFFICES ASSUME ~(2 * j - 2 + k <= l) PROVE FALSE
      OBVIOUS
    <3>1. first[j][k] = Bye
      BY <1>1, <2>3, Zenon DEF PaddedRound
    <3>2. Bye.type # "group_placement"
      BY DEF Bye, Slot
    <3> QED
      BY <1>3, <2>4, <3>1, <3>2, Zenon
  <2>6. first[j][k] = slots[2 * j - 2 + k]
    BY <1>1, <2>3, <2>5, Zenon DEF PaddedRound
  <2>7. At(o, m, k) = 2 * j - 2 + k
    BY <2>1 DEF At
  <2>8. 2 * j - 2 + k \in 1 .. l
    BY <2>3, <2>5
  <2> QED
    BY <2>4, <2>6, <2>7, <2>8, Zenon
<1>4. ASSUME NEW i \in 1 .. l
      PROVE  \E m \in o + 1 .. o + (2 * n - 1) : \E k \in 1 .. 2 : i = At(o, m, k) /\ rs[m].slots[k] = slots[i]
  <2>1. PICK j \in 1 .. n, k \in 1 .. 2 : i = 2 * j - 2 + k
    <3>1. PICK d \in Nat : i = 2 * d \/ i = 2 * d + 1
      <4>1. PICK d \in Nat : d = i \div 2 /\ (i = 2 * d \/ i = 2 * d + 1)
        OBVIOUS
      <4> QED
        BY <4>1
    <3>2. CASE i = 2 * d
      <4>1. d \in 1 .. n /\ i = 2 * d - 2 + 2
        BY <1>1, <3>2
      <4> QED
        BY <4>1
    <3>3. CASE i = 2 * d + 1
      <4>1. d + 1 \in 1 .. n /\ i = 2 * (d + 1) - 2 + 1
        BY <1>1, <3>3
      <4> QED
        BY <4>1
    <3> QED
      BY <3>1, <3>2, <3>3
  <2>2. j \in 1 .. 2 * n - 1 /\ j <= n /\ 2 * j - 2 + k <= l
    BY <2>1
  <2>3. rs[o + j].slots[k] = first[j][k]
    BY <1>2, <2>2, Zenon
  <2>4. first[j][k] = slots[i]
    BY <1>1, <2>1, <2>2, Zenon DEF PaddedRound
  <2>5. At(o, o + j, k) = i /\ o + j \in o + 1 .. o + (2 * n - 1)
    BY <2>1, <2>2 DEF At
  <2> QED
    BY <2>3, <2>4, <2>5, Zenon
<1>5. Waiting(rs, o + 1 .. o + (2 * n - 1), o, slots)
  BY <1>1, <1>3, <1>4, Zenon DEF Waiting
<1> QED
  BY <1>5 DEF rs

(* The placements a knockout waits for. *)
PlacementsOf(rs, K) == {s \in {rs[m].slots[k] : m \in K, k \in 1 .. 2} : s.type = "group_placement"}

(* The first a places of n groups. *)
Places(n, a) == {placement(g, r) : g \in 1 .. n, r \in 1 .. a}

(* One slot of the matches K waits for s. *)
OneSeat(rs, K, s) == Cardinality({at \in K \X (1 .. 2) : rs[at[1]].slots[at[2]] = s}) = 1

(* Match m is between the first two of group g. *)
OwnPair(rs, m, g) == {placement(g, 1), placement(g, 2)} = {rs[m].slots[k] : k \in 1 .. 2}

(* Each of the places of n groups, a of each, has one slot. *)
PlacedOnce(rs, K, n, a) ==
    /\ PlacementsOf(rs, K) = Places(n, a)
    /\ \A s \in PlacementsOf(rs, K) : OneSeat(rs, K, s)
    /\ \A m \in K : \A g \in 1 .. n : OwnPair(rs, m, g) => n = 1

(* The matches after the first o. *)
Beyond(K, o) == \A m \in K : m \in Nat /\ m > o

(* Seats that hold every place once are its slots. *)
LEMMA WaitingOnce ==
  ASSUME NEW rs, NEW o \in Nat, NEW K, Beyond(K, o), NEW slots, NEW n \in Nat, NEW a,
         Waiting(rs, K, o, slots), List(slots), EachOnce(slots, n, a), NotOwn(slots, n)
  PROVE  PlacedOnce(rs, K, n, a)
<1> DEFINE P == PlacementsOf(rs, K)
<1>0. PICK l \in Nat : l = Len(slots)
  BY ListIs, Zenon
<1>1. ASSUME NEW s \in P PROVE \E i \in 1 .. l : s = slots[i]
  <2>1. PICK m \in K, k \in 1 .. 2 : s = rs[m].slots[k] /\ s.type = "group_placement"
    BY DEF PlacementsOf
  <2> QED
    BY <1>0, <2>1, Zenon DEF Waiting
<1>2. ASSUME NEW i \in 1 .. l PROVE slots[i].type = "group_placement"
  <2>1. PICK g \in 1 .. n : \E r \in 1 .. a : slots[i] = placement(g, r)
    BY <1>0, Zenon DEF EachOnce
  <2>2. PICK r \in 1 .. a : slots[i] = placement(g, r)
    BY <2>1
  <2>3. placement(g, r).type = "group_placement"
    BY PlacementIs, Zenon
  <2> QED
    BY <2>2, <2>3, Zenon
<1>3. ASSUME NEW i \in 1 .. l PROVE slots[i] \in P
  <2>1. PICK m \in K : \E k \in 1 .. 2 : rs[m].slots[k] = slots[i]
    BY <1>0, Zenon DEF Waiting
  <2>2. PICK k \in 1 .. 2 : rs[m].slots[k] = slots[i]
    BY <2>1
  <2>3. slots[i] \in {rs[e].slots[f] : e \in K, f \in 1 .. 2}
    BY <2>2
  <2> QED
    BY <1>2, <2>3 DEF PlacementsOf
<1> HIDE DEF P
<1>7. ASSUME NEW g \in 1 .. n, NEW r \in 1 .. a PROVE placement(g, r) \in P
  <2>1. PICK i \in 1 .. l : slots[i] = placement(g, r)
    BY <1>0, Zenon DEF EachOnce
  <2>2. slots[i] \in P
    BY <1>3, Zenon
  <2> QED
    BY <2>1, <2>2, Zenon
<1>4. P = Places(n, a)
  <2> DEFINE Q == {placement(g, r) : g \in 1 .. n, r \in 1 .. a}
  <2>1. ASSUME NEW s \in P PROVE s \in Q
    <3>1. PICK i \in 1 .. l : s = slots[i]
      BY <1>1
    <3>2. PICK g \in 1 .. n : \E r \in 1 .. a : slots[i] = placement(g, r)
      BY <1>0, Zenon DEF EachOnce
    <3> QED
      BY <3>1, <3>2
  <2>2. ASSUME NEW s \in Q PROVE s \in P
    BY <1>7
  <2> HIDE DEF Q
  <2>3. P = Q
    BY <2>1, <2>2
  <2> QED
    BY <2>3 DEF Q, Places
<1>8. ASSUME NEW q \in K, NEW f \in 1 .. 2, rs[q].slots[f].type = "group_placement"
      PROVE  At(o, q, f) \in 1 .. l /\ rs[q].slots[f] = slots[At(o, q, f)]
  BY <1>0, <1>8, Zenon DEF Waiting
<1>9. ASSUME NEW i \in 1 .. l, NEW j \in 1 .. l, slots[i] = slots[j] PROVE i = j
  BY <1>0, <1>9, Zenon DEF EachOnce
<1>10. ASSUME NEW q \in K, NEW m \in K, NEW f \in 1 .. 2, NEW k \in 1 .. 2, At(o, q, f) = At(o, m, k)
       PROVE  q = m /\ f = k
  <2>1. q \in Nat /\ m \in Nat
    BY Zenon DEF Beyond
  <2> QED
    BY <1>10, <2>1 DEF At
<1>5. ASSUME NEW s \in P PROVE OneSeat(rs, K, s)
  <2> DEFINE E == {at \in K \X (1 .. 2) : rs[at[1]].slots[at[2]] = s}
  <2>1. PICK i \in 1 .. l : s = slots[i]
    BY <1>1
  <2>2. PICK m \in K : \E k \in 1 .. 2 : i = At(o, m, k) /\ rs[m].slots[k] = slots[i]
    BY <1>0, Zenon DEF Waiting
  <2>3. PICK k \in 1 .. 2 : i = At(o, m, k) /\ rs[m].slots[k] = slots[i]
    BY <2>2
  <2>4. ASSUME NEW q \in K, NEW f \in 1 .. 2, rs[q].slots[f] = s PROVE q = m /\ f = k
    <3>1. slots[i].type = "group_placement" /\ rs[q].slots[f] = slots[i]
      BY <1>2, <2>1, <2>4, Zenon
    <3>2. rs[q].slots[f].type = "group_placement"
      BY <3>1, Zenon
    <3>3. At(o, q, f) \in 1 .. l /\ rs[q].slots[f] = slots[At(o, q, f)]
      BY <1>8, <3>2, Zenon
    <3>4. At(o, q, f) = i
      BY <1>9, <3>1, <3>3, Zenon
    <3>5. At(o, q, f) = At(o, m, k)
      BY <2>3, <3>4, Zenon
    <3> QED
      BY <1>10, <3>5
  <2>5. E = {<<m, k>>}
    <3>1. <<m, k>> \in E
      BY <2>1, <2>3
    <3>2. ASSUME NEW at \in E PROVE at = <<m, k>>
      <4>0. at \in K \X (1 .. 2) /\ rs[at[1]].slots[at[2]] = s
        OBVIOUS
      <4>1. PICK q \in K, f \in 1 .. 2 : at = <<q, f>> /\ rs[q].slots[f] = s
        <5>1. at[1] \in K /\ at[2] \in 1 .. 2 /\ at = <<at[1], at[2]>>
          BY <4>0
        <5> QED
          BY <4>0, <5>1, Zenon
      <4>2. q = m /\ f = k
        BY <2>4, <4>1, Zenon
      <4> QED
        BY <4>1, <4>2, Zenon
    <3> HIDE DEF E
    <3> QED
      BY <3>1, <3>2
  <2> HIDE DEF E
  <2>6. Cardinality(E) = 1
    BY <2>5, FS_Singleton, Zenon
  <2> QED
    BY <2>6 DEF E, OneSeat
<1>6. ASSUME NEW m \in K, NEW g \in 1 .. n, OwnPair(rs, m, g) PROVE n = 1
  <2>1. PICK x, y : x = rs[m].slots[1] /\ y = rs[m].slots[2]
    OBVIOUS
  <2>2. {rs[m].slots[k] : k \in 1 .. 2} = {x, y}
    <3>1. 1 .. 2 = {1, 2}
      OBVIOUS
    <3> QED
      BY <2>1, <3>1
  <2>3. {x, y} = {placement(g, 1), placement(g, 2)}
    BY <1>6, <2>2, Zenon DEF OwnPair
  <2>4. x \in {placement(g, 1), placement(g, 2)} /\ y \in {placement(g, 1), placement(g, 2)}
    <3> HIDE <1>6
    <3>1. x \in {x, y} /\ y \in {x, y}
      OBVIOUS
    <3> QED
      BY <2>3, <3>1, Zenon
  <2>5. x.type = "group_placement" /\ y.type = "group_placement"
    <3>0. \A r : placement(g, r).type = "group_placement"
      BY PlacementIs, Zenon
    <3>1. placement(g, 1).type = "group_placement" /\ placement(g, 2).type = "group_placement"
      BY <3>0, Zenon
    <3> QED
      BY <2>4, <3>1, Zenon
  <2>6. 1 \in 1 .. 2 /\ 2 \in 1 .. 2
    OBVIOUS
  <2>7. /\ At(o, m, 1) \in 1 .. l /\ x = slots[At(o, m, 1)]
        /\ At(o, m, 2) \in 1 .. l /\ y = slots[At(o, m, 2)]
    BY <1>0, <2>1, <2>5, <2>6, Zenon DEF Waiting
  <2>8. PICK j \in Nat : At(o, m, 1) = 2 * j + 1 /\ At(o, m, 2) = 2 * j + 2
    <3>1. m - o - 1 \in Nat /\ At(o, m, 1) = 2 * (m - o - 1) + 1 /\ At(o, m, 2) = 2 * (m - o - 1) + 2
      <4>1. m \in Nat /\ m > o
        BY Zenon DEF Beyond
      <4> QED
        BY <4>1 DEF At
    <3> QED
      BY <3>1
  <2>9. /\ 2 * j + 1 \in 1 .. Len(slots) /\ 2 * j + 2 \in 1 .. Len(slots)
        /\ {slots[2 * j + 1], slots[2 * j + 2]} = {placement(g, 1), placement(g, 2)}
    BY <1>0, <2>3, <2>7, <2>8, Zenon
  <2> QED
    BY <2>9, Zenon DEF NotOwn
<1> QED
  BY <1>4, <1>5, <1>6, Zenon DEF PlacedOnce, P

(* What UniformAdvancersOnce says of a call and its rows. *)
KnockoutIn(c, rs) == {m \in DOMAIN rs : rs[m].group = 0 /\ c.op # "league"}

(* The places a call's advance counts send through. *)
PlacesSent(c) ==
    {s \in {placement(g, r) : g \in DOMAIN c.specs, r \in 1 .. Cardinality(Registered)} :
        s.rank <= c.specs[s.group].advance}

(* The call sends the same number through in every group. *)
SameAdvance(c) == \A g, h \in DOMAIN c.specs : c.specs[g].advance = c.specs[h].advance

AdvancersHold(c, rs) ==
    c.op = "groups" /\ rs # <<>> /\ SameAdvance(c) =>
        /\ PlacementsOf(rs, KnockoutIn(c, rs)) = PlacesSent(c)
        /\ \A s \in PlacementsOf(rs, KnockoutIn(c, rs)) : OneSeat(rs, KnockoutIn(c, rs), s)
        /\ \A m \in KnockoutIn(c, rs), g \in DOMAIN c.specs : OwnPair(rs, m, g) => Len(c.specs) = 1

(* It is what the invariant says. *)
LEMMA AdvancersHoldIs ==
  /\ AdvancersHold(call, rows) <=> UniformAdvancersOnce
  /\ AdvancersHold(call', rows') => UniformAdvancersOnce'
<1>1. AdvancersHold(call, rows) <=> UniformAdvancersOnce
  <2>1. KnockoutIn(call, rows) = Knockout
    BY DEF KnockoutIn, Knockout
  <2>2. PlacementsOf(rows, Knockout) = Placements
    BY DEF PlacementsOf, Placements
  <2>3. PlacesSent(call) = {s \in Advancing : s.rank <= call.specs[s.group].advance}
    BY DEF PlacesSent, Advancing
  <2>4. SameAdvance(call) <=> UniformAdvance
    BY DEF SameAdvance, UniformAdvance
  <2>5. (\A s \in Placements : OneSeat(rows, Knockout, s))
        <=> \A s \in Placements : Cardinality({at \in Knockout \X (1 .. 2) : rows[at[1]].slots[at[2]] = s}) = 1
    BY DEF OneSeat
  <2>6. (\A m \in Knockout, g \in DOMAIN call.specs : OwnPair(rows, m, g) => Len(call.specs) = 1)
        <=> \A m \in Knockout, g \in DOMAIN call.specs :
               {placement(g, 1), placement(g, 2)} = {rows[m].slots[k] : k \in 1 .. 2} => Len(call.specs) = 1
    BY DEF OwnPair
  <2> QED
    BY <2>1, <2>2, <2>3, <2>4, <2>5, <2>6 DEF AdvancersHold, UniformAdvancersOnce, AdvancersAre
<1>2. AdvancersHold(call', rows') => UniformAdvancersOnce'
  <2>1. KnockoutIn(call', rows') = Knockout'
    BY DEF KnockoutIn, Knockout
  <2>2. PlacementsOf(rows', Knockout') = Placements'
    BY DEF PlacementsOf, Placements
  <2>3. PlacesSent(call') = {s \in Advancing' : s.rank <= call'.specs[s.group].advance}
    BY DEF PlacesSent, Advancing
  <2>4. SameAdvance(call') <=> UniformAdvance'
    BY DEF SameAdvance, UniformAdvance
  <2>5. (\A s \in Placements' : OneSeat(rows', Knockout', s))
        => \A s \in Placements' : Cardinality({at \in Knockout' \X (1 .. 2) : rows'[at[1]].slots[at[2]] = s}) = 1
    BY DEF OneSeat
  <2>6. (\A m \in Knockout', g \in DOMAIN call'.specs : OwnPair(rows', m, g) => Len(call'.specs) = 1)
        => \A m \in Knockout', g \in DOMAIN call'.specs :
               {placement(g, 1), placement(g, 2)} = {rows'[m].slots[k] : k \in 1 .. 2} => Len(call'.specs) = 1
    BY DEF OwnPair
  <2> QED
    BY <2>1, <2>2, <2>3, <2>4, <2>5, <2>6 DEF AdvancersHold, UniformAdvancersOnce, AdvancersAre
<1> QED
  BY <1>1, <1>2

(* A group sends through no more teams than are registered. *)
LEMMA AdvanceFits ==
  ASSUME NEW specs \in Seq([teams : Seq(Nat), advance : Int]), NEW valid, 0 \notin valid, IsFiniteSet(valid),
         SetGroupsValid(specs, valid), NEW g \in 1 .. Len(specs)
  PROVE  specs[g].advance <= Cardinality(valid)
<1> DEFINE groups == GroupsOf(specs)
           t == specs[g].teams
<1>1. DOMAIN specs = 1 .. Len(specs)
  BY LenProperties
<1>2. groups[g] = t
  BY <1>1 DEF GroupsOf
<1>3. Grouped(groups) /\ Within(groups, valid) /\ Len(groups) = Len(specs)
  BY AssignmentGroups, Zenon
<1>4. Assigned(specs)
  BY ValidAssigned, Zenon
<1>5. specs[g].advance \in 1 .. Len(t)
  BY <1>1 DEF SetGroupsValid
<1> HIDE DEF groups, t
<1>6. List(t)
  BY <1>4, Zenon DEF Assigned, t
<1>7. Distinct(t) /\ \A k \in 1 .. Len(t) : t[k] \in valid
  BY <1>2, <1>3, Zenon DEF Grouped, Within
<1>8. PICK l \in Nat : l = Len(t) /\ t \in [1 .. l -> Items(t)]
  BY <1>6, ListIs, Zenon
<1>9. t \in [1 .. l -> valid]
  BY <1>7, <1>8
<1>10. t \in Injection(1 .. l, valid)
  <2>1. \A i, j \in 1 .. l : t[i] = t[j] => i = j
    BY <1>7, <1>8, Zenon DEF Distinct
  <2> QED
    BY <1>9, <2>1 DEF Injection, IsInjective
<1>11. Cardinality(1 .. l) <= Cardinality(valid)
  BY <1>10, FS_Injection, Zenon
<1>12. Cardinality(1 .. l) = l
  BY FS_Interval
<1>13. Cardinality(valid) \in Nat
  BY FS_CardinalityType, Zenon
<1>14. PICK c \in Nat : c = Cardinality(valid)
  BY <1>13
<1>15. PICK x \in 1 .. l : x = specs[g].advance
  BY <1>5, <1>8, Zenon
<1>16. l <= c
  BY <1>11, <1>12, <1>14, Zenon
<1>17. x <= c
  BY <1>16
<1> QED
  BY <1>14, <1>15, <1>17, Zenon

(* Groups that send as many through have each place waited for once. *)
LEMMA AssignmentPlaced ==
  ASSUME NEW specs \in Seq([teams : Seq(Nat), advance : Int]), NEW valid, 0 \notin valid,
         SetGroupsValid(specs, valid), NEW a \in Nat, Uniform(specs, a), NEW rs,
         rs = Persisted(groupKnockoutFromAssignment(specs))
  PROVE  PlacedOnce(rs, {m \in DOMAIN rs : rs[m].group = 0}, Len(specs), a)
<1> DEFINE groups == GroupsOf(specs)
           slots == advancerSlots(specs)
           ms == groupKnockoutFromAssignment(specs)
           st == Stage(groups)
<1>1. Assigned(specs)
  BY ValidAssigned, Zenon
<1>2. PICK n \in Nat : n = Len(specs) /\ n >= 1
  <2>1. Len(specs) \in Nat /\ Len(specs) >= 1
    BY <1>1, ListIs, Zenon DEF Assigned
  <2> QED
    BY <2>1
<1>3. Grouping(groups)
  BY AssignmentGroups, Zenon DEF Grouped
<1>4. SeatsAbove(buildKnockoutFromSlots(slots), slots)
  BY <1>1, AssignedSeats, Zenon
<1>5. PICK h \in Nat : \E first : Above(buildKnockoutFromSlots(slots), h, first) /\ PaddedRound(first, h, slots)
  BY <1>4, Zenon DEF SeatsAbove
<1>6. PICK first : Above(buildKnockoutFromSlots(slots), h, first) /\ PaddedRound(first, h, slots)
  BY <1>5
<1>7. StagedAbove(ms, st, h, first)
  <2>1. StagedAbove(TwoStages(groups, buildKnockoutFromSlots(slots)), Stage(groups), h, first)
    BY <1>3, <1>6, StagesMade, Zenon
  <2> QED
    BY <2>1, AssignmentIs, Zenon
<1>8. List(slots)
  <2>1. List(FlattenSeq(AdvancerParts(specs)))
    <3>1. Lists(n, AdvancerParts(specs))
      BY <1>1, <1>2, AdvancerPartsAre, Zenon
    <3> QED
      BY <3>1, FlattenedLists, Zenon
  <2>2. slots = FlattenSeq(AdvancerParts(specs))
    BY DEF advancerSlots, AdvancerParts, Advancers
  <2> QED
    BY <2>1, <2>2, Zenon
<1>9. PICK off : Evenly(off, n, a) /\ Sent(slots, off, n, a)
  BY <1>1, <1>2, AdvancersSent, Zenon
<1> HIDE DEF slots, ms
<1>10. EachOnce(slots, n, a)
  BY <1>2, <1>9, SentOnce, Zenon
<1>11. NotOwn(slots, n)
  BY <1>2, <1>9, SentApart, Zenon
<1>12. PICK o \in Nat : o = Len(st)
  <2>1. List(st)
    BY <1>3, StageIs, Zenon
  <2> HIDE DEF st
  <2> QED
    BY <2>1, ListIs, Zenon
<1> HIDE DEF st
<1>13. h >= 1 /\ Bracketed(ms, o, h, first)
  BY <1>7, <1>12, Zenon DEF StagedAbove
<1>14. Waiting(rs, o + 1 .. o + (2 * h - 1), o, slots)
  BY <1>6, <1>8, <1>13, PersistedWaiting, Zenon DEF ms
<1>15. {m \in DOMAIN rs : rs[m].group = 0} = o + 1 .. o + (2 * h - 1)
  BY <1>13, KnockoutOf, Zenon DEF ms
<1>16. Beyond(o + 1 .. o + (2 * h - 1), o)
  BY DEF Beyond
<1>17. PlacedOnce(rs, o + 1 .. o + (2 * h - 1), n, a)
  BY <1>8, <1>10, <1>11, <1>14, <1>16, WaitingOnce, Zenon
<1> QED
  BY <1>2, <1>15, <1>17, Zenon

(* The places that groups sending a each through send. *)
LEMMA PlacesSentAre ==
  ASSUME NEW c, NEW n \in Nat, DOMAIN c.specs = 1 .. n, NEW a \in Nat, a <= Cardinality(Registered),
         Cardinality(Registered) \in Nat, \A g \in 1 .. n : c.specs[g].advance = a
  PROVE  PlacesSent(c) = Places(n, a)
<1> DEFINE N == Cardinality(Registered)
<1>1. ASSUME NEW s \in PlacesSent(c) PROVE s \in Places(n, a)
  <2>1. PICK g \in 1 .. n, r \in 1 .. N : s = placement(g, r) /\ s.rank <= c.specs[s.group].advance
    BY DEF PlacesSent
  <2>2. s.rank = r /\ s.group = g
    BY <2>1, PlacementIs, Zenon
  <2>3. r <= a
    BY <2>1, <2>2, Zenon
  <2> HIDE DEF N
  <2>4. r \in 1 .. a
    BY <2>3
  <2> QED
    BY <2>1, <2>4 DEF Places
<1>2. ASSUME NEW s \in Places(n, a) PROVE s \in PlacesSent(c)
  <2>1. PICK g \in 1 .. n, r \in 1 .. a : s = placement(g, r)
    BY DEF Places
  <2>2. s.rank = r /\ s.group = g
    BY <2>1, PlacementIs, Zenon
  <2>3. r \in 1 .. N /\ r <= a
    BY SMT
  <2>4. s.rank <= c.specs[s.group].advance
    BY <2>2, <2>3, Zenon
  <2> QED
    BY <2>1, <2>3, <2>4 DEF PlacesSent
<1> QED
  BY <1>1, <1>2

(* An assignment that SetGroups accepts has its places waited for. *)
LEMMA AssignmentHolds ==
  ASSUME NEW c, c.op # "league", NEW specs \in Seq([teams : Seq(Nat), advance : Int]), c.specs = specs,
         SetGroupsValid(specs, Registered), NEW rs, rs = Persisted(groupKnockoutFromAssignment(specs))
  PROVE  AdvancersHold(c, rs)
<1>1. 0 \notin Registered /\ IsFiniteSet(Registered)
  BY RegisteredAssumption
<1>2. Cardinality(Registered) \in Nat
  BY <1>1, FS_CardinalityType, Zenon
<1>3. PICK n \in Nat : n = Len(specs) /\ n >= 1
  <2>1. Assigned(specs)
    BY <1>1, ValidAssigned, Zenon
  <2>2. Len(specs) \in Nat /\ Len(specs) >= 1
    BY <2>1, ListIs, Zenon DEF Assigned
  <2> QED
    BY <2>2
<1>4. DOMAIN c.specs = 1 .. n
  BY <1>3, LenProperties
<1> SUFFICES ASSUME SameAdvance(c)
             PROVE  /\ PlacementsOf(rs, KnockoutIn(c, rs)) = PlacesSent(c)
                    /\ \A s \in PlacementsOf(rs, KnockoutIn(c, rs)) : OneSeat(rs, KnockoutIn(c, rs), s)
                    /\ \A m \in KnockoutIn(c, rs), g \in DOMAIN c.specs : OwnPair(rs, m, g) => Len(c.specs) = 1
  BY DEF AdvancersHold
<1>5. 1 \in 1 .. n
  BY <1>3
<1>6. specs[1].advance \in Nat
  <2>1. DOMAIN specs = 1 .. n
    BY <1>3, LenProperties
  <2>2. PICK t : specs[1].advance \in 1 .. t
    BY <1>5, <2>1, Zenon DEF SetGroupsValid
  <2> QED
    BY <2>2
<1>7. PICK a \in Nat : a = specs[1].advance
  BY <1>6
<1>8. \A g \in 1 .. n : specs[g].advance = a
  BY <1>4, <1>5, <1>7, Zenon DEF SameAdvance
<1>9. Uniform(specs, a)
  BY <1>3, <1>8, Zenon DEF Uniform
<1>10. a <= Cardinality(Registered)
  BY <1>1, <1>3, <1>5, <1>7, AdvanceFits, Zenon
<1>11. PlacesSent(c) = Places(n, a)
  BY <1>2, <1>4, <1>8, <1>10, PlacesSentAre, Zenon
<1>12. KnockoutIn(c, rs) = {m \in DOMAIN rs : rs[m].group = 0}
  BY DEF KnockoutIn
<1>13. PlacedOnce(rs, KnockoutIn(c, rs), n, a)
  <2>1. PlacedOnce(rs, {m \in DOMAIN rs : rs[m].group = 0}, Len(specs), a)
    BY <1>1, <1>9, AssignmentPlaced, Zenon
  <2> QED
    BY <1>3, <1>12, <2>1, Zenon
<1> DEFINE K == KnockoutIn(c, rs)
<1>14. \A m \in K : \A g \in 1 .. n : OwnPair(rs, m, g) => n = 1
  BY <1>13, Zenon DEF PlacedOnce
<1> HIDE DEF K
<1>15. \A m \in K, g \in DOMAIN c.specs : OwnPair(rs, m, g) => Len(c.specs) = 1
  BY <1>3, <1>4, <1>14, Zenon
<1>16. PlacementsOf(rs, K) = Places(n, a) /\ \A s \in PlacementsOf(rs, K) : OneSeat(rs, K, s)
  BY <1>13, Zenon DEF PlacedOnce, K
<1> QED
  BY <1>11, <1>15, <1>16, Zenon DEF K

(* Nothing is said of other draws, and of no draw. *)
LEMMA NoAdvancers ==
  ASSUME NEW c, NEW rs, c.op # "groups" \/ rs = <<>>
  PROVE  AdvancersHold(c, rs)
  BY Zenon DEF AdvancersHold

(* Persisting nothing leaves nothing. *)
LEMMA PersistedNothing ==
  Persisted(<<>>) = <<>>
  BY DEF Persisted

(* In every knockout drawn for groups that all send the same number        *)
(* through, of any assignment, each advancing place has exactly one slot   *)
(* and a winner does not start against its own group's runner-up, unless   *)
(* there is one group (advancerSlots, buildKnockoutFromSlots).             *)
THEOREM AdvancersWaitOnce == Spec => []UniformAdvancersOnce
<1>1. Init => UniformAdvancersOnce
  <2> SUFFICES ASSUME Init PROVE AdvancersHold(call, rows)
    BY AdvancersHoldIs, Zenon
  <2>1. rows = <<>>
    BY DEF Init
  <2> QED
    BY <2>1, NoAdvancers, Zenon
<1>2. UniformAdvancersOnce /\ [Next]_formatVars => UniformAdvancersOnce'
  <2> SUFFICES ASSUME UniformAdvancersOnce, [Next]_formatVars PROVE UniformAdvancersOnce'
    OBVIOUS
  <2>1. CASE Seeded
    <3>1. call'.op # "groups"
      BY <2>1 DEF Seeded, Draw, Answer
    <3> QED
      BY <3>1, NoAdvancers, AdvancersHoldIs, Zenon
  <2>2. CASE SeededGroups
    <3>1. call'.op # "groups"
      BY <2>2 DEF SeededGroups, Draw, Answer
    <3> QED
      BY <3>1, NoAdvancers, AdvancersHoldIs, Zenon
  <2>3. CASE RoundRobin
    <3>1. call'.op # "groups"
      BY <2>3 DEF RoundRobin, Draw, Answer
    <3> QED
      BY <3>1, NoAdvancers, AdvancersHoldIs, Zenon
  <2>4. CASE Build
    <3>1. call'.op # "groups"
      BY <2>4 DEF Build, Draw, Answer
    <3> QED
      BY <3>1, NoAdvancers, AdvancersHoldIs, Zenon
  <2>5. CASE SetGroups
    <3>1. PICK a \in Assignments :
             Draw([op |-> "groups", specs |-> a],
                  IF SetGroupsValid(a, Registered) THEN groupKnockoutFromAssignment(a) ELSE <<>>)
      BY <2>5 DEF SetGroups
    <3> DEFINE c == [op |-> "groups", specs |-> a]
               ms == IF SetGroupsValid(a, Registered) THEN groupKnockoutFromAssignment(a) ELSE <<>>
    <3>2. call' = c /\ rows' = Persisted(ms)
      BY <3>1, Zenon DEF Draw, Answer
    <3>3. c.op # "league" /\ c.specs = a
      OBVIOUS
    <3> HIDE DEF c
    <3>4. CASE SetGroupsValid(a, Registered)
      <4>1. a \in Seq([teams : Seq(Nat), advance : Int])
        BY AssignmentsAssumption, Zenon
      <4>2. rows' = Persisted(groupKnockoutFromAssignment(a))
        BY <3>2, <3>4, Zenon
      <4>3. AdvancersHold(c, rows')
        BY <3>3, <3>4, <4>1, <4>2, AssignmentHolds, Zenon
      <4> QED
        BY <3>2, <4>3, AdvancersHoldIs, Zenon
    <3>5. CASE ~SetGroupsValid(a, Registered)
      <4>1. rows' = <<>>
        BY <3>2, <3>5, PersistedNothing, Zenon
      <4> QED
        BY <4>1, NoAdvancers, AdvancersHoldIs, Zenon
    <3> QED
      BY <3>4, <3>5
  <2>6. CASE SubmitScore
    <3>1. rows' = <<>>
      BY <2>6, Zenon DEF SubmitScore, Answer
    <3> QED
      BY <3>1, NoAdvancers, AdvancersHoldIs, Zenon
  <2>7. CASE Return
    <3>1. rows' = <<>>
      BY <2>7, Zenon DEF Return
    <3> QED
      BY <3>1, NoAdvancers, AdvancersHoldIs, Zenon
  <2>8. CASE UNCHANGED formatVars
    <3>1. AdvancersHold(call, rows)
      BY AdvancersHoldIs, Zenon
    <3>2. call' = call /\ rows' = rows
      BY <2>8 DEF formatVars
    <3>3. AdvancersHold(call', rows')
      BY <3>1, <3>2, Zenon
    <3> QED
      BY <3>3, AdvancersHoldIs, Zenon
  <2> QED
    BY <2>1, <2>2, <2>3, <2>4, <2>5, <2>6, <2>7, <2>8, Zenon DEF Next, Call
<1> QED
  BY <1>1, <1>2, PTL DEF Spec

----------------------------------------------------------------------------
(* The order of the seeds *)

(* A product is as large as its factor. *)
LEMMA Product == ASSUME NEW d \in Nat, NEW e \in Nat PROVE d * e \in Nat /\ d * (e + 1) = d * e + d
  OBVIOUS

(* A quotient is what it is known by. *)
LEMMA Quotient ==
  ASSUME NEW a \in Nat, NEW d \in Nat, d > 0, NEW x \in Nat, d * x <= a, a < d * x + d
  PROVE  a \div d = x
<1>1. PICK y \in Nat : y = a \div d /\ d * y <= a /\ a < d * y + d
  OBVIOUS
<1>2. CASE x < y
  <2>1. PICK e \in Nat : y = x + 1 + e
    <3>1. y - x - 1 \in Nat /\ y = x + 1 + (y - x - 1)
      BY <1>2
    <3> QED
      BY <3>1
  <2>2. d * y = d * x + d + d * e /\ d * e \in Nat
    BY <2>1
  <2> QED
    BY <1>1, <2>2
<1>3. CASE y < x
  <2>1. PICK e \in Nat : x = y + 1 + e
    <3>1. x - y - 1 \in Nat /\ x = y + 1 + (x - y - 1)
      BY <1>3
    <3> QED
      BY <3>1
  <2>2. d * x = d * y + d + d * e /\ d * e \in Nat
    BY <2>1
  <2> QED
    BY <1>1, <2>2
<1> QED
  BY <1>1, <1>2, <1>3

(* Twice the one in twice the other. *)
LEMMA TwiceQuotient ==
  ASSUME NEW a \in Nat, NEW d \in Nat, d > 0
  PROVE  (2 * a) \div (2 * d) = a \div d
<1>1. PICK x \in Nat : x = a \div d /\ d * x <= a /\ a < d * x + d
  OBVIOUS
<1>2. (2 * d) * x = 2 * (d * x)
  OBVIOUS
<1>3. PICK y \in Nat : y = d * x
  BY Product
<1>4. 2 * y <= 2 * a /\ 2 * a < 2 * y + 2 * d
  BY <1>1, <1>3
<1>5. (2 * d) * x <= 2 * a /\ 2 * a < (2 * d) * x + 2 * d
  BY <1>2, <1>3, <1>4
<1>6. (2 * a) \div (2 * d) = x
  BY <1>5, Quotient
<1> QED
  BY <1>1, <1>6

(* order ranks the first n, each once. *)
Ranking(order, n) ==
    /\ \A i \in 1 .. n : order[i] \in 1 .. n
    /\ \A i, j \in 1 .. n : order[i] = order[j] => i = j
    /\ \A s \in 1 .. n : \E i \in 1 .. n : order[i] = s

(* Beside everyone is the opponent. *)
Opposing(order, n) == \A i \in 1 .. n : order[2 * i - 1] + order[2 * i] = 2 * n + 1

(* No two of the first s are in the same b places. *)
FarApart(order, n, s, b) ==
    \A i, j \in 1 .. n : order[i] \in 1 .. s /\ order[j] \in 1 .. s /\ i # j => (i - 1) \div b # (j - 1) \div b

(* The order when the bracket has grown: next to everyone a newcomer. *)
Grown(p, order, n) == \A i \in 1 .. n : p[2 * i - 1] = order[i] /\ p[2 * i] = 2 * n + 1 - order[i]

(* A place is beside another one. *)
LEMMA Beside ==
  ASSUME NEW n \in Nat, NEW i \in 1 .. 2 * n
  PROVE  \E j \in 1 .. n : i = 2 * j - 1 \/ i = 2 * j
<1>1. PICK j \in Nat : i = 2 * j - 1 \/ i = 2 * j
  <2>1. (i + 1) \div 2 \in Nat /\ (i = 2 * ((i + 1) \div 2) - 1 \/ i = 2 * ((i + 1) \div 2))
    OBVIOUS
  <2> QED
    BY <2>1
<1>2. j \in 1 .. n
  BY <1>1
<1> QED
  BY <1>1, <1>2

(* A grown order ranks twice as many, and seats each newcomer next to its  *)
(* opponent.                                                               *)
LEMMA GrownRanking ==
  ASSUME NEW n \in Nat, NEW p, NEW order, Ranking(order, n), Grown(p, order, n)
  PROVE  Ranking(p, 2 * n) /\ Opposing(p, n)
<1>1. \A j \in 1 .. n : order[j] \in 1 .. n /\ p[2 * j - 1] = order[j] /\ p[2 * j] = 2 * n + 1 - order[j]
  BY Zenon DEF Ranking, Grown
<1>2. ASSUME NEW i \in 1 .. 2 * n PROVE p[i] \in 1 .. 2 * n
  <2>1. PICK j \in 1 .. n : i = 2 * j - 1 \/ i = 2 * j
    BY Beside
  <2>2. PICK x \in 1 .. n : x = order[j]
    BY <1>1
  <2>3. p[2 * j - 1] = x /\ p[2 * j] = 2 * n + 1 - x
    BY <1>1, <2>2, Zenon
  <2>4. x \in 1 .. 2 * n /\ 2 * n + 1 - x \in 1 .. 2 * n
    OBVIOUS
  <2> QED
    BY <2>1, <2>3, <2>4, Zenon
<1>3. ASSUME NEW i \in 1 .. 2 * n, NEW j \in 1 .. 2 * n, p[i] = p[j] PROVE i = j
  <2>1. PICK a \in 1 .. n : i = 2 * a - 1 \/ i = 2 * a
    BY Beside
  <2>2. PICK b \in 1 .. n : j = 2 * b - 1 \/ j = 2 * b
    BY Beside
  <2>3. PICK x \in 1 .. n, y \in 1 .. n : x = order[a] /\ y = order[b]
    BY <1>1
  <2>4. /\ p[2 * a - 1] = x /\ p[2 * a] = 2 * n + 1 - x
        /\ p[2 * b - 1] = y /\ p[2 * b] = 2 * n + 1 - y
    BY <1>1, <2>3, Zenon
  <2>5. x # 2 * n + 1 - y /\ 2 * n + 1 - x # y /\ (2 * n + 1 - x = 2 * n + 1 - y => x = y)
    OBVIOUS
  <2>6. x = y /\ ((i = 2 * a - 1 /\ j = 2 * b - 1) \/ (i = 2 * a /\ j = 2 * b))
    BY <1>3, <2>1, <2>2, <2>4, <2>5, Zenon
  <2>7. a = b
    BY <2>3, <2>6, Zenon DEF Ranking
  <2> QED
    BY <2>6, <2>7, Zenon
<1>4. ASSUME NEW s \in 1 .. 2 * n PROVE \E i \in 1 .. 2 * n : p[i] = s
  <2>1. CASE s <= n
    <3>1. s \in 1 .. n
      BY <2>1
    <3>2. PICK j \in 1 .. n : order[j] = s
      BY <3>1, Zenon DEF Ranking
    <3>3. p[2 * j - 1] = s /\ 2 * j - 1 \in 1 .. 2 * n
      BY <1>1, <3>2
    <3> QED
      BY <3>3
  <2>2. CASE ~(s <= n)
    <3>1. 2 * n + 1 - s \in 1 .. n
      BY <2>2
    <3>2. PICK j \in 1 .. n : order[j] = 2 * n + 1 - s
      BY <3>1, Zenon DEF Ranking
    <3>3. p[2 * j] = 2 * n + 1 - (2 * n + 1 - s)
      BY <1>1, <3>2, Zenon
    <3>4. 2 * n + 1 - (2 * n + 1 - s) = s /\ 2 * j \in 1 .. 2 * n
      OBVIOUS
    <3> QED
      BY <3>3, <3>4
  <2> QED
    BY <2>1, <2>2
<1>5. ASSUME NEW j \in 1 .. n PROVE p[2 * j - 1] + p[2 * j] = 2 * n + 1
  <2>1. PICK x \in 1 .. n : x = order[j]
    BY <1>1
  <2>2. p[2 * j - 1] = x /\ p[2 * j] = 2 * n + 1 - x
    BY <1>1, <2>1, Zenon
  <2> QED
    BY <2>2
<1> QED
  BY <1>2, <1>3, <1>4, <1>5, Zenon DEF Ranking, Opposing

(* Growing keeps the best apart, in parts of twice the size. *)
LEMMA GrownFar ==
  ASSUME NEW n \in Nat, NEW p, NEW order, Ranking(order, n), Grown(p, order, n),
         NEW s \in 0 .. n, NEW b \in Nat, b > 0, FarApart(order, n, s, b)
  PROVE  FarApart(p, 2 * n, s, 2 * b)
<1>1. \A j \in 1 .. n : order[j] \in 1 .. n /\ p[2 * j - 1] = order[j] /\ p[2 * j] = 2 * n + 1 - order[j]
  BY Zenon DEF Ranking, Grown
<1>2. ASSUME NEW i \in 1 .. 2 * n, p[i] \in 1 .. s
      PROVE  \E j \in 1 .. n : i = 2 * j - 1 /\ order[j] \in 1 .. s
                               /\ (i - 1) \div (2 * b) = (j - 1) \div b
  <2>1. PICK j \in 1 .. n : i = 2 * j - 1 \/ i = 2 * j
    BY Beside
  <2>2. PICK x \in 1 .. n : x = order[j]
    BY <1>1
  <2>3. p[2 * j - 1] = x /\ p[2 * j] = 2 * n + 1 - x
    BY <1>1, <2>2, Zenon
  <2>4. 2 * n + 1 - x \notin 1 .. s
    OBVIOUS
  <2>5. i = 2 * j - 1
    BY <1>2, <2>1, <2>3, <2>4, Zenon
  <2>6. order[j] \in 1 .. s
    BY <1>2, <2>2, <2>3, <2>5, Zenon
  <2>7. j - 1 \in Nat /\ i - 1 = 2 * (j - 1)
    BY <2>5
  <2>8. (2 * (j - 1)) \div (2 * b) = (j - 1) \div b
    BY <2>7, TwiceQuotient, Zenon
  <2> QED
    BY <2>5, <2>6, <2>7, <2>8, Zenon
<1>3. ASSUME NEW i \in 1 .. 2 * n, NEW j \in 1 .. 2 * n, p[i] \in 1 .. s, p[j] \in 1 .. s, i # j
      PROVE  (i - 1) \div (2 * b) # (j - 1) \div (2 * b)
  <2>1. PICK a \in 1 .. n : i = 2 * a - 1 /\ order[a] \in 1 .. s /\ (i - 1) \div (2 * b) = (a - 1) \div b
    BY <1>2, <1>3, Zenon
  <2>2. PICK c \in 1 .. n : j = 2 * c - 1 /\ order[c] \in 1 .. s /\ (j - 1) \div (2 * b) = (c - 1) \div b
    BY <1>2, <1>3, Zenon
  <2>3. a # c
    BY <1>3, <2>1, <2>2, Zenon
  <2>4. (a - 1) \div b # (c - 1) \div b
    BY <2>1, <2>2, <2>3, Zenon DEF FarApart
  <2> QED
    BY <2>1, <2>2, <2>4, Zenon
<1> QED
  BY <1>3, Zenon DEF FarApart

(* Every doubling grows the order. *)
LEMMA OrderGrows ==
  ASSUME NEW k \in Nat
  PROVE  Grown(SeedOrder[(k + 1) + 1], SeedOrder[k + 1], Doubled[k + 1])
<1>1. PICK d \in Nat : d = Doubled[k + 1] /\ Doubled[(k + 1) + 1] = 2 * d
  BY Doubling
<1>2. (k + 1) + 1 \in Nat /\ ~((k + 1) + 1 <= 1) /\ ((k + 1) + 1) - 1 = k + 1
  OBVIOUS
<1> DEFINE o == SeedOrder[k + 1]
           p == SeedOrder[(k + 1) + 1]
<1>3. p = [i \in 1 .. 2 * d |-> IF i % 2 = 1 THEN o[(i + 1) \div 2] ELSE Opponent(2 * d, o[i \div 2])]
  BY <1>1, <1>2, SeedOrderIs, Zenon
<1> HIDE DEF o, p
<1>4. ASSUME NEW j \in 1 .. d PROVE p[2 * j - 1] = o[j] /\ p[2 * j] = 2 * d + 1 - o[j]
  <2>1. /\ 2 * j - 1 \in 1 .. 2 * d /\ (2 * j - 1) % 2 = 1 /\ ((2 * j - 1) + 1) \div 2 = j
        /\ 2 * j \in 1 .. 2 * d /\ (2 * j) % 2 # 1 /\ (2 * j) \div 2 = j
    OBVIOUS
  <2>2. p[2 * j - 1] = o[j]
    BY <1>3, <2>1, Zenon
  <2>3. p[2 * j] = Opponent(2 * d, o[j])
    BY <1>3, <2>1, Zenon
  <2> QED
    BY <2>2, <2>3, Zenon DEF Opponent
<1> QED
  BY <1>1, <1>4, Zenon DEF Grown, o, p

(* However often the bracket is doubled, the order ranks every slot once   *)
(* and seats the ranks that add up to one more than its size together.     *)
LEMMA OrderRanks ==
  ASSUME NEW k \in Nat
  PROVE  Ranking(SeedOrder[k + 1], Doubled[k + 1]) /\ Opposing(SeedOrder[k + 1], Doubled[k])
<1> DEFINE B == {j \in Nat : Ranking(SeedOrder[j + 1], Doubled[j + 1]) /\ Opposing(SeedOrder[j + 1], Doubled[j])}
<1>1. 0 \in B
  <2>1. 0 + 1 = 1 /\ 1 <= 1 /\ 1 \in Nat
    OBVIOUS
  <2>2. SeedOrder[1] = <<1, 2>>
    BY <2>1, SeedOrderIs, Zenon
  <2>3. Doubled[0] = 1 /\ Doubled[1] = 2
    <3>1. Doubled[0] = 1 /\ Doubled[0 + 1] = 2 * Doubled[0]
      BY Doubling
    <3> QED
      BY <3>1
  <2>4. Ranking(<<1, 2>>, 2)
    BY DEF Ranking
  <2>5. Opposing(<<1, 2>>, 1)
    BY DEF Opposing
  <2> QED
    BY <2>1, <2>2, <2>3, <2>4, <2>5, Zenon
<1>2. ASSUME NEW j \in Nat, j \in B PROVE j + 1 \in B
  <2>1. PICK d \in Nat : d = Doubled[j + 1] /\ Doubled[(j + 1) + 1] = 2 * d
    BY Doubling
  <2>2. Grown(SeedOrder[(j + 1) + 1], SeedOrder[j + 1], d)
    BY <2>1, OrderGrows, Zenon
  <2>3. Ranking(SeedOrder[(j + 1) + 1], 2 * d) /\ Opposing(SeedOrder[(j + 1) + 1], d)
    BY <1>2, <2>1, <2>2, GrownRanking, Zenon
  <2>4. j + 1 \in Nat
    OBVIOUS
  <2> QED
    BY <2>1, <2>3, <2>4, Zenon
<1> HIDE DEF B
<1>3. Nat \subseteq B
  BY <1>1, <1>2, AllNumbers
<1> QED
  BY <1>3 DEF B

(* Powers of two multiply. *)
LEMMA DoubledSum ==
  ASSUME NEW k \in Nat, NEW m \in Nat
  PROVE  Doubled[k + m] = Doubled[k] * Doubled[m]
<1> DEFINE B == {j \in Nat : Doubled[k + j] = Doubled[k] * Doubled[j]}
<1>1. PICK d \in Nat : d = Doubled[k]
  BY Doubling
<1>2. 0 \in B
  <2>1. k + 0 = k /\ Doubled[0] = 1
    BY Doubling
  <2>2. d * 1 = d
    OBVIOUS
  <2> QED
    BY <1>1, <2>1, <2>2, Zenon
<1>3. ASSUME NEW j \in Nat, j \in B PROVE j + 1 \in B
  <2>1. PICK e \in Nat : e = Doubled[j] /\ Doubled[j + 1] = 2 * e
    BY Doubling
  <2>2. Doubled[(k + j) + 1] = 2 * Doubled[k + j]
    <3>1. k + j \in Nat
      OBVIOUS
    <3> QED
      BY <3>1, Doubling, Zenon
  <2>3. k + (j + 1) = (k + j) + 1 /\ 2 * (d * e) = d * (2 * e)
    OBVIOUS
  <2>4. j + 1 \in Nat
    OBVIOUS
  <2> QED
    BY <1>1, <1>3, <2>1, <2>2, <2>3, <2>4, Zenon
<1> HIDE DEF B
<1>4. Nat \subseteq B
  BY <1>2, <1>3, AllNumbers
<1> QED
  BY <1>4 DEF B

(* A bracket of 2^(k+m) slots splits in 2^k parts of 2^m. *)
LEMMA PartSize ==
  ASSUME NEW k \in Nat, NEW m \in Nat
  PROVE  Doubled[k + m] \div Doubled[k] = Doubled[m]
<1>1. PICK d \in Nat : d = Doubled[k] /\ d > 0
  <2>1. Doubled[k] \in Nat /\ Doubled[k] > k
    BY Doubling, DoublingGrows, Zenon
  <2>2. PICK d \in Nat : d = Doubled[k]
    BY <2>1
  <2>3. d > k
    BY <2>1, <2>2, Zenon
  <2>4. d > 0
    BY <2>3
  <2> QED
    BY <2>2, <2>4
<1>2. PICK e \in Nat : e = Doubled[m]
  BY Doubling
<1>3. PICK a \in Nat : a = d * e
  BY Product
<1>4. Doubled[k + m] = a
  BY <1>1, <1>2, <1>3, DoubledSum, Zenon
<1>5. d * e <= a /\ a < d * e + d
  BY <1>1, <1>3
<1>6. a \div d = e
  BY <1>1, <1>5, Quotient, Zenon
<1> QED
  BY <1>1, <1>2, <1>4, <1>6, Zenon

(* In a bracket of 2^(k+m) slots no two of the best 2^k seeds start in the *)
(* same part of 2^m.                                                       *)
LEMMA SeedsFar ==
  ASSUME NEW k \in Nat, NEW m \in Nat
  PROVE  FarApart(SeedOrder[(k + 1) + m], Doubled[(k + 1) + m], Doubled[k + 1], Doubled[m])
<1> DEFINE K == k + 1
           B == {j \in Nat : FarApart(SeedOrder[K + j], Doubled[K + j], Doubled[K], Doubled[j])}
<1>1. 0 \in B
  <2>1. K + 0 = K /\ Doubled[0] = 1
    BY Doubling
  <2>2. PICK d \in Nat : d = Doubled[K]
    BY Doubling
  <2>3. FarApart(SeedOrder[K], d, d, 1)
    <3>1. ASSUME NEW i \in 1 .. d, NEW j \in 1 .. d, i # j PROVE (i - 1) \div 1 # (j - 1) \div 1
      <4>1. (i - 1) \div 1 = i - 1 /\ (j - 1) \div 1 = j - 1
        OBVIOUS
      <4> QED
        BY <3>1, <4>1
    <3> QED
      BY <3>1, Zenon DEF FarApart
  <2> HIDE DEF K
  <2> QED
    BY <2>1, <2>2, <2>3, Zenon
<1>2. ASSUME NEW j \in Nat, j \in B PROVE j + 1 \in B
  <2>1. PICK c \in Nat : c = k + j /\ K + j = c + 1 /\ K + (j + 1) = (c + 1) + 1
    OBVIOUS
  <2>2. PICK d \in Nat : d = Doubled[c + 1] /\ Doubled[(c + 1) + 1] = 2 * d
    BY Doubling
  <2>3. PICK b \in Nat : b = Doubled[j] /\ Doubled[j + 1] = 2 * b
    BY Doubling
  <2>4. b > 0
    <3>1. Doubled[j] > j
      BY DoublingGrows
    <3> QED
      BY <2>3, <3>1
  <2>5. PICK s \in 0 .. d : s = Doubled[K]
    <3>1. PICK x \in Nat : x = Doubled[K]
      BY Doubling
    <3>2. d = x * b
      <4>1. Doubled[K + j] = Doubled[K] * Doubled[j]
        BY DoubledSum
      <4> HIDE DEF K
      <4> QED
        BY <2>1, <2>2, <2>3, <3>1, <4>1, Zenon
    <3>3. PICK a \in Nat : b = a + 1
      <4>1. b - 1 \in Nat /\ b = (b - 1) + 1
        BY <2>4
      <4> QED
        BY <4>1
    <3>4. PICK y \in Nat : y = x * a
      BY Product
    <3>5. d = y + x
      BY <3>2, <3>3, <3>4, Product
    <3>6. x \in 0 .. d
      BY <3>5
    <3> QED
      BY <3>1, <3>6, Zenon
  <2> HIDE DEF K
  <2>6. Grown(SeedOrder[(c + 1) + 1], SeedOrder[c + 1], d)
    BY <2>1, <2>2, OrderGrows, Zenon
  <2>7. Ranking(SeedOrder[c + 1], d)
    BY <2>2, OrderRanks, Zenon
  <2>8. FarApart(SeedOrder[c + 1], d, s, b)
    BY <1>2, <2>1, <2>2, <2>3, <2>5, Zenon
  <2>9. FarApart(SeedOrder[(c + 1) + 1], 2 * d, s, 2 * b)
    BY <2>4, <2>6, <2>7, <2>8, GrownFar, Zenon
  <2>10. j + 1 \in Nat
    OBVIOUS
  <2> QED
    BY <2>1, <2>2, <2>3, <2>5, <2>9, <2>10, Zenon
<1> HIDE DEF B
<1>3. Nat \subseteq B
  BY <1>1, <1>2, AllNumbers
<1>4. FarApart(SeedOrder[K + m], Doubled[K + m], Doubled[K], Doubled[m])
  BY <1>3 DEF B
<1> QED
  BY <1>4

(* seedPositions ranks every slot of every bracket once and seats the      *)
(* ranks that add up to its size and one together, so that the best ranks  *)
(* meet the worst or a bye; and of the 2^k best ranks no two start in the  *)
(* same 1/2^k of the bracket ("so top seeds meet latest", single_elim.go). *)
THEOREM TopSeedsMeetLatest ==
  \A n \in Nat : LET size  == Doubled[n + 1]
                     order == seedPositions(size)
                 IN  /\ Ranking(order, size)
                     /\ Opposing(order, Doubled[n])
                     /\ \A k \in 1 .. n + 1 : FarApart(order, size, Doubled[k], size \div Doubled[k])
<1> SUFFICES ASSUME NEW n \in Nat
             PROVE  /\ Ranking(seedPositions(Doubled[n + 1]), Doubled[n + 1])
                    /\ Opposing(seedPositions(Doubled[n + 1]), Doubled[n])
                    /\ \A k \in 1 .. n + 1 : FarApart(seedPositions(Doubled[n + 1]), Doubled[n + 1],
                                                      Doubled[k], Doubled[n + 1] \div Doubled[k])
  BY Zenon
<1>1. seedPositions(Doubled[n + 1]) = SeedOrder[n + 1]
  <2>1. n + 1 \in Nat
    OBVIOUS
  <2> QED
    BY <2>1, LogOfPower, Zenon DEF seedPositions
<1>2. Ranking(SeedOrder[n + 1], Doubled[n + 1]) /\ Opposing(SeedOrder[n + 1], Doubled[n])
  BY OrderRanks, Zenon
<1>3. ASSUME NEW k \in 1 .. n + 1
      PROVE  FarApart(SeedOrder[n + 1], Doubled[n + 1], Doubled[k], Doubled[n + 1] \div Doubled[k])
  <2>1. PICK j \in Nat, m \in Nat : k = j + 1 /\ n + 1 = (j + 1) + m
    <3>1. k - 1 \in Nat /\ (n + 1) - k \in Nat /\ k = (k - 1) + 1 /\ n + 1 = ((k - 1) + 1) + ((n + 1) - k)
      OBVIOUS
    <3> QED
      BY <3>1
  <2>2. FarApart(SeedOrder[(j + 1) + m], Doubled[(j + 1) + m], Doubled[j + 1], Doubled[m])
    BY SeedsFar, Zenon
  <2>3. Doubled[(j + 1) + m] \div Doubled[j + 1] = Doubled[m]
    <3>1. j + 1 \in Nat
      OBVIOUS
    <3> QED
      BY <3>1, PartSize, Zenon
  <2> QED
    BY <2>1, <2>2, <2>3, Zenon
<1> QED
  BY <1>1, <1>2, <1>3, Zenon

----------------------------------------------------------------------------
(* Races *)

(* The scores after k points of a race to n that is still on. *)
InPlay(n, k) ==
    {s \in Nat \X Nat : /\ s[1] + s[2] = k
                        /\ \/ s[1] < n /\ s[2] < n
                           \/ s[1] - s[2] \in {-1, 0, 1}}

(* No points have been played at the start. *)
LEMMA StartOfPlay == ASSUME NEW n \in Nat, n > 1 PROVE InPlay(n, 0) = {<<0, 0>>}
<1>1. \A s \in InPlay(n, 0) : s = <<0, 0>>
  <2> SUFFICES ASSUME NEW s \in InPlay(n, 0) PROVE s = <<0, 0>>
    OBVIOUS
  <2>1. s \in Nat \X Nat /\ s[1] + s[2] = 0
    BY DEF InPlay
  <2>2. s[1] = 0 /\ s[2] = 0
    BY <2>1
  <2> QED
    BY <2>1, <2>2
<1>2. <<0, 0>> \in InPlay(n, 0)
  BY DEF InPlay
<1> QED
  BY <1>1, <1>2

(* A race goes on from a score that was still on, and every score still on *)
(* follows one.                                                            *)
LEMMA RaceGoesOn ==
  ASSUME NEW n \in Nat, n > 1, NEW k \in Nat
  PROVE  {s \in After(InPlay(n, k)) : ~RaceOver(s, n)} = InPlay(n, k + 1)
<1>1. ASSUME NEW s \in After(InPlay(n, k)), ~RaceOver(s, n)
      PROVE  s \in InPlay(n, k + 1)
  <2>1. PICK t \in InPlay(n, k) : s = <<t[1] + 1, t[2]>> \/ s = <<t[1], t[2] + 1>>
    BY <1>1 DEF After
  <2>2. t \in Nat \X Nat /\ t[1] \in Nat /\ t[2] \in Nat /\ t[1] + t[2] = k
    BY <2>1 DEF InPlay
  <2>3. s \in Nat \X Nat /\ s[1] + s[2] = k + 1
    BY <2>1, <2>2
  <2>4. s[1] \in Nat /\ s[2] \in Nat
    BY <2>3
  <2>5. \/ s[1] < n /\ s[2] < n
        \/ s[1] - s[2] \in {-1, 0, 1}
    BY <1>1, <2>4 DEF RaceOver, Reached, Leads
  <2> QED
    BY <2>3, <2>5 DEF InPlay
<1>2. ASSUME NEW s \in InPlay(n, k + 1)
      PROVE  s \in After(InPlay(n, k)) /\ ~RaceOver(s, n)
  <2>1. /\ s \in Nat \X Nat /\ s[1] \in Nat /\ s[2] \in Nat /\ s[1] + s[2] = k + 1
        /\ (s[1] < n /\ s[2] < n) \/ s[1] - s[2] \in {-1, 0, 1}
    BY <1>2 DEF InPlay
  <2>2. ~RaceOver(s, n)
    BY <2>1 DEF RaceOver, Reached, Leads
  <2>3. CASE s[1] > s[2]
    <3>1. <<s[1] - 1, s[2]>> \in InPlay(n, k)
      BY <2>1, <2>3 DEF InPlay
    <3>2. s = <<(s[1] - 1) + 1, s[2]>>
      BY <2>1
    <3> QED
      BY <2>2, <3>1, <3>2 DEF After
  <2>4. CASE ~(s[1] > s[2])
    <3>1. <<s[1], s[2] - 1>> \in InPlay(n, k)
      BY <2>1, <2>4 DEF InPlay
    <3>2. s = <<s[1], (s[2] - 1) + 1>>
      BY <2>1
    <3> QED
      BY <2>2, <3>1, <3>2 DEF After
  <2> QED
    BY <2>3, <2>4
<1> QED
  BY <1>1, <1>2

(* Playing on point by point leads to those scores and no others. *)
LEMMA RaceInPlay ==
  ASSUME NEW n \in Nat, n > 1
  PROVE  \A k \in Nat : RaceOn(n)[k] = InPlay(n, k)
<1> DEFINE g == [k \in Nat |-> InPlay(n, k)]
<1>1. g = [k \in Nat |-> IF k = 0 THEN {<<0, 0>>} ELSE {s \in After(g[k - 1]) : ~RaceOver(s, n)}]
  <2>1. InPlay(n, 0) = {<<0, 0>>}
    BY StartOfPlay
  <2>2. ASSUME NEW k \in Nat, k # 0
        PROVE  InPlay(n, k) = {s \in After(g[k - 1]) : ~RaceOver(s, n)}
    <3>1. k - 1 \in Nat /\ (k - 1) + 1 = k
      BY <2>2
    <3>2. g[k - 1] = InPlay(n, k - 1)
      BY <3>1
    <3> QED
      BY <3>1, <3>2, RaceGoesOn
  <2> QED
    BY <2>1, <2>2
<1> HIDE DEF g
<1>2. RaceOn(n) = [k \in Nat |-> IF k = 0 THEN {<<0, 0>>}
                                 ELSE {s \in After(RaceOn(n)[k - 1]) : ~RaceOver(s, n)}]
  BY <1>1 DEF RaceOn
<1> DEFINE B == {k \in Nat : RaceOn(n)[k] = InPlay(n, k)}
<1>3. 0 \in B
  <2>1. RaceOn(n)[0] = {<<0, 0>>}
    BY <1>2
  <2> QED
    BY <2>1, StartOfPlay
<1>4. ASSUME NEW k \in Nat, k \in B PROVE k + 1 \in B
  <2>1. k + 1 \in Nat /\ k + 1 # 0 /\ (k + 1) - 1 = k
    OBVIOUS
  <2>2. \A j \in Nat : j # 0 => RaceOn(n)[j] = {s \in After(RaceOn(n)[j - 1]) : ~RaceOver(s, n)}
    BY <1>2, Zenon
  <2>3. RaceOn(n)[k + 1] = {s \in After(RaceOn(n)[k]) : ~RaceOver(s, n)}
    BY <2>1, <2>2
  <2>4. RaceOn(n)[k] = InPlay(n, k)
    BY <1>4
  <2>5. RaceOn(n)[k + 1] = InPlay(n, k + 1)
    BY <2>3, <2>4, RaceGoesOn
  <2> QED
    BY <2>1, <2>5
<1> HIDE DEF B
<1>5. Nat \subseteq B
  BY <1>3, <1>4, AllNumbers
<1> QED
  BY <1>5 DEF B

(* A race ends at the target with a lead of two, or past it with exactly   *)
(* two.                                                                    *)
LEMMA RaceEnds ==
  ASSUME NEW n \in Nat, n > 1, NEW x \in Int, NEW y \in Int
  PROVE  RaceResult(<<x, y>>, n) <=> Min2(x, y) >= 0 /\ RaceShape(Max2(x, y), Min2(x, y), n)
<1> DEFINE s == <<x, y>>
<1>1. ASSUME RaceResult(s, n)
      PROVE  Min2(x, y) >= 0 /\ RaceShape(Max2(x, y), Min2(x, y), n)
  <2>1. x \in Nat /\ y \in Nat /\ RaceOver(s, n) /\ s \in After(RaceOn(n)[Before(s)])
    BY <1>1 DEF RaceResult
  <2>2. x + y - 1 \in Nat
    BY <2>1 DEF RaceOver, Reached
  <2>3. s \in After(InPlay(n, x + y - 1))
    BY <2>1, <2>2, RaceInPlay DEF Before
  <2>4. PICK t \in InPlay(n, x + y - 1) : s = <<t[1] + 1, t[2]>> \/ s = <<t[1], t[2] + 1>>
    BY <2>3 DEF After
  <2>5. /\ t[1] \in Nat /\ t[2] \in Nat
        /\ (t[1] < n /\ t[2] < n) \/ t[1] - t[2] \in {-1, 0, 1}
    BY <2>4 DEF InPlay
  <2>6. (x = t[1] + 1 /\ y = t[2]) \/ (x = t[1] /\ y = t[2] + 1)
    BY <2>4
  <2> QED
    BY <2>1, <2>5, <2>6 DEF RaceOver, Reached, Leads, RaceShape, Max2, Min2
<1>2. ASSUME Min2(x, y) >= 0, RaceShape(Max2(x, y), Min2(x, y), n)
      PROVE  RaceResult(s, n)
  <2>1. x \in Nat /\ y \in Nat /\ RaceOver(s, n) /\ x + y - 1 \in Nat
    BY <1>2 DEF RaceOver, Reached, Leads, RaceShape, Max2, Min2
  <2>2. CASE x > y
    <3>1. <<x - 1, y>> \in InPlay(n, x + y - 1)
      BY <1>2, <2>1, <2>2 DEF InPlay, RaceShape, Max2, Min2
    <3>2. s = <<(x - 1) + 1, y>>
      OBVIOUS
    <3>3. s \in After(InPlay(n, x + y - 1))
      BY <3>1, <3>2 DEF After
    <3> QED
      BY <2>1, <3>3, RaceInPlay DEF RaceResult, Before
  <2>3. CASE ~(x > y)
    <3>1. <<x, y - 1>> \in InPlay(n, x + y - 1)
      BY <1>2, <2>1, <2>3 DEF InPlay, RaceShape, Max2, Min2
    <3>2. s = <<x, (y - 1) + 1>>
      OBVIOUS
    <3>3. s \in After(InPlay(n, x + y - 1))
      BY <3>1, <3>2 DEF After
    <3> QED
      BY <2>1, <3>3, RaceInPlay DEF RaceResult, Before
  <2> QED
    BY <2>2, <2>3
<1> QED
  BY <1>1, <1>2

----------------------------------------------------------------------------
(* Sets *)

(* The scores after k games of a set that is still on. *)
SetInPlay(k) ==
    {s \in Nat \X Nat : /\ s[1] + s[2] = k /\ s[1] < 7 /\ s[2] < 7
                        /\ \/ s[1] < 6 /\ s[2] < 6
                           \/ s[1] - s[2] \in {-1, 0, 1}}

(* The same of a set and its games. *)
LEMMA StartOfSet == SetInPlay(0) = {<<0, 0>>}
<1>1. \A s \in SetInPlay(0) : s = <<0, 0>>
  <2> SUFFICES ASSUME NEW s \in SetInPlay(0) PROVE s = <<0, 0>>
    OBVIOUS
  <2>1. s \in Nat \X Nat /\ s[1] + s[2] = 0
    BY DEF SetInPlay
  <2>2. s[1] = 0 /\ s[2] = 0
    BY <2>1
  <2> QED
    BY <2>1, <2>2
<1>2. <<0, 0>> \in SetInPlay(0)
  BY DEF SetInPlay
<1> QED
  BY <1>1, <1>2

(* A set goes on from a score that was still on. *)
LEMMA SetGoesOn ==
  ASSUME NEW k \in Nat
  PROVE  {s \in After(SetInPlay(k)) : ~SetOver(s)} = SetInPlay(k + 1)
<1>1. ASSUME NEW s \in After(SetInPlay(k)), ~SetOver(s)
      PROVE  s \in SetInPlay(k + 1)
  <2>1. PICK t \in SetInPlay(k) : s = <<t[1] + 1, t[2]>> \/ s = <<t[1], t[2] + 1>>
    BY <1>1 DEF After
  <2>2. t \in Nat \X Nat /\ t[1] \in Nat /\ t[2] \in Nat /\ t[1] + t[2] = k
    BY <2>1 DEF SetInPlay
  <2>3. s \in Nat \X Nat /\ s[1] + s[2] = k + 1
    BY <2>1, <2>2
  <2>4. s[1] \in Nat /\ s[2] \in Nat
    BY <2>3
  <2>5. /\ s[1] < 7 /\ s[2] < 7
        /\ (s[1] < 6 /\ s[2] < 6) \/ s[1] - s[2] \in {-1, 0, 1}
    BY <1>1, <2>4 DEF SetOver, RaceOver, Reached, Leads
  <2> QED
    BY <2>3, <2>5 DEF SetInPlay
<1>2. ASSUME NEW s \in SetInPlay(k + 1)
      PROVE  s \in After(SetInPlay(k)) /\ ~SetOver(s)
  <2>1. /\ s \in Nat \X Nat /\ s[1] \in Nat /\ s[2] \in Nat /\ s[1] + s[2] = k + 1
        /\ s[1] < 7 /\ s[2] < 7
        /\ (s[1] < 6 /\ s[2] < 6) \/ s[1] - s[2] \in {-1, 0, 1}
    BY <1>2 DEF SetInPlay
  <2>2. ~SetOver(s)
    BY <2>1 DEF SetOver, RaceOver, Reached, Leads
  <2>3. CASE s[1] > s[2]
    <3>1. <<s[1] - 1, s[2]>> \in SetInPlay(k)
      BY <2>1, <2>3 DEF SetInPlay
    <3>2. s = <<(s[1] - 1) + 1, s[2]>>
      BY <2>1
    <3> QED
      BY <2>2, <3>1, <3>2 DEF After
  <2>4. CASE ~(s[1] > s[2])
    <3>1. <<s[1], s[2] - 1>> \in SetInPlay(k)
      BY <2>1, <2>4 DEF SetInPlay
    <3>2. s = <<s[1], (s[2] - 1) + 1>>
      BY <2>1
    <3> QED
      BY <2>2, <3>1, <3>2 DEF After
  <2> QED
    BY <2>3, <2>4
<1> QED
  BY <1>1, <1>2

(* Playing on game by game leads to those scores and no others. *)
LEMMA SetPlayed == \A k \in Nat : SetOn[k] = SetInPlay(k)
<1> DEFINE g == [k \in Nat |-> SetInPlay(k)]
<1>1. g = [k \in Nat |-> IF k = 0 THEN {<<0, 0>>} ELSE {s \in After(g[k - 1]) : ~SetOver(s)}]
  <2>1. ASSUME NEW k \in Nat, k # 0
        PROVE  SetInPlay(k) = {s \in After(g[k - 1]) : ~SetOver(s)}
    <3>1. k - 1 \in Nat /\ (k - 1) + 1 = k
      BY <2>1
    <3>2. g[k - 1] = SetInPlay(k - 1)
      BY <3>1
    <3> QED
      BY <3>1, <3>2, SetGoesOn
  <2> QED
    BY <2>1, StartOfSet
<1> HIDE DEF g
<1>2. SetOn = [k \in Nat |-> IF k = 0 THEN {<<0, 0>>}
                             ELSE {s \in After(SetOn[k - 1]) : ~SetOver(s)}]
  BY <1>1 DEF SetOn
<1> DEFINE B == {k \in Nat : SetOn[k] = SetInPlay(k)}
<1>3. 0 \in B
  <2>1. SetOn[0] = {<<0, 0>>}
    BY <1>2
  <2> QED
    BY <2>1, StartOfSet
<1>4. ASSUME NEW k \in Nat, k \in B PROVE k + 1 \in B
  <2>1. k + 1 \in Nat /\ k + 1 # 0 /\ (k + 1) - 1 = k
    OBVIOUS
  <2>2. \A j \in Nat : j # 0 => SetOn[j] = {s \in After(SetOn[j - 1]) : ~SetOver(s)}
    BY <1>2, Zenon
  <2>3. SetOn[k + 1] = {s \in After(SetOn[k]) : ~SetOver(s)}
    BY <2>1, <2>2
  <2>4. SetOn[k] = SetInPlay(k)
    BY <1>4
  <2>5. SetOn[k + 1] = SetInPlay(k + 1)
    BY <2>3, <2>4, SetGoesOn
  <2> QED
    BY <2>1, <2>5
<1> HIDE DEF B
<1>5. Nat \subseteq B
  BY <1>3, <1>4, AllNumbers
<1> QED
  BY <1>5 DEF B

(* A set ends 6-0 to 6-4, 7-5 or 7-6. *)
LEMMA SetEnds ==
  ASSUME NEW x \in Int, NEW y \in Int
  PROVE  SetResult(<<x, y>>) <=>
            /\ Min2(x, y) >= 0
            /\ ShortSet(Max2(x, y), Min2(x, y)) \/ (Max2(x, y) = 7 /\ Min2(x, y) = 6)
<1> DEFINE s == <<x, y>>
<1>1. ASSUME SetResult(s)
      PROVE  /\ Min2(x, y) >= 0
             /\ ShortSet(Max2(x, y), Min2(x, y)) \/ (Max2(x, y) = 7 /\ Min2(x, y) = 6)
  <2>1. x \in Nat /\ y \in Nat /\ SetOver(s) /\ s \in After(SetOn[Before(s)])
    BY <1>1 DEF SetResult
  <2>2. x + y - 1 \in Nat
    BY <2>1 DEF SetOver, RaceOver, Reached
  <2>3. s \in After(SetInPlay(x + y - 1))
    BY <2>1, <2>2, SetPlayed DEF Before
  <2>4. PICK t \in SetInPlay(x + y - 1) : s = <<t[1] + 1, t[2]>> \/ s = <<t[1], t[2] + 1>>
    BY <2>3 DEF After
  <2>5. /\ t[1] \in Nat /\ t[2] \in Nat /\ t[1] < 7 /\ t[2] < 7
        /\ (t[1] < 6 /\ t[2] < 6) \/ t[1] - t[2] \in {-1, 0, 1}
    BY <2>4 DEF SetInPlay
  <2>6. (x = t[1] + 1 /\ y = t[2]) \/ (x = t[1] /\ y = t[2] + 1)
    BY <2>4
  <2> QED
    BY <2>1, <2>5, <2>6 DEF SetOver, RaceOver, Reached, Leads, ShortSet, Max2, Min2
<1>2. ASSUME Min2(x, y) >= 0,
             ShortSet(Max2(x, y), Min2(x, y)) \/ (Max2(x, y) = 7 /\ Min2(x, y) = 6)
      PROVE  SetResult(s)
  <2>1. x \in Nat /\ y \in Nat /\ SetOver(s) /\ x + y - 1 \in Nat
    BY <1>2 DEF SetOver, RaceOver, Reached, Leads, ShortSet, Max2, Min2
  <2>2. CASE x > y
    <3>1. <<x - 1, y>> \in SetInPlay(x + y - 1)
      BY <1>2, <2>1, <2>2 DEF SetInPlay, ShortSet, Max2, Min2
    <3>2. s = <<(x - 1) + 1, y>>
      OBVIOUS
    <3>3. s \in After(SetInPlay(x + y - 1))
      BY <3>1, <3>2 DEF After
    <3> QED
      BY <2>1, <3>3, SetPlayed DEF SetResult, Before
  <2>3. CASE ~(x > y)
    <3>1. <<x, y - 1>> \in SetInPlay(x + y - 1)
      BY <1>2, <2>1, <2>3 DEF SetInPlay, ShortSet, Max2, Min2
    <3>2. s = <<x, (y - 1) + 1>>
      OBVIOUS
    <3>3. s \in After(SetInPlay(x + y - 1))
      BY <3>1, <3>2 DEF After
    <3> QED
      BY <2>1, <3>3, SetPlayed DEF SetResult, Before
  <2> QED
    BY <2>2, <2>3
<1> QED
  BY <1>1, <1>2

(* What validateSet reads from the two tiebreak values. *)
LEMMA TiebreakPoints ==
  ASSUME NEW s \in {<<>>} \cup [1 .. 1 -> Int], NEW t \in {<<>>} \cup [1 .. 1 -> Int]
  PROVE  /\ s \o t = <<>> <=> s = <<>> /\ t = <<>>
         /\ (\E i \in DOMAIN (s \o t) : (s \o t)[i] < 0) <=>
               (s # <<>> /\ s[1] < 0) \/ (t # <<>> /\ t[1] < 0)
         /\ s # <<>> => s[1] \in Int /\ Len(s) = 1
         /\ t # <<>> => t[1] \in Int /\ Len(t) = 1
         /\ Len(s) = 1 => s # <<>>
         /\ Len(t) = 1 => t # <<>>
<1>1. ASSUME NEW r \in {<<>>} \cup [1 .. 1 -> Int]
      PROVE  /\ r \in Seq(Int) /\ (r = <<>> => Len(r) = 0)
             /\ r # <<>> => r[1] \in Int /\ Len(r) = 1
  <2>1. CASE r = <<>>
    BY <2>1
  <2>2. CASE r \in [1 .. 1 -> Int]
    <3>1. 1 \in Nat
      OBVIOUS
    <3>2. r \in Seq(Int) /\ Len(r) = 1
      BY <2>2, <3>1, Numbered
    <3>3. r[1] \in Int
      BY <2>2
    <3> QED
      BY <3>2, <3>3
  <2> QED
    BY <1>1, <2>1, <2>2
<1>2. /\ s \o t \in Seq(Int) /\ Len(s \o t) = Len(s) + Len(t)
      /\ \A i \in 1 .. Len(s) + Len(t) :
            (s \o t)[i] = IF i <= Len(s) THEN s[i] ELSE t[i - Len(s)]
  BY <1>1, ConcatProperties
<1>3. DOMAIN (s \o t) = 1 .. Len(s) + Len(t)
  BY <1>2, LenProperties
<1>4. s \o t = <<>> <=> s = <<>> /\ t = <<>>
  BY <1>1, ConcatEqualIffEmpty
<1>5. CASE s = <<>> /\ t = <<>>
  BY <1>1, <1>3, <1>4, <1>5
<1>6. CASE s = <<>> /\ t # <<>>
  <2>1. Len(s) = 0 /\ Len(t) = 1
    BY <1>1, <1>6
  <2> QED
    BY <1>1, <1>2, <1>3, <1>4, <1>6, <2>1
<1>7. CASE s # <<>> /\ t = <<>>
  <2>1. Len(s) = 1 /\ Len(t) = 0
    BY <1>1, <1>7
  <2> QED
    BY <1>1, <1>2, <1>3, <1>4, <1>7, <2>1
<1>8. CASE s # <<>> /\ t # <<>>
  <2>1. Len(s) = 1 /\ Len(t) = 1
    BY <1>1, <1>8
  <2>2. (s \o t)[1] = s[1] /\ (s \o t)[2] = t[1] /\ DOMAIN (s \o t) = {1, 2}
    BY <1>2, <1>3, <2>1
  <2> QED
    BY <1>1, <1>4, <1>8, <2>1, <2>2
<1> QED
  BY <1>5, <1>6, <1>7, <1>8

(* validateSet calls a set complete exactly when it can have been played   *)
(* to its end, and gives it to the side that won it.                       *)
LEMMA SetVerdict ==
  ASSUME NEW st \in SetScores, NEW d \in BOOLEAN, NEW a \in BOOLEAN
  PROVE  /\ validateSet(st, d, a) \in [ok : BOOLEAN, winner : 0 .. 2, complete : BOOLEAN]
         /\ validateSet(st, d, a).complete <=> Finished(st, d)
         /\ validateSet(st, d, a).complete =>
               validateSet(st, d, a).ok /\ validateSet(st, d, a).winner = Side(<<st.p1, st.p2>>)
         /\ ~validateSet(st, d, a).complete => validateSet(st, d, a).winner = 0
         /\ ~a /\ validateSet(st, d, a).ok => validateSet(st, d, a).complete
<1> DEFINE v      == validateSet(st, d, a)
           side   == IF st.p2 > st.p1 THEN 2 ELSE 1
           points == st.tb1 \o st.tb2
           Right  == /\ v \in [ok : BOOLEAN, winner : 0 .. 2, complete : BOOLEAN]
                     /\ v.complete <=> Finished(st, d)
                     /\ v.complete => v.ok /\ v.winner = Side(<<st.p1, st.p2>>)
                     /\ ~v.complete => v.winner = 0
                     /\ ~a /\ v.ok => v.complete
<1> SUFFICES Right
  OBVIOUS
<1>1. /\ st.p1 \in Int /\ st.p2 \in Int
      /\ st.tb1 \in {<<>>} \cup [1 .. 1 -> Int] /\ st.tb2 \in {<<>>} \cup [1 .. 1 -> Int]
  BY DEF SetScores
<1>2. PICK x \in Int, y \in Int : x = st.p1 /\ y = st.p2
  BY <1>1
<1>3. /\ points = <<>> <=> st.tb1 = <<>> /\ st.tb2 = <<>>
      /\ (\E i \in DOMAIN points : points[i] < 0) <=>
             (st.tb1 # <<>> /\ st.tb1[1] < 0) \/ (st.tb2 # <<>> /\ st.tb2[1] < 0)
      /\ st.tb1 # <<>> <=> Len(st.tb1) = 1
      /\ st.tb2 # <<>> <=> Len(st.tb2) = 1
      /\ st.tb1 # <<>> => st.tb1[1] \in Int
      /\ st.tb2 # <<>> => st.tb2[1] \in Int
  BY <1>1, TiebreakPoints
<1>4. /\ RaceResult(<<x, y>>, 10) <=> Min2(x, y) >= 0 /\ RaceShape(Max2(x, y), Min2(x, y), 10)
      /\ SetResult(<<x, y>>) <=>
            /\ Min2(x, y) >= 0
            /\ ShortSet(Max2(x, y), Min2(x, y)) \/ (Max2(x, y) = 7 /\ Min2(x, y) = 6)
  BY RaceEnds, SetEnds
<1> DEFINE Verdicts == [ok : BOOLEAN, winner : 0 .. 2, complete : BOOLEAN]
<1>5. /\ Illegal \in Verdicts /\ ~Illegal.ok /\ Illegal.winner = 0 /\ ~Illegal.complete
      /\ Partial \in Verdicts /\ Partial.ok /\ Partial.winner = 0 /\ ~Partial.complete
      /\ Won(side) \in Verdicts /\ Won(side).ok /\ Won(side).winner = side /\ Won(side).complete
  BY DEF Illegal, Partial, Won, Verdict
<1> DEFINE hi == Max2(x, y)
           lo == Min2(x, y)
<1>6. ASSUME v = Illegal, ~Finished(st, d) PROVE Right
  <2> HIDE DEF v, Verdicts
  <2>1. v \in Verdicts /\ ~v.ok /\ v.winner = 0 /\ ~v.complete
    BY <1>5, <1>6
  <2> QED
    BY <1>6, <2>1, Zenon DEF Verdicts
<1>7. ASSUME v = Partial, a, ~Finished(st, d) PROVE Right
  <2> HIDE DEF v, Verdicts
  <2>1. v \in Verdicts /\ v.ok /\ v.winner = 0 /\ ~v.complete
    BY <1>5, <1>7
  <2> QED
    BY <1>7, <2>1, Zenon DEF Verdicts
<1>8. ASSUME v = Won(side), Finished(st, d) PROVE Right
  <2>1. side = Side(<<st.p1, st.p2>>) /\ side \in 0 .. 2
    <3>1. side = 2 <=> st.p2 > st.p1
      OBVIOUS
    <3>2. Finished(st, d) => st.p1 # st.p2
      BY <1>2, <1>4 DEF Finished, RaceShape, ShortSet, Max2, Min2
    <3> QED
      BY <1>1, <1>8, <3>2 DEF Side
  <2> HIDE DEF v, Verdicts, side
  <2>2. v \in Verdicts /\ v.ok /\ v.winner = side /\ v.complete
    BY <1>5, <1>8
  <2> QED
    BY <1>8, <2>1, <2>2, Zenon DEF Verdicts
<1>9. CASE lo < 0
  <2>1. v = Illegal
    BY <1>2, <1>9 DEF validateSet
  <2>2. ~Finished(st, d)
    <3>1. ~RaceResult(<<st.p1, st.p2>>, 10) /\ ~SetResult(<<st.p1, st.p2>>)
      <4>1. ~(lo >= 0)
        BY <1>9 DEF Min2
      <4> QED
        BY <1>2, <1>4, <4>1
    <3> QED
      BY <3>1, Zenon DEF Finished
  <2> QED
    BY <1>6, <2>1, <2>2
<1>10. CASE \E i \in DOMAIN points : points[i] < 0
  <2>1. v = Illegal
    BY <1>10 DEF validateSet
  <2>2. ~Finished(st, d)
    <3>1. points # <<>>
      BY <1>3, <1>10
    <3>2. st.tb1 # <<>> /\ st.tb2 # <<>> =>
             ~RaceResult(<<st.tb1[1], st.tb2[1]>>, 7)
      <4> SUFFICES ASSUME st.tb1 # <<>>, st.tb2 # <<>>, RaceResult(<<st.tb1[1], st.tb2[1]>>, 7)
                   PROVE  FALSE
        OBVIOUS
      <4>1. st.tb1[1] \in Nat /\ st.tb2[1] \in Nat
        BY DEF RaceResult
      <4>2. st.tb1[1] < 0 \/ st.tb2[1] < 0
        BY <1>3, <1>10, Zenon
      <4> QED
        BY <4>1, <4>2
    <3> QED
      BY <1>3, <3>1, <3>2 DEF Finished
  <2> QED
    BY <1>6, <2>1, <2>2
<1> DEFINE Legal == ~(lo < 0) /\ ~(\E i \in DOMAIN points : points[i] < 0)
<1>11. CASE Legal /\ d
  <2>1. v = IF points # <<>> THEN Illegal
            ELSE IF RaceShape(hi, lo, 10) THEN Won(side)
            ELSE IF a THEN Partial ELSE Illegal
    BY <1>2, <1>11 DEF validateSet
  <2>2. Finished(st, d) <=> RaceShape(hi, lo, 10) /\ points = <<>>
    BY <1>2, <1>3, <1>4, <1>11 DEF Finished, Min2
  <2> QED
    BY <1>6, <1>7, <1>8, <2>1, <2>2
<1>12. CASE Legal /\ ~d /\ ShortSet(hi, lo)
  <2>1. v = IF points # <<>> THEN Illegal ELSE Won(side)
    BY <1>2, <1>12 DEF validateSet
  <2>2. <<x, y>> \notin {<<7, 6>>, <<6, 7>>}
    BY <1>12 DEF ShortSet, Max2, Min2
  <2>3. Finished(st, d) <=> points = <<>>
    BY <1>2, <1>3, <1>4, <1>12, <2>2 DEF Finished, Min2
  <2> QED
    BY <1>6, <1>8, <2>1, <2>3
<1>13. CASE Legal /\ ~d /\ hi = 7 /\ lo = 6
  <2>1. v = validateTiebreak(st, side, a)
    <3>1. ~ShortSet(hi, lo)
      BY <1>13 DEF ShortSet
    <3> QED
      BY <1>2, <1>13, <3>1 DEF validateSet
  <2>2. <<x, y>> \in {<<7, 6>>, <<6, 7>>} /\ side = Side(<<x, y>>) /\ SetResult(<<x, y>>)
    BY <1>2, <1>4, <1>13 DEF Max2, Min2, Side
  <2>3. CASE st.tb1 = <<>> \/ st.tb2 = <<>>
    <3>1. v = IF a THEN Partial ELSE Illegal
      BY <2>1, <2>3 DEF validateTiebreak
    <3>2. ~Finished(st, d)
      BY <1>2, <1>3, <1>13, <2>2, <2>3 DEF Finished
    <3> QED
      BY <1>6, <1>7, <3>1, <3>2
  <2>4. CASE ~(st.tb1 = <<>> \/ st.tb2 = <<>>)
    <3>1. PICK p \in Int, q \in Int : p = st.tb1[1] /\ q = st.tb2[1]
      BY <1>3, <2>4
    <3>2. v = IF RaceShape(Max2(p, q), Min2(p, q), 7) /\ side = (IF q > p THEN 2 ELSE 1)
              THEN Won(side) ELSE Illegal
      BY <2>1, <2>4, <3>1 DEF validateTiebreak
    <3>3. RaceResult(<<p, q>>, 7) <=> Min2(p, q) >= 0 /\ RaceShape(Max2(p, q), Min2(p, q), 7)
      BY RaceEnds
    <3>4. p >= 0 /\ q >= 0 /\ Min2(p, q) >= 0
      <4>1. ~(st.tb1[1] < 0) /\ ~(st.tb2[1] < 0)
        BY <1>3, <1>13, <2>4, Zenon
      <4> QED
        BY <3>1, <4>1 DEF Min2
    <3>5. RaceShape(Max2(p, q), Min2(p, q), 7) => Side(<<p, q>>) = (IF q > p THEN 2 ELSE 1)
      BY DEF RaceShape, Max2, Min2, Side
    <3>6. Finished(st, d) <=> RaceResult(<<p, q>>, 7) /\ Side(<<p, q>>) = Side(<<x, y>>)
      BY <1>2, <1>3, <1>13, <2>2, <2>4, <3>1 DEF Finished
    <3> QED
      BY <1>6, <1>8, <2>2, <3>2, <3>3, <3>4, <3>5, <3>6
  <2> QED
    BY <2>3, <2>4
<1>14. CASE Legal /\ ~d /\ ~ShortSet(hi, lo) /\ ~(hi = 7 /\ lo = 6)
  <2>1. v = IF a /\ hi <= 6 THEN Partial ELSE Illegal
    BY <1>2, <1>14 DEF validateSet
  <2>2. ~Finished(st, d)
    BY <1>2, <1>4, <1>14 DEF Finished
  <2> QED
    BY <1>6, <1>7, <2>1, <2>2
<1> QED
  BY <1>9, <1>10, <1>11, <1>12, <1>13, <1>14

----------------------------------------------------------------------------
(* Matches *)

(* Counting the first k + 1 numbers that qualify. *)
LEMMA CountUp ==
  ASSUME NEW Q, NEW k \in Nat
  PROVE  /\ IsFiniteSet({i \in 1 .. k : i \in Q})
         /\ Cardinality({i \in 1 .. k : i \in Q}) \in Nat
         /\ Cardinality({i \in 1 .. k + 1 : i \in Q}) =
               Cardinality({i \in 1 .. k : i \in Q}) + IF k + 1 \in Q THEN 1 ELSE 0
<1> DEFINE first == {i \in 1 .. k : i \in Q}
           more  == {i \in 1 .. k + 1 : i \in Q}
<1>1. IsFiniteSet(first) /\ Cardinality(first) \in Nat
  <2>1. IsFiniteSet(1 .. k)
    BY FS_Interval
  <2> QED
    BY <2>1, FS_Subset, FS_CardinalityType
<1>2. CASE k + 1 \in Q
  <2>1. more = first \cup {k + 1} /\ k + 1 \notin first
    BY <1>2
  <2>2. Cardinality(more) = Cardinality(first) + 1
    BY <1>1, <2>1, FS_AddElement
  <2> QED
    BY <1>1, <1>2, <2>2
<1>3. CASE k + 1 \notin Q
  <2>1. more = first
    BY <1>3
  <2> QED
    BY <1>1, <1>3, <2>1
<1> QED
  BY <1>2, <1>3

(* The number of sets that a side has won after up to three. *)
LEMMA WinsUpToThree ==
  ASSUME NEW Q
  PROVE  /\ Cardinality({i \in 1 .. 0 : i \in Q}) = 0
         /\ Cardinality({i \in 1 .. 1 : i \in Q}) = IF 1 \in Q THEN 1 ELSE 0
         /\ Cardinality({i \in 1 .. 2 : i \in Q}) =
               (IF 1 \in Q THEN 1 ELSE 0) + (IF 2 \in Q THEN 1 ELSE 0)
         /\ Cardinality({i \in 1 .. 3 : i \in Q}) =
               (IF 1 \in Q THEN 1 ELSE 0) + (IF 2 \in Q THEN 1 ELSE 0) + (IF 3 \in Q THEN 1 ELSE 0)
<1> DEFINE w(k) == Cardinality({i \in 1 .. k : i \in Q})
<1>1. w(0) = 0
  <2>1. {i \in 1 .. 0 : i \in Q} = {}
    OBVIOUS
  <2> QED
    BY <2>1, FS_EmptySet
<1>2. \A k \in Nat : w(k) \in Nat /\ w(k + 1) = w(k) + IF k + 1 \in Q THEN 1 ELSE 0
  BY CountUp
<1> HIDE DEF w
<1>3. w(1) = IF 1 \in Q THEN 1 ELSE 0
  <2>1. w(0 + 1) = w(0) + IF 0 + 1 \in Q THEN 1 ELSE 0
    BY <1>2
  <2>2. 0 + 1 = 1
    OBVIOUS
  <2> QED
    BY <1>1, <2>1, <2>2
<1>4. w(2) = w(1) + IF 2 \in Q THEN 1 ELSE 0
  <2>1. w(1 + 1) = w(1) + IF 1 + 1 \in Q THEN 1 ELSE 0
    BY <1>2
  <2>2. 1 + 1 = 2
    OBVIOUS
  <2> QED
    BY <2>1, <2>2
<1>5. w(3) = w(2) + IF 3 \in Q THEN 1 ELSE 0
  <2>1. w(2 + 1) = w(2) + IF 2 + 1 \in Q THEN 1 ELSE 0
    BY <1>2
  <2>2. 2 + 1 = 3
    OBVIOUS
  <2> QED
    BY <2>1, <2>2
<1>6. w(0) = 0 /\ w(1) = (IF 1 \in Q THEN 1 ELSE 0)
      /\ w(2) = (IF 1 \in Q THEN 1 ELSE 0) + (IF 2 \in Q THEN 1 ELSE 0)
      /\ w(3) = (IF 1 \in Q THEN 1 ELSE 0) + (IF 2 \in Q THEN 1 ELSE 0) + (IF 3 \in Q THEN 1 ELSE 0)
  BY <1>1, <1>3, <1>4, <1>5
<1> QED
  BY <1>6 DEF w

(* The configurations that ParseScoringConfig returns. *)
Configs == {c \in [bestOf : {1, 3}, deciding : {"full", "match_tiebreak"}] :
               c.bestOf = 1 => c.deciding = "full"}

(* ParseScoringConfig yields a single set or the best of three, and only   *)
(* the third set of three can be a match tiebreak.                         *)
LEMMA ConfigsRead == ASSUME NEW doc PROVE ParseScoringConfig(doc) \in Configs
<1> DEFINE bestOf   == IF doc.bestOf = 0 THEN 3 ELSE doc.bestOf
           deciding == IF doc.deciding = "" THEN "full" ELSE doc.deciding
<1>1. ParseScoringConfig(doc) =
         IF \/ bestOf \notin {1, 3} \/ deciding \notin {"full", "match_tiebreak"} \/ doc.odd
            \/ bestOf = 1 /\ deciding = "match_tiebreak"
         THEN Config(3, "full") ELSE Config(bestOf, deciding)
  BY Zenon DEF ParseScoringConfig, DefaultScoringConfig
<1> HIDE DEF bestOf, deciding
<1> QED
  BY <1>1 DEF Configs, Config

(* How many of the first k numbers are in Q. *)
Count(Q, k) == Cardinality({i \in 1 .. k : i \in Q})

(* The sets that win a match. *)
ToWin(cfg) == (cfg.bestOf + 1) \div 2

(* Of two sides that share the sets, one at most has won enough, by the    *)
(* set that it has just won, and before that neither had.                  *)
LEMMA FirstToWin ==
  ASSUME NEW cfg \in Configs, NEW A, NEW B, A \cap B = {}, NEW k \in 1 .. cfg.bestOf,
         \A j \in 1 .. k - 1 : Count(A, j) # ToWin(cfg) /\ Count(B, j) # ToWin(cfg)
  PROVE  /\ \A j \in 0 .. k - 1 : Count(A, j) < ToWin(cfg) /\ Count(B, j) < ToWin(cfg)
         /\ Count(A, k) \in 0 .. ToWin(cfg) /\ Count(B, k) \in 0 .. ToWin(cfg)
         /\ Count(A, k) = ToWin(cfg) => k \in A /\ Count(B, k) < ToWin(cfg)
         /\ Count(B, k) = ToWin(cfg) => k \in B /\ Count(A, k) < ToWin(cfg)
<1>1. cfg.bestOf \in {1, 3} /\ ToWin(cfg) = IF cfg.bestOf = 1 THEN 1 ELSE 2
  BY DEF Configs, ToWin
<1>2. \A Q \in {A, B} :
         /\ Count(Q, 0) = 0
         /\ Count(Q, 1) = IF 1 \in Q THEN 1 ELSE 0
         /\ Count(Q, 2) = (IF 1 \in Q THEN 1 ELSE 0) + (IF 2 \in Q THEN 1 ELSE 0)
         /\ Count(Q, 3) = (IF 1 \in Q THEN 1 ELSE 0) + (IF 2 \in Q THEN 1 ELSE 0)
                                                     + (IF 3 \in Q THEN 1 ELSE 0)
  BY WinsUpToThree DEF Count
<1>3. CASE k = 1
  BY <1>1, <1>2, <1>3
<1>4. CASE k = 2
  <2>1. cfg.bestOf = 3
    BY <1>1, <1>4
  <2>2. Count(A, 1) # 2 /\ Count(B, 1) # 2
    BY <1>1, <1>4, <2>1
  <2> QED
    BY <1>1, <1>2, <1>4, <2>1, <2>2
<1>5. CASE k = 3
  <2>1. cfg.bestOf = 3
    BY <1>1, <1>5
  <2>2. Count(A, 2) # 2 /\ Count(B, 2) # 2
    BY <1>1, <1>5, <2>1
  <2> QED
    BY <1>1, <1>2, <1>5, <2>1, <2>2
<1> QED
  BY <1>1, <1>3, <1>4, <1>5

(* Set i is the deciding match tiebreak. *)
Decides(cfg, i) == cfg.deciding = "match_tiebreak" /\ i = cfg.bestOf

(* The sets that side s won. *)
SetsOf(cfg, o, s) ==
    {i \in DOMAIN o : Finished(o[i], Decides(cfg, i)) /\ Side(<<o[i].p1, o[i].p2>>) = s}

(* Nobody has won the match after k sets. *)
Open(cfg, o, k) == \A s \in 1 .. 2 : Count(SetsOf(cfg, o, s), k) < ToWin(cfg)

(* The sets in order are a match played to its end and no further. *)
PlayedOut(cfg, o, n) ==
    /\ \A k \in 1 .. n : Finished(o[k], Decides(cfg, k)) /\ Open(cfg, o, k - 1)
    /\ ~Open(cfg, o, n)

(* JudgeSets accepts a normal completion exactly when its sets have been   *)
(* played out, for the side that won the last of them, and an incomplete   *)
(* one only while the match is open.                                       *)
LEMMA Judgement ==
  ASSUME NEW cfg \in Configs, NEW o \in Seq(SetScores), Len(o) \in 1 .. cfg.bestOf,
         NEW c \in {"incomplete", "normal", "retired", "cancelled"}, NEW slot
  PROVE  /\ \/ JudgeSets(cfg, o, c, slot) = Refused
            \/ JudgeSets(cfg, o, c, slot) =
                  Accepted(IF c = "normal" THEN Side(<<o[Len(o)].p1, o[Len(o)].p2>>) ELSE slot, c)
         /\ c = "normal" => (JudgeSets(cfg, o, c, slot) # Refused <=> PlayedOut(cfg, o, Len(o)))
         /\ c = "incomplete" /\ JudgeSets(cfg, o, c, slot) # Refused => Open(cfg, o, Len(o))
<1> DEFINE n == Len(o)
           verdicts == [i \in 1 .. n |->
               validateSet(o[i], cfg.deciding = "match_tiebreak" /\ cfg.bestOf > 1 /\ i = cfg.bestOf,
                           i = n /\ c # "normal")]
           wins(side, k) == Cardinality({i \in 1 .. k : verdicts[i].winner = side})
           toWin   == (cfg.bestOf \div 2) + 1
           decided == {k \in 1 .. n : \E side \in {1, 2} : wins(side, k) = toWin}
           after   == IF decided = {} THEN 0 ELSE CHOOSE k \in decided : \A j \in decided : k <= j
           played(i) == verdicts[i].complete \/ o[i].p1 > 0 \/ o[i].p2 > 0
           Won1    == SetsOf(cfg, o, 1)
           Won2    == SetsOf(cfg, o, 2)
           fin(i)  == Finished(o[i], Decides(cfg, i))
           side(i) == Side(<<o[i].p1, o[i].p2>>)
           j       == JudgeSets(cfg, o, c, slot)
<1>1. n \in Nat /\ DOMAIN o = 1 .. n /\ n \in 1 .. cfg.bestOf /\ \A i \in 1 .. n : o[i] \in SetScores
  BY LenProperties, ElementOfSeq
<1>2. j = IF \/ \E i \in 1 .. n : ~verdicts[i].ok
             \/ after > 0 /\ \E i \in (after + 1) .. n : played(i)
          THEN Refused
          ELSE IF c = "normal"
          THEN IF after = 0 THEN Refused
               ELSE Accepted(IF wins(2, n) > wins(1, n) THEN 2 ELSE 1, c)
          ELSE IF after > 0 /\ (after < n \/ c = "incomplete") THEN Refused
          ELSE Accepted(slot, c)
  BY DEF JudgeSets
<1> HIDE DEF j, n
<1>3. \A i \in 1 .. n :
         /\ verdicts[i] \in [ok : BOOLEAN, winner : 0 .. 2, complete : BOOLEAN]
         /\ verdicts[i].complete <=> fin(i)
         /\ fin(i) => verdicts[i].ok /\ verdicts[i].winner = side(i)
         /\ ~fin(i) => verdicts[i].winner = 0
         /\ c = "normal" /\ verdicts[i].ok => fin(i)
  <2> SUFFICES ASSUME NEW i \in 1 .. n
               PROVE  /\ verdicts[i] \in [ok : BOOLEAN, winner : 0 .. 2, complete : BOOLEAN]
                      /\ verdicts[i].complete <=> fin(i)
                      /\ fin(i) => verdicts[i].ok /\ verdicts[i].winner = side(i)
                      /\ ~fin(i) => verdicts[i].winner = 0
                      /\ c = "normal" /\ verdicts[i].ok => fin(i)
    BY Zenon
  <2>1. (cfg.deciding = "match_tiebreak" /\ cfg.bestOf > 1 /\ i = cfg.bestOf) = Decides(cfg, i)
    BY DEF Configs, Decides
  <2>2. PICK a \in BOOLEAN : a = (i = n /\ c # "normal")
    OBVIOUS
  <2>3. verdicts[i] = validateSet(o[i], Decides(cfg, i), a)
    BY <2>1, <2>2
  <2>4. c = "normal" => ~a
    BY <2>2
  <2>5. o[i] \in SetScores /\ Decides(cfg, i) \in BOOLEAN
    BY <1>1 DEF Decides
  <2> HIDE DEF verdicts
  <2> QED
    BY <2>3, <2>4, <2>5, SetVerdict
<1>4. \A i \in 1 .. n : side(i) \in {1, 2}
  BY DEF Side
<1>5. ToWin(cfg) = toWin /\ toWin \in 1 .. 2 /\ n \in 1 .. 3
  BY <1>1 DEF Configs, ToWin
<1>6. \A s \in {1, 2}, k \in 0 .. n : wins(s, k) = Count(SetsOf(cfg, o, s), k)
  <2> SUFFICES ASSUME NEW s \in {1, 2}, NEW k \in 0 .. n
               PROVE  {i \in 1 .. k : verdicts[i].winner = s} = {i \in 1 .. k : i \in SetsOf(cfg, o, s)}
    BY DEF Count
  <2>1. \A i \in 1 .. k : verdicts[i].winner = s <=> i \in SetsOf(cfg, o, s)
    <3> HIDE DEF verdicts
    <3> SUFFICES ASSUME NEW i \in 1 .. k PROVE verdicts[i].winner = s <=> i \in SetsOf(cfg, o, s)
      OBVIOUS
    <3>1. i \in 1 .. n /\ s # 0
      BY <1>5
    <3>2. i \in SetsOf(cfg, o, s) <=> fin(i) /\ side(i) = s
      BY <1>1, <3>1 DEF SetsOf
    <3> QED
      BY <1>3, <3>1, <3>2
  <2> QED
    BY <2>1
<1> HIDE DEF verdicts, wins, toWin
<1>7. Won1 \cap Won2 = {}
  BY DEF SetsOf
<1>8. /\ after \in 0 .. n
      /\ after = 0 => \A k \in 1 .. n, s \in {1, 2} : wins(s, k) # toWin
      /\ after > 0 => /\ \E s \in {1, 2} : wins(s, after) = toWin
                      /\ \A k \in 1 .. after - 1, s \in {1, 2} : wins(s, k) # toWin
  <2>1. CASE decided = {}
    BY <1>5, <2>1
  <2>2. CASE decided # {}
    <3>1. decided \subseteq 1 .. n
      OBVIOUS
    <3>2. \E k \in decided : \A m \in decided : k <= m
      <4>1. CASE 1 \in decided
        BY <3>1, <4>1
      <4>2. CASE 1 \notin decided /\ 2 \in decided
        BY <1>5, <3>1, <4>2
      <4>3. CASE 1 \notin decided /\ 2 \notin decided
        BY <1>5, <2>2, <3>1, <4>3
      <4> QED
        BY <4>1, <4>2, <4>3
    <3>3. after \in decided /\ \A m \in decided : after <= m
      <4> HIDE DEF decided
      <4> QED
        BY <2>2, <3>2
    <3> HIDE DEF after
    <3> QED
      BY <1>5, <3>1, <3>3
  <2> QED
    BY <2>1, <2>2
<1> HIDE DEF after, decided
<1>9. /\ \A s \in {1, 2}, k \in 0 .. n : wins(s, k) = toWin <=> Count(SetsOf(cfg, o, s), k) = ToWin(cfg)
      /\ \A k \in 0 .. n : Open(cfg, o, k) <=> Count(Won1, k) < ToWin(cfg) /\ Count(Won2, k) < ToWin(cfg)
      /\ \A k \in Won1 : fin(k) /\ side(k) = 1
      /\ \A k \in Won2 : fin(k) /\ side(k) = 2
  <2>1. \A s \in {1, 2}, k \in 0 .. n : wins(s, k) = toWin <=> Count(SetsOf(cfg, o, s), k) = ToWin(cfg)
    BY <1>5, <1>6
  <2>2. 1 .. 2 = {1, 2}
    OBVIOUS
  <2>3. \A k \in 0 .. n : Open(cfg, o, k) <=> Count(Won1, k) < ToWin(cfg) /\ Count(Won2, k) < ToWin(cfg)
    BY <2>2 DEF Open
  <2> QED
    BY <2>1, <2>3 DEF SetsOf
<1>10. Accepted(slot, c) # Refused /\ \A w : Accepted(w, c) # Refused
  <2>1. ~Refused.ok /\ \A w : Accepted(w, c).ok
    BY Zenon DEF Accepted, Refused
  <2> QED
    BY <2>1
<1> HIDE DEF fin, side, Won1, Won2
<1>11. CASE after = 0
  <2>1. \A k \in 1 .. n - 1 : Count(Won1, k) # ToWin(cfg) /\ Count(Won2, k) # ToWin(cfg)
    BY <1>1, <1>8, <1>9, <1>11 DEF Won1, Won2
  <2>2. /\ Count(Won1, n) \in 0 .. ToWin(cfg) /\ Count(Won2, n) \in 0 .. ToWin(cfg)
    BY <1>1, <1>7, <2>1, FirstToWin
  <2>3. Count(Won1, n) # ToWin(cfg) /\ Count(Won2, n) # ToWin(cfg)
    BY <1>1, <1>8, <1>9, <1>11 DEF Won1, Won2
  <2>4. Open(cfg, o, n)
    BY <1>1, <1>5, <1>9, <2>2, <2>3
  <2>5. ~PlayedOut(cfg, o, n)
    BY <2>4 DEF PlayedOut
  <2>6. j = Refused \/ (c # "normal" /\ j = Accepted(slot, c))
    BY <1>2, <1>11
  <2> QED
    BY <2>4, <2>5, <2>6 DEF j, n
<1>12. CASE after > 0
  <2>1. after \in 1 .. n /\ after \in 1 .. cfg.bestOf
    <3>1. cfg.bestOf \in {1, 3}
      BY DEF Configs
    <3> QED
      BY <1>1, <1>8, <1>12, <3>1
  <2>2. \A k \in 1 .. after - 1 : Count(Won1, k) # ToWin(cfg) /\ Count(Won2, k) # ToWin(cfg)
    BY <1>1, <1>8, <1>9, <1>12, <2>1 DEF Won1, Won2
  <2>3. /\ \A k \in 0 .. after - 1 : Count(Won1, k) < ToWin(cfg) /\ Count(Won2, k) < ToWin(cfg)
        /\ Count(Won1, after) \in 0 .. ToWin(cfg) /\ Count(Won2, after) \in 0 .. ToWin(cfg)
        /\ Count(Won1, after) = ToWin(cfg) => after \in Won1 /\ Count(Won2, after) < ToWin(cfg)
        /\ Count(Won2, after) = ToWin(cfg) => after \in Won2 /\ Count(Won1, after) < ToWin(cfg)
    BY <1>7, <2>1, <2>2, FirstToWin
  <2>4. Count(Won1, after) = ToWin(cfg) \/ Count(Won2, after) = ToWin(cfg)
    BY <1>1, <1>8, <1>9, <1>12, <2>1 DEF Won1, Won2
  <2>5. \A k \in 1 .. after : Open(cfg, o, k - 1)
    BY <1>1, <1>9, <2>1, <2>3
  <2>6. ~Open(cfg, o, after)
    BY <1>1, <1>5, <1>9, <2>1, <2>3, <2>4
  <2>7. (IF wins(2, after) > wins(1, after) THEN 2 ELSE 1) = side(after)
    <3>1. wins(1, after) = Count(Won1, after) /\ wins(2, after) = Count(Won2, after)
      BY <1>1, <1>6, <2>1 DEF Won1, Won2
    <3> QED
      BY <1>5, <1>9, <2>3, <2>4, <3>1
  <2>8. CASE after < n
    <3>1. ~PlayedOut(cfg, o, n)
      <4>1. after + 1 \in 1 .. n /\ (after + 1) - 1 = after
        BY <1>1, <2>1, <2>8
      <4> QED
        BY <2>6, <4>1 DEF PlayedOut
    <3>2. c = "normal" => j = Refused
      <4>1. after + 1 \in 1 .. n /\ after + 1 \in (after + 1) .. n
        BY <1>1, <2>1, <2>8
      <4>2. c = "normal" /\ verdicts[after + 1].ok => played(after + 1)
        BY <1>3, <4>1
      <4> HIDE DEF played
      <4> QED
        BY <1>2, <1>12, <4>1, <4>2
    <3>3. c # "normal" => j = Refused
      BY <1>2, <1>12, <2>8
    <3> QED
      BY <3>1, <3>2, <3>3 DEF j, n
  <2>9. CASE after = n
    <3>1. (after + 1) .. n = {}
      BY <1>1, <2>9
    <3>2. c = "incomplete" => j = Refused
      BY <1>2, <1>12
    <3>3. c # "normal" => j = Refused \/ j = Accepted(slot, c)
      BY <1>2
    <3>4. c = "normal" =>
             j = IF \E i \in 1 .. n : ~verdicts[i].ok THEN Refused ELSE Accepted(side(n), c)
      BY <1>2, <1>12, <2>7, <2>9, <3>1
    <3>5. PlayedOut(cfg, o, n) <=> \A i \in 1 .. n : fin(i)
      BY <2>5, <2>6, <2>9 DEF PlayedOut, fin
    <3>6. c = "normal" => \A i \in 1 .. n : fin(i) <=> verdicts[i].ok
      BY <1>3
    <3> QED
      BY <1>10, <3>2, <3>3, <3>4, <3>5, <3>6 DEF j, n, side
  <2> QED
    BY <1>1, <2>1, <2>8, <2>9
<1> QED
  BY <1>1, <1>8, <1>11, <1>12

(* Short of a normal completion the side that is named wins. *)
LEMMA NamedSide ==
  ASSUME NEW cfg, NEW o, NEW c, c # "normal", NEW slot
  PROVE  JudgeSets(cfg, o, c, slot) \in {Refused, Accepted(slot, c)}
<1> DEFINE n == Len(o)
           verdicts == [i \in 1 .. n |->
               validateSet(o[i], cfg.deciding = "match_tiebreak" /\ cfg.bestOf > 1 /\ i = cfg.bestOf,
                           i = n /\ c # "normal")]
           wins(side, k) == Cardinality({i \in 1 .. k : verdicts[i].winner = side})
           toWin   == (cfg.bestOf \div 2) + 1
           decided == {k \in 1 .. n : \E side \in {1, 2} : wins(side, k) = toWin}
           after   == IF decided = {} THEN 0 ELSE CHOOSE k \in decided : \A j \in decided : k <= j
           played(i) == verdicts[i].complete \/ o[i].p1 > 0 \/ o[i].p2 > 0
           bad     == \/ \E i \in 1 .. n : ~verdicts[i].ok
                      \/ after > 0 /\ \E i \in (after + 1) .. n : played(i)
           last    == IF wins(2, n) > wins(1, n) THEN 2 ELSE 1
<1>1. JudgeSets(cfg, o, c, slot) =
         IF bad THEN Refused
         ELSE IF c = "normal"
         THEN IF after = 0 THEN Refused ELSE Accepted(last, c)
         ELSE IF after > 0 /\ (after < n \/ c = "incomplete") THEN Refused
         ELSE Accepted(slot, c)
  BY DEF JudgeSets
<1> HIDE DEF n, after, bad, last
<1> QED
  BY <1>1

(* What follows an accepted submission: its winner and status. *)
LEMMA Outcomes ==
  /\ ~Refused.ok
  /\ \A w : /\ Accepted(w, "normal").ok /\ Accepted(w, "normal").winner = w
            /\ Accepted(w, "normal").status = "completed"
  /\ \A w : /\ Accepted(w, "incomplete").ok /\ Accepted(w, "incomplete").winner = w
            /\ Accepted(w, "incomplete").status = "live"
  /\ \A c \in {"walkover", "retired", "cancelled"} : \A w :
        Accepted(w, c).ok /\ Accepted(w, c).winner = w /\ Accepted(w, c).status = c
<1>1. ~Refused.ok
  BY Zenon DEF Refused
<1>2. StatusOf("normal") = "completed" /\ StatusOf("incomplete") = "live"
  BY DEF StatusOf
<1>3. \A c \in {"walkover", "retired", "cancelled"} : StatusOf(c) = c
  BY DEF StatusOf
<1>4. \A w, c : Accepted(w, c).ok /\ Accepted(w, c).winner = w /\ Accepted(w, c).status = StatusOf(c)
  BY DEF Accepted
<1> QED
  BY <1>1, <1>2, <1>3, <1>4

(* ValidateScore judges a submission as its sets can have been played. *)
LEMMA Validation ==
  ASSUME NEW cfg \in Configs, NEW sets \in Seq(SetScores), NEW c \in Completions, NEW slot \in 0 .. 2
  PROVE  ScoreRight(cfg, sets, c, slot, ValidateScore(cfg, sets, c, slot))
<1> DEFINE n == Len(sets)
           set(k) == sets[CHOOSE i \in 1 .. n : sets[i].no = k]
           numbered == {sets[i].no : i \in 1 .. n} = 1 .. n
           decider(k) == cfg.deciding = "match_tiebreak" /\ k = cfg.bestOf
           side(k) == Side(<<set(k).p1, set(k).p2>>)
           wins(s, k) == Cardinality({i \in 1 .. k : Finished(set(i), decider(i)) /\ side(i) = s})
           toWin == (cfg.bestOf + 1) \div 2
           open(k) == \A s \in 1 .. 2 : wins(s, k) < toWin
           played == /\ n \in 1 .. cfg.bestOf /\ numbered
                     /\ \A k \in 1 .. n : Finished(set(k), decider(k)) /\ open(k - 1)
                     /\ ~open(n)
           o == [k \in 1 .. n |-> sets[CHOOSE i \in 1 .. n : sets[i].no = k]]
           v == ValidateScore(cfg, sets, c, slot)
           explicit == c \in {"walkover", "retired"}
<1>1. n \in Nat /\ \A i \in 1 .. n : sets[i] \in SetScores
  BY LenProperties, ElementOfSeq
<1>2. v = IF \/ c \notin Completions
             \/ explicit /\ slot \notin {1, 2}
             \/ ~explicit /\ slot # 0
          THEN Refused
          ELSE IF c = "walkover"
          THEN IF n > 0 THEN Refused ELSE Accepted(slot, c)
          ELSE IF \/ n = 0 /\ c # "cancelled"
                  \/ ~numbered
                  \/ n > cfg.bestOf
          THEN Refused
          ELSE JudgeSets(cfg, o, c, slot)
  BY DEF ValidateScore
<1>3. SUFFICES /\ c = "normal" => (v.ok <=> played /\ slot = 0) /\ (v.ok => v.winner = side(n))
               /\ c = "incomplete" /\ v.ok => numbered /\ open(n)
               /\ v.ok => (v.winner # 0 <=> v.status \in {"completed", "walkover", "retired"})
  BY DEF ScoreRight
<1> HIDE DEF v
<1>4. /\ \A k \in 1 .. n : o[k] = set(k)
      /\ DOMAIN o = 1 .. n
  OBVIOUS
<1>5. numbered => o \in Seq(SetScores) /\ Len(o) = n
  <2> SUFFICES ASSUME numbered PROVE o \in Seq(SetScores) /\ Len(o) = n
    OBVIOUS
  <2>1. \A k \in 1 .. n : set(k) \in SetScores
    <3> SUFFICES ASSUME NEW k \in 1 .. n PROVE set(k) \in SetScores
      OBVIOUS
    <3>1. \E i \in 1 .. n : sets[i].no = k
      OBVIOUS
    <3>2. (CHOOSE i \in 1 .. n : sets[i].no = k) \in 1 .. n
      BY <3>1
    <3> QED
      BY <1>1, <3>2
  <2> HIDE DEF set
  <2>2. o \in [1 .. n -> SetScores]
    BY <1>4, <2>1
  <2> HIDE DEF o, n
  <2> QED
    BY <1>1, <2>2, Numbered
<1>6. \A s \in 1 .. 2, k \in 0 .. n : wins(s, k) = Count(SetsOf(cfg, o, s), k)
  <2> HIDE DEF o, set, n
  <2> SUFFICES ASSUME NEW s \in 1 .. 2, NEW k \in 0 .. n
               PROVE  {i \in 1 .. k : Finished(set(i), decider(i)) /\ side(i) = s} =
                         {i \in 1 .. k : i \in SetsOf(cfg, o, s)}
    BY DEF Count
  <2>1. \A i \in 1 .. k : i \in 1 .. n
    BY <1>1
  <2>2. \A i \in 1 .. n : i \in SetsOf(cfg, o, s) <=> Finished(set(i), decider(i)) /\ side(i) = s
    BY <1>4 DEF SetsOf, Decides
  <2> QED
    BY <2>1, <2>2
<1>7. \A k \in 0 .. n : open(k) <=> Open(cfg, o, k)
  <2> HIDE DEF o, n, wins
  <2> QED
    BY <1>6 DEF Open, ToWin
<1>8. played <=> n \in 1 .. cfg.bestOf /\ numbered /\ PlayedOut(cfg, o, n)
  <2> HIDE DEF o, n, open, set, numbered
  <2>1. n \in 0 .. n /\ \A k \in 1 .. n : k - 1 \in 0 .. n
    BY <1>1
  <2> QED
    BY <1>4, <1>7, <2>1 DEF PlayedOut, Decides
<1>9. side(n) \in 1 .. 2 /\ side(n) # 0
  BY DEF Side
<1> HIDE DEF open, numbered, o
<1>10. n \in Nat /\ cfg.bestOf \in {1, 3}
  BY <1>1 DEF Configs
<1>11. CASE c = "normal"
  <2>1. ~(n \in 1 .. cfg.bestOf /\ numbered /\ slot = 0) => v = Refused
    BY <1>2, <1>10, <1>11
  <2>2. n \in 1 .. cfg.bestOf /\ numbered /\ slot = 0 => v = JudgeSets(cfg, o, c, slot)
    BY <1>2, <1>10, <1>11 DEF Completions
  <2>3. n \in 1 .. cfg.bestOf /\ numbered =>
           /\ JudgeSets(cfg, o, c, slot) \in {Refused, Accepted(side(n), c)}
           /\ JudgeSets(cfg, o, c, slot) # Refused <=> PlayedOut(cfg, o, n)
    <3> SUFFICES ASSUME n \in 1 .. cfg.bestOf, numbered
                 PROVE  /\ JudgeSets(cfg, o, c, slot) \in {Refused, Accepted(side(n), c)}
                        /\ JudgeSets(cfg, o, c, slot) # Refused <=> PlayedOut(cfg, o, n)
      OBVIOUS
    <3>1. o \in Seq(SetScores) /\ Len(o) = n /\ o[n] = set(n)
      BY <1>4, <1>5
    <3> HIDE DEF set, n
    <3>2. Len(o) \in 1 .. cfg.bestOf
      BY <3>1
    <3>3. \/ JudgeSets(cfg, o, c, slot) = Refused
          \/ JudgeSets(cfg, o, c, slot) = Accepted(Side(<<o[n].p1, o[n].p2>>), c)
      BY <1>11, <3>1, <3>2, Judgement
    <3>4. JudgeSets(cfg, o, c, slot) # Refused <=> PlayedOut(cfg, o, n)
      BY <1>11, <3>1, <3>2, Judgement
    <3> QED
      BY <3>1, <3>3, <3>4
  <2> HIDE DEF side, n, played
  <2>4. /\ v.ok <=> played /\ slot = 0
        /\ v.ok => v.winner = side(n) /\ v.status = "completed"
    <3>1. CASE v = Refused
      BY <1>8, <1>11, <2>2, <2>3, <3>1, Outcomes
    <3>2. CASE v # Refused
      <4>1. n \in 1 .. cfg.bestOf /\ numbered /\ slot = 0 /\ v = JudgeSets(cfg, o, c, slot)
        BY <2>1, <2>2, <3>2
      <4>2. v = Accepted(side(n), "normal") /\ PlayedOut(cfg, o, n)
        BY <1>11, <2>3, <3>2, <4>1
      <4> QED
        BY <1>8, <4>1, <4>2, Outcomes
    <3> QED
      BY <3>1, <3>2
  <2> QED
    BY <1>9, <1>11, <2>4
<1>12. CASE c = "incomplete"
  <2> HIDE DEF n
  <2>1. v # Refused => slot = 0 /\ n \in 1 .. cfg.bestOf /\ numbered /\ v = JudgeSets(cfg, o, c, slot)
    BY <1>2, <1>10, <1>12
  <2>2. v # Refused => v = Accepted(slot, c)
    BY <1>12, <2>1, NamedSide
  <2>3. v # Refused => open(n)
    <3> SUFFICES ASSUME v # Refused PROVE open(n)
      OBVIOUS
    <3>1. o \in Seq(SetScores) /\ Len(o) = n /\ Len(o) \in 1 .. cfg.bestOf
      BY <1>5, <2>1
    <3>2. Open(cfg, o, n)
      BY <1>12, <2>1, <3>1, Judgement
    <3> QED
      BY <1>7, <1>10, <3>2
  <2>4. v.ok => v # Refused
    BY Outcomes
  <2>5. v # Refused => v.winner = 0 /\ v.status = "live"
    BY <1>12, <2>1, <2>2, Outcomes
  <2> QED
    BY <1>12, <2>1, <2>3, <2>4, <2>5
<1>13. CASE c \in {"walkover", "retired"}
  <2>1. v # Refused => slot \in {1, 2} /\ v = Accepted(slot, c)
    <3>1. v # Refused => slot \in {1, 2}
      BY <1>2, <1>13
    <3>2. v # Refused => v = Accepted(slot, c) \/ v = JudgeSets(cfg, o, c, slot)
      BY <1>2, <1>13
    <3> QED
      BY <1>13, <3>1, <3>2, NamedSide
  <2>2. v.ok => v # Refused
    BY Outcomes
  <2>3. v # Refused => v.winner = slot /\ slot # 0 /\ v.status = c
    BY <1>13, <2>1, Outcomes
  <2> QED
    BY <1>13, <2>2, <2>3
<1>14. CASE c = "cancelled"
  <2>1. v # Refused => slot = 0 /\ v = JudgeSets(cfg, o, c, slot)
    BY <1>2, <1>14
  <2>2. v # Refused => v = Accepted(slot, c)
    BY <1>14, <2>1, NamedSide
  <2>3. v.ok => v # Refused
    BY Outcomes
  <2>4. v # Refused => v.winner = 0 /\ v.status = "cancelled"
    BY <1>14, <2>1, <2>2, Outcomes
  <2> QED
    BY <1>14, <2>3, <2>4
<1> QED
  BY <1>11, <1>12, <1>13, <1>14 DEF Completions

----------------------------------------------------------------------------
(* The specification *)

(* A submission on record and the verdict it got. *)
Judged ==
    call.op = "score" =>
        /\ call.cfg \in Configs /\ call.sets \in Seq(SetScores)
        /\ call.completion \in Completions /\ call.slot \in 0 .. 2
        /\ verdict = ValidateScore(call.cfg, call.sets, call.completion, call.slot)

(* A score is only ever answered by its validation. *)
LEMMA JudgedAlways == Spec => []Judged
<1>1. Init => Judged
  BY DEF Init, NoCall, Judged
<1>2. Judged /\ [Next]_formatVars => Judged'
  <2> SUFFICES ASSUME Judged, [Next]_formatVars PROVE Judged'
    OBVIOUS
  <2> USE DEF Judged, Draw, Answer
  <2>1. CASE Seeded
    BY <2>1 DEF Seeded
  <2>2. CASE SeededGroups
    BY <2>2 DEF SeededGroups
  <2>3. CASE RoundRobin
    BY <2>3 DEF RoundRobin
  <2>4. CASE Build
    BY <2>4 DEF Build
  <2>5. CASE SetGroups
    BY <2>5 DEF SetGroups
  <2>6. CASE SubmitScore
    <3>1. PICK d \in Documents, s \in Scores, c \in Completions, w \in 0 .. 2 :
             Answer([op |-> "score", cfg |-> ParseScoringConfig(d), sets |-> s, completion |-> c,
                     slot |-> w], <<>>, ValidateScore(ParseScoringConfig(d), s, c, w))
      BY <2>6 DEF SubmitScore
    <3>2. ParseScoringConfig(d) \in Configs /\ s \in Seq(SetScores)
      BY ConfigsRead, ScoresAssumption
    <3> QED
      BY <3>1, <3>2
  <2>7. CASE Return
    BY <2>7 DEF Return, NoCall
  <2>8. CASE UNCHANGED formatVars
    BY <2>8 DEF formatVars
  <2> QED
    BY <2>1, <2>2, <2>3, <2>4, <2>5, <2>6, <2>7, <2>8 DEF Next, Call
<1> QED
  BY <1>1, <1>2, PTL DEF Spec

(* Whatever the documents and the sets that are sent, a score is accepted  *)
(* as completed exactly when its sets can have been won point by point and *)
(* game by game, in order and up to the one that decides the match, its    *)
(* winner won that one, and an incomplete score leaves the match open      *)
(* (Service.SubmitScore, ValidateScore).                                   *)
THEOREM VerdictsFollowPlay == Spec => []ScoreMatchesPlay
<1>1. Judged => ScoreMatchesPlay
  BY Validation DEF Judged, ScoreMatchesPlay
<1> QED
  BY <1>1, JudgedAlways, PTL
=============================================================================
