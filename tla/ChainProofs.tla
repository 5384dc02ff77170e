---------------------------- MODULE ChainProofs ----------------------------
(* Lemmas about one direction of a tunnel, taken as a chain of six places   *)
(* that hand numbered pieces on, the last place first:                      *)
(*                                                                          *)
(*     p[1] <- p[2] <- p[3] <- p[4] <- p[5] <- p[6] <- the sender           *)
(*                                                                          *)
(* p[1] is what the receiver has got, p[2], p[4] and p[6] are the queues of *)
(* the three connections, p[3] and p[5] what the two calls of io.Copy hold. *)
EXTENDS Integers, Sequences, TLAPS

(* The pieces of q are those that follow the first n.                       *)
Numbered(q, t, n) == \A i \in 1 .. Len(q) : q[i] = <<t, n + i>>

Lens(p) == [i \in 1 .. 6 |-> Len(p[i])]

(* n[i] is how many pieces are in front of place i.                         *)
Offsets(len, n) ==
  /\ n \in [1 .. 7 -> Nat]
  /\ n[1] = 0
  /\ \A i \in 1 .. 6 : n[i + 1] = n[i] + len[i]

(* The first w places hold the pieces 1, 2, ... without a gap, and no more  *)
(* than the s pieces that were sent; if a is "all", none is lost.           *)
Linked(t, p, n, w, s, a) ==
  /\ Offsets(Lens(p), n)
  /\ \A i \in 1 .. w : Numbered(p[i], t, n[i])
  /\ n[w + 1] <= s
  /\ a = "all" => n[7] = s
Chain(t, p, w, s, a) == \E n : Linked(t, p, n, w, s, a)

Sized(p) == \A i \in 1 .. 6 : Len(p[i]) \in Nat
SameLens(p, r) == \A i \in 1 .. 6 : Len(r[i]) = Len(p[i])
SameUpTo(p, r, v) == \A i \in 1 .. 6 : i < v => r[i] = p[i]
SameBut(p, r, i) == \A j \in 1 .. 6 : j # i /\ j # i + 1 => r[j] = p[j]
Prefix(q, r) == Len(r) <= Len(q) /\ \A i \in 1 .. Len(r) : r[i] = q[i]
Added(q, r, v) ==
  /\ Len(r) = Len(q) + 1
  /\ \A i \in 1 .. Len(q) : r[i] = q[i]
  /\ r[Len(q) + 1] = v
Taken(q, r) ==
  /\ Len(q) > 0 /\ Len(r) = Len(q) - 1
  /\ \A i \in 1 .. Len(q) - 1 : r[i] = q[i + 1]

LEMMA LensIs ==
  ASSUME NEW p, Sized(p)
  PROVE  /\ Lens(p) \in [1 .. 6 -> Nat]
         /\ \A i \in 1 .. 6 : Lens(p)[i] = Len(p[i])
  BY DEF Sized, Lens

LEMMA OffsetsExist ==
  ASSUME NEW len \in [1 .. 6 -> Nat]
  PROVE  \E n : Offsets(len, n)
<1> DEFINE n == [i \in 1 .. 7 |->
                   (IF i > 1 THEN len[1] ELSE 0) + (IF i > 2 THEN len[2] ELSE 0)
                   + (IF i > 3 THEN len[3] ELSE 0) + (IF i > 4 THEN len[4] ELSE 0)
                   + (IF i > 5 THEN len[5] ELSE 0) + (IF i > 6 THEN len[6] ELSE 0)]
<1>1. n \in [1 .. 7 -> Nat] /\ n[1] = 0
  OBVIOUS
<1>2. ASSUME NEW i \in 1 .. 6 PROVE n[i + 1] = n[i] + len[i]
  OBVIOUS
<1> HIDE DEF n
<1> QED
  BY <1>1, <1>2 DEF Offsets

(* Places of the same lengths have as much in front of them.                *)
LEMMA OffsetsSame ==
  ASSUME NEW k \in [1 .. 6 -> Nat], NEW l \in [1 .. 6 -> Nat],
         NEW n, Offsets(k, n), NEW m, Offsets(l, m), NEW w \in 0 .. 6,
         \A i \in 1 .. w : l[i] = k[i]
  PROVE  \A i \in 1 .. w + 1 : m[i] = n[i]
<1>1. n \in [1 .. 7 -> Nat] /\ m \in [1 .. 7 -> Nat] /\ m[1] = n[1]
  BY DEF Offsets
<1>2. \A i \in 1 .. 6 : i <= w /\ m[i] = n[i] => m[i + 1] = n[i + 1]
  BY DEF Offsets
<1>3. /\ 1 <= w => m[2] = n[2]
      /\ 2 <= w => m[3] = n[3]
      /\ 3 <= w => m[4] = n[4]
      /\ 4 <= w => m[5] = n[5]
      /\ 5 <= w => m[6] = n[6]
      /\ 6 <= w => m[7] = n[7]
  BY <1>1, <1>2
<1> SUFFICES ASSUME NEW i \in 1 .. w + 1 PROVE m[i] = n[i]
  OBVIOUS
<1>4. i = 1 \/ i = 2 \/ i = 3 \/ i = 4 \/ i = 5 \/ i = 6 \/ i = 7
  OBVIOUS
<1> QED
  BY <1>1, <1>3, <1>4

(* A piece handed on from place i + 1 to place i.                           *)
LEMMA OffsetsMove ==
  ASSUME NEW k \in [1 .. 6 -> Nat], NEW l \in [1 .. 6 -> Nat], NEW n, Offsets(k, n),
         NEW i \in 1 .. 5, l[i] = k[i] + 1, l[i + 1] = k[i + 1] - 1,
         \A j \in 1 .. 6 : j # i /\ j # i + 1 => l[j] = k[j]
  PROVE  Offsets(l, [n EXCEPT ![i + 1] = n[i + 1] + 1])
<1> DEFINE m == [n EXCEPT ![i + 1] = n[i + 1] + 1]
<1>1. n \in [1 .. 7 -> Nat] /\ n[1] = 0
  BY DEF Offsets
<1>2. /\ m \in [1 .. 7 -> Nat] /\ m[1] = 0 /\ m[i + 1] = n[i + 1] + 1
      /\ \A j \in 1 .. 7 : j # i + 1 => m[j] = n[j]
  BY <1>1
<1> HIDE DEF m
<1>3. ASSUME NEW j \in 1 .. 6 PROVE m[j + 1] = m[j] + l[j]
  <2>1. n[j + 1] = n[j] + k[j]
    BY DEF Offsets
  <2>2. CASE j = i
    BY <1>1, <1>2, <2>1, <2>2
  <2>3. CASE j = i + 1
    BY <1>1, <1>2, <2>1, <2>3
  <2>4. CASE j # i /\ j # i + 1
    BY <1>1, <1>2, <2>1, <2>4
  <2> QED
    BY <2>2, <2>3, <2>4
<1> QED
  BY <1>2, <1>3 DEF Offsets, m

LEMMA MoveChain ==
  ASSUME NEW t, NEW p, Sized(p), NEW r, Sized(r), NEW w \in 2 .. 6, NEW s \in Nat,
         NEW a, Chain(t, p, w, s, a), NEW i \in 1 .. 5, i # w,
         Taken(p[i + 1], r[i + 1]), Added(p[i], r[i], p[i + 1][1]),
         SameBut(p, r, i)
  PROVE  Chain(t, r, w, s, a)
<1>1. PICK n : Linked(t, p, n, w, s, a)
  BY DEF Chain
<1> DEFINE k == Lens(p)
           l == Lens(r)
           m == [n EXCEPT ![i + 1] = n[i + 1] + 1]
<1>2. /\ k \in [1 .. 6 -> Nat] /\ \A j \in 1 .. 6 : k[j] = Len(p[j])
      /\ l \in [1 .. 6 -> Nat] /\ \A j \in 1 .. 6 : l[j] = Len(r[j])
  BY LensIs
<1>3. Offsets(k, n) /\ n \in [1 .. 7 -> Nat]
  BY <1>1 DEF Linked, Offsets
<1> HIDE DEF k, l
<1>4. i \in 1 .. 6 /\ i + 1 \in 1 .. 6 /\ i + 1 \in 1 .. 7
  OBVIOUS
<1>5. /\ l[i] = k[i] + 1 /\ l[i + 1] = k[i + 1] - 1 /\ k[i + 1] > 0
      /\ \A j \in 1 .. 6 : j # i /\ j # i + 1 => l[j] = k[j]
  <2>1. Len(r[i]) = Len(p[i]) + 1
    BY DEF Added
  <2>2. Len(p[i + 1]) > 0 /\ Len(r[i + 1]) = Len(p[i + 1]) - 1
    BY DEF Taken
  <2>3. \A j \in 1 .. 6 : j # i /\ j # i + 1 => l[j] = k[j]
    BY <1>2 DEF SameBut
  <2>4. l[i] = k[i] + 1
    BY <1>2, <1>4, <2>1
  <2>5. l[i + 1] = k[i + 1] - 1 /\ k[i + 1] > 0
    BY <1>2, <1>4, <2>2
  <2> QED
    BY <2>3, <2>4, <2>5
<1>6. Offsets(l, m)
  BY <1>2, <1>3, <1>5, OffsetsMove
<1>7. /\ m[i + 1] = n[i + 1] + 1 /\ \A j \in 1 .. 7 : j # i + 1 => m[j] = n[j]
      /\ n[i + 1] = n[i] + k[i] /\ n[i] \in Nat /\ n[i + 1] \in Nat /\ k[i] \in Nat
  <2>1. m[i + 1] = n[i + 1] + 1 /\ \A j \in 1 .. 7 : j # i + 1 => m[j] = n[j]
    BY <1>3, <1>4
  <2>2. n[i + 1] = n[i] + k[i]
    BY <1>3, <1>4 DEF Offsets
  <2>3. n[i] \in Nat /\ n[i + 1] \in Nat
    BY <1>3, <1>4
  <2>4. k \in [1 .. 6 -> Nat]
    BY <1>2
  <2>5. k[i] \in Nat
    BY <1>4, <2>4
  <2> QED
    BY <2>1, <2>2, <2>3, <2>5
<1> HIDE DEF m
<1>8. ASSUME NEW j \in 1 .. w PROVE Numbered(r[j], t, m[j])
  <2>1. Numbered(p[j], t, n[j]) /\ j \in 1 .. 6 /\ j \in 1 .. 7
    BY <1>1 DEF Linked
  <2>2. CASE j = i
    <3>1. i + 1 \in 1 .. w
      BY <2>2
    <3>2. Numbered(p[i + 1], t, n[i + 1])
      BY <1>1, <3>1 DEF Linked
    <3>3. Len(p[i]) = k[i] /\ Len(r[i]) = k[i] + 1 /\ Len(p[i + 1]) = k[i + 1]
      BY <1>2, <1>4, <1>5
    <3>4. 1 \in 1 .. Len(p[i + 1])
      <4>1. Len(p[i + 1]) \in Nat /\ Len(p[i + 1]) > 0
        BY <1>4 DEF Sized, Taken
      <4> QED
        BY <4>1
    <3>5. p[i + 1][1] = <<t, n[i + 1] + 1>>
      BY <3>2, <3>4 DEF Numbered
    <3>6. ASSUME NEW c \in 1 .. Len(r[i]) PROVE r[i][c] = <<t, n[i] + c>>
      <4>1. CASE c \in 1 .. Len(p[i])
        BY <2>1, <2>2, <4>1 DEF Added, Numbered
      <4>2. CASE c = Len(p[i]) + 1
        <5>1. r[i][c] = <<t, n[i + 1] + 1>>
          BY <3>5, <4>2 DEF Added
        <5>2. n[i + 1] = n[i] + k[i] /\ n[i] \in Nat /\ k[i] \in Nat
          BY <1>7
        <5>3. c = k[i] + 1
          BY <3>3, <4>2
        <5>4. n[i] + c = n[i + 1] + 1
          BY <5>2, <5>3
        <5> QED
          BY <5>1, <5>4
      <4>3. c \in 1 .. Len(p[i]) \/ c = Len(p[i]) + 1
        BY <1>7, <3>3
      <4> QED
        BY <4>1, <4>2, <4>3
    <3>7. m[j] = n[i]
      BY <1>4, <1>7, <2>2
    <3> QED
      BY <2>2, <3>6, <3>7 DEF Numbered
  <2>3. CASE j = i + 1
    <3>1. Len(p[j]) = k[j] /\ k[j] \in Nat /\ Len(r[j]) = k[j] - 1
      BY <1>2, <1>5, <2>1, <2>3
    <3>2. ASSUME NEW c \in 1 .. Len(r[j]) PROVE r[j][c] = <<t, m[j] + c>>
      <4>1. c \in 1 .. Len(p[j]) - 1 /\ c + 1 \in 1 .. Len(p[j])
        BY <3>1
      <4>2. r[j][c] = <<t, n[j] + (c + 1)>>
        BY <2>1, <2>3, <4>1 DEF Taken, Numbered
      <4>3. n[j] + (c + 1) = m[j] + c
        BY <1>7, <2>3, <4>1
      <4> QED
        BY <4>2, <4>3
    <3> QED
      BY <3>2 DEF Numbered
  <2>4. CASE j # i /\ j # i + 1
    BY <1>7, <2>1, <2>4 DEF SameBut
  <2> QED
    BY <2>2, <2>3, <2>4
<1>9. m[w + 1] = n[w + 1] /\ m[7] = n[7]
  <2>1. w + 1 \in 1 .. 7 /\ w + 1 # i + 1 /\ 7 # i + 1
    OBVIOUS
  <2> QED
    BY <1>7, <2>1
<1>10. Linked(t, r, m, w, s, a)
  BY <1>1, <1>6, <1>8, <1>9 DEF Linked, l
<1> QED
  BY <1>10 DEF Chain

(* The sender adds a piece.                                                 *)
LEMMA SendChain ==
  ASSUME NEW t, NEW p, Sized(p), NEW r, Sized(r), NEW w \in 2 .. 6, NEW s \in Nat,
         NEW a, Chain(t, p, w, s, a), w = 6 => a = "all",
         Added(p[6], r[6], <<t, s + 1>>), SameUpTo(p, r, 6)
  PROVE  Chain(t, r, w, s + 1, a)
<1>1. PICK n : Linked(t, p, n, w, s, a)
  BY DEF Chain
<1> DEFINE k == Lens(p)
           l == Lens(r)
<1>2. k \in [1 .. 6 -> Nat] /\ l \in [1 .. 6 -> Nat]
  BY LensIs
<1>3. PICK m : Offsets(l, m)
  BY <1>2, OffsetsExist
<1>4. /\ Offsets(k, n)
      /\ n \in [1 .. 7 -> Nat] /\ m \in [1 .. 7 -> Nat]
  BY <1>1, <1>3 DEF Linked, Offsets
<1>len. \A j \in 1 .. 6 : k[j] = Len(p[j]) /\ l[j] = Len(r[j])
  BY LensIs
<1> HIDE DEF k, l
<1>5. \A i \in 1 .. 6 : m[i] = n[i]
  <2>1. ASSUME NEW i \in 1 .. 5 PROVE l[i] = k[i]
    <3>1. r[i] = p[i] /\ i \in 1 .. 6
      BY DEF SameUpTo
    <3> QED
      BY <1>len, <3>1
  <2>2. \A i \in 1 .. 5 + 1 : m[i] = n[i]
    BY <1>2, <1>3, <1>4, <2>1, OffsetsSame
  <2> QED
    BY <2>2
<1>6. m[7] = n[7] + 1 /\ n[7] = n[6] + Len(p[6]) /\ n[6] \in Nat /\ Len(p[6]) \in Nat
  <2>1. l[6] = k[6] + 1 /\ k[6] = Len(p[6])
    BY <1>len DEF Added
  <2>3. k[6] \in Nat /\ n[6] \in Nat /\ m[6] = n[6]
    BY <1>2, <1>4, <1>5
  <2>2. m[7] = m[6] + l[6] /\ n[7] = n[6] + k[6]
    BY <1>3, <1>4 DEF Offsets
  <2> QED
    BY <2>1, <2>2, <2>3
<1>7. ASSUME NEW j \in 1 .. w PROVE Numbered(r[j], t, m[j])
  <2>1. Numbered(p[j], t, n[j]) /\ j \in 1 .. 6
    BY <1>1 DEF Linked
  <2>2. CASE j # 6
    BY <1>5, <2>1, <2>2 DEF SameUpTo
  <2>3. CASE j = 6
    <3>1. n[7] = s
      BY <1>1, <2>3 DEF Linked
    <3>2. ASSUME NEW c \in 1 .. Len(r[6]) PROVE r[6][c] = <<t, n[6] + c>>
      <4>1. CASE c \in 1 .. Len(p[6])
        BY <2>1, <2>3, <4>1 DEF Added, Numbered
      <4>2. CASE c = Len(p[6]) + 1
        <5>1. r[6][c] = <<t, s + 1>>
          BY <4>2 DEF Added
        <5>2. n[6] + c = s + 1
          BY <1>6, <3>1, <4>2
        <5> QED
          BY <5>1, <5>2
      <4>3. c \in 1 .. Len(p[6]) \/ c = Len(p[6]) + 1
        BY <1>6 DEF Added
      <4> QED
        BY <4>1, <4>2, <4>3
    <3> QED
      BY <1>5, <2>3, <3>2 DEF Numbered
  <2> QED
    BY <2>2, <2>3
<1>8. m[w + 1] <= s + 1
  <2>1. CASE w = 6
    <3>1. n[7] = s
      BY <1>1, <2>1 DEF Linked
    <3> QED
      BY <1>6, <2>1, <3>1
  <2>2. CASE w # 6
    <3>1. w + 1 \in 1 .. 6 /\ w + 1 \in 1 .. 7 /\ n[w + 1] <= s
      BY <1>1, <2>2 DEF Linked
    <3> QED
      BY <1>4, <1>5, <3>1
  <2> QED
    BY <2>1, <2>2
<1>9. a = "all" => m[7] = s + 1
  BY <1>1, <1>6 DEF Linked
<1>10. Linked(t, r, m, w, s + 1, a)
  BY <1>3, <1>7, <1>8, <1>9 DEF Linked, l
<1> QED
  BY <1>10 DEF Chain

(* Places break off at the back, and the last one left loses its last       *)
(* pieces.                                                                  *)
LEMMA LowerChain ==
  ASSUME NEW t, NEW p, Sized(p), NEW r, Sized(r), NEW w \in 2 .. 6, NEW s \in Nat,
         NEW a, Chain(t, p, w, s, a),
         NEW v \in 2 .. 6, v <= w, NEW z \in Nat, s <= z, NEW b,
         SameUpTo(p, r, v),
         Prefix(p[v], r[v]),
         b = "all" => a = "all" /\ z = s /\ SameLens(p, r)
  PROVE  Chain(t, r, v, z, b)
<1>1. PICK n : Linked(t, p, n, w, s, a)
  BY DEF Chain
<1> DEFINE k == Lens(p)
           l == Lens(r)
<1>2. k \in [1 .. 6 -> Nat] /\ l \in [1 .. 6 -> Nat]
  BY LensIs
<1>3. PICK m : Offsets(l, m)
  BY <1>2, OffsetsExist
<1>4. /\ Offsets(k, n)
      /\ n \in [1 .. 7 -> Nat] /\ m \in [1 .. 7 -> Nat]
  BY <1>1, <1>3 DEF Linked, Offsets
<1>len. \A j \in 1 .. 6 : k[j] = Len(p[j]) /\ l[j] = Len(r[j])
  BY LensIs
<1> HIDE DEF k, l
<1>5. \A i \in 1 .. v : m[i] = n[i]
  <2>1. ASSUME NEW i \in 1 .. v - 1 PROVE l[i] = k[i]
    <3>1. r[i] = p[i] /\ i \in 1 .. 6
      BY DEF SameUpTo
    <3> QED
      BY <1>len, <3>1
  <2>2. v - 1 \in 0 .. 6 /\ (v - 1) + 1 = v
    OBVIOUS
  <2>3. \A i \in 1 .. (v - 1) + 1 : m[i] = n[i]
    BY <1>2, <1>3, <1>4, <2>1, <2>2, OffsetsSame
  <2> QED
    BY <2>2, <2>3
<1>6. Len(p[v]) \in Nat /\ Len(r[v]) \in Nat /\ Len(r[v]) <= Len(p[v])
  BY DEF Sized, Prefix
<1>7. ASSUME NEW j \in 1 .. v PROVE Numbered(r[j], t, m[j])
  <2>1. Numbered(p[j], t, n[j]) /\ j \in 1 .. 6
    BY <1>1 DEF Linked
  <2>2. CASE j # v
    BY <1>5, <2>1, <2>2 DEF SameUpTo
  <2>3. CASE j = v
    <3>1. \A i \in 1 .. Len(r[v]) : i \in 1 .. Len(p[v]) /\ r[v][i] = p[v][i]
      BY <1>6 DEF Prefix
    <3> QED
      BY <1>5, <2>1, <2>3, <3>1 DEF Numbered
  <2> QED
    BY <2>2, <2>3
<1>8. m[v + 1] <= n[v + 1]
  <2>1. m[v + 1] = m[v] + l[v] /\ n[v + 1] = n[v] + k[v]
    BY <1>3, <1>4 DEF Offsets
  <2>4. v \in 1 .. 6
    OBVIOUS
  <2>5. l[v] \in Nat /\ k[v] \in Nat
    BY <1>2, <2>4
  <2>2. l[v] <= k[v] /\ l[v] \in Nat /\ k[v] \in Nat
    BY <1>len, <1>6, <2>4, <2>5
  <2>3. m[v] = n[v] /\ n[v] \in Nat
    BY <1>4, <1>5
  <2> QED
    BY <2>1, <2>2, <2>3
<1>9. n[v + 1] <= n[w + 1]
  <2>1. \A i \in 1 .. 6 : n[i] <= n[i + 1]
    BY <1>2, <1>4 DEF Offsets
  <2>2. /\ n[3] <= n[4] /\ n[4] <= n[5] /\ n[5] <= n[6] /\ n[6] <= n[7]
        /\ n[3] \in Nat /\ n[4] \in Nat /\ n[5] \in Nat /\ n[6] \in Nat /\ n[7] \in Nat
    BY <1>4, <2>1
  <2>3. v \in {2, 3, 4, 5, 6} /\ w \in {2, 3, 4, 5, 6} /\ v <= w
    OBVIOUS
  <2> QED
    BY <2>2, <2>3
<1>10. m[v + 1] <= z
  <2>1. n[w + 1] <= s /\ w + 1 \in 1 .. 7 /\ v + 1 \in 1 .. 7
    BY <1>1 DEF Linked
  <2>2. n[w + 1] \in Nat /\ n[v + 1] \in Nat /\ m[v + 1] \in Nat
    BY <1>4, <2>1
  <2> QED
    BY <1>8, <1>9, <2>1, <2>2
<1>11. b = "all" => m[7] = z
  <2> SUFFICES ASSUME b = "all" PROVE m[7] = z
    OBVIOUS
  <2>1. \A i \in 1 .. 6 : l[i] = k[i]
    BY <1>len DEF SameLens
  <2>2. \A i \in 1 .. 6 + 1 : m[i] = n[i]
    BY <1>2, <1>3, <1>4, <2>1, OffsetsSame
  <2>3. n[7] = s /\ z = s
    BY <1>1 DEF Linked
  <2> QED
    BY <2>2, <2>3
<1>12. Linked(t, r, m, v, z, b)
  BY <1>3, <1>7, <1>10, <1>11 DEF Linked, l
<1> QED
  BY <1>12 DEF Chain

(* The receiver has got, and is about to get, what was sent.                *)
LEMMA ChainFront ==
  ASSUME NEW t, NEW p, Sized(p), NEW w \in 2 .. 6, NEW s \in Nat, NEW a,
         Chain(t, p, w, s, a)
  PROVE  /\ Numbered(p[1], t, 0) /\ Len(p[1]) <= s
         /\ Len(p[2]) > 0 => p[2][1] = <<t, Len(p[1]) + 1>> /\ Len(p[1]) < s
<1>1. Prefix(p[2], p[2]) /\ Len(p[1]) \in Nat /\ Len(p[2]) \in Nat
  BY DEF Sized, Prefix
<1>2. Chain(t, p, 2, s, "some")
  <2>1. SameUpTo(p, p, 2)
    BY DEF SameUpTo
  <2>2. 2 \in 2 .. 6 /\ 2 <= w /\ s <= s
    OBVIOUS
  <2> QED
    BY <1>1, <2>1, <2>2, LowerChain
<1>3. PICK n : Linked(t, p, n, 2, s, "some")
  BY <1>2 DEF Chain
<1>4. /\ Offsets(Lens(p), n) /\ n \in [1 .. 7 -> Nat] /\ n[1] = 0
      /\ n[2] = n[1] + Lens(p)[1] /\ n[3] = n[2] + Lens(p)[2]
      /\ Numbered(p[1], t, n[1]) /\ Numbered(p[2], t, n[2]) /\ n[3] <= s
  BY <1>3 DEF Linked, Offsets
<1>5. Lens(p)[1] = Len(p[1]) /\ Lens(p)[2] = Len(p[2])
  BY LensIs
<1>6. n[2] = Len(p[1]) /\ n[3] = Len(p[1]) + Len(p[2])
  BY <1>1, <1>4, <1>5
<1>7. Numbered(p[1], t, 0) /\ Len(p[1]) <= s
  <2>1. Numbered(p[1], t, 0)
    BY <1>4
  <2>2. /\ n[3] = n[2] + Lens(p)[2] /\ n[3] <= s
        /\ n[2] \in Nat /\ Lens(p)[2] \in Nat
    BY <1>4, LensIs
  <2>3. n[2] <= s
    BY <2>2
  <2> QED
    BY <1>6, <2>1, <2>3
<1>8. ASSUME Len(p[2]) > 0 PROVE p[2][1] = <<t, Len(p[1]) + 1>> /\ Len(p[1]) < s
  <2>1. 1 \in 1 .. Len(p[2])
    BY <1>1, <1>8
  <2>2. p[2][1] = <<t, n[2] + 1>>
    BY <1>4, <2>1 DEF Numbered
  <2>3. /\ n[3] = n[2] + Lens(p)[2] /\ n[3] <= s
        /\ n[2] \in Nat /\ Lens(p)[2] \in Nat
    BY <1>4, LensIs
  <2>4. Lens(p)[2] > 0
    BY <1>5, <1>8
  <2>5. n[2] < s
    BY <2>3, <2>4
  <2> QED
    BY <1>6, <2>2, <2>5
<1> QED
  BY <1>7, <1>8

(* Nothing has been sent.                                                   *)
LEMMA NewChain ==
  ASSUME NEW t, NEW p, \A i \in 1 .. 6 : Len(p[i]) = 0
  PROVE  Chain(t, p, 6, 0, "all")
<1> DEFINE n == [i \in 1 .. 7 |-> 0]
<1>1. Offsets(Lens(p), n)
  BY DEF Offsets, Lens
<1>2. \A i \in 1 .. 6 : Numbered(p[i], t, n[i])
  BY DEF Numbered
<1>3. Linked(t, p, n, 6, 0, "all")
  BY <1>1, <1>2 DEF Linked
<1> QED
  BY <1>3 DEF Chain

LEMMA LensAre ==
  ASSUME NEW p, Sized(p)
  PROVE  /\ Lens(p)[1] = Len(p[1]) /\ Lens(p)[2] = Len(p[2]) /\ Lens(p)[3] = Len(p[3])
         /\ Lens(p)[4] = Len(p[4]) /\ Lens(p)[5] = Len(p[5]) /\ Lens(p)[6] = Len(p[6])
<1>1. \A i \in 1 .. 6 : Lens(p)[i] = Len(p[i])
  BY LensIs
<1> QED
  BY <1>1

(* j pieces go from place 4 to place 1.                                     *)
Skipped(k, l, j) ==
  /\ j <= k[4] /\ k[1] = 0 /\ k[2] = 0 /\ k[3] = 0
  /\ l[1] = j /\ l[2] = 0 /\ l[3] = 0 /\ l[4] = k[4] - j /\ l[5] = k[5] /\ l[6] = k[6]

Moved(n, m, j) ==
  /\ m[1] = 0 /\ m[2] = j /\ m[3] = j /\ m[4] = j
  /\ m[5] = n[5] /\ m[6] = n[6] /\ m[7] = n[7]

LEMMA OffsetsSkip ==
  ASSUME NEW k \in [1 .. 6 -> Nat], NEW l \in [1 .. 6 -> Nat], NEW n, Offsets(k, n),
         NEW j \in Nat, Skipped(k, l, j)
  PROVE  /\ n[4] = 0 /\ n[5] = k[4] /\ n[5] <= n[7]
         /\ \E m : Offsets(l, m) /\ Moved(n, m, j)
<1>1. /\ n \in [1 .. 7 -> Nat] /\ n[1] = 0 /\ n[2] = n[1] + k[1]
      /\ n[3] = n[2] + k[2] /\ n[4] = n[3] + k[3] /\ n[5] = n[4] + k[4]
      /\ n[6] = n[5] + k[5] /\ n[7] = n[6] + k[6]
  BY DEF Offsets
<1>2. n[4] = 0 /\ n[5] = k[4] /\ n[5] <= n[7]
  BY <1>1 DEF Skipped
<1> DEFINE m == [i \in 1 .. 7 |-> IF i \in {2, 3, 4} THEN j ELSE n[i]]
<1>3. /\ m \in [1 .. 7 -> Nat] /\ m[1] = n[1] /\ m[2] = j /\ m[3] = j /\ m[4] = j
      /\ m[5] = n[5] /\ m[6] = n[6] /\ m[7] = n[7]
  BY <1>1
<1> HIDE DEF m
<1>4. /\ m[2] = m[1] + l[1] /\ m[3] = m[2] + l[2] /\ m[4] = m[3] + l[3]
      /\ m[5] = m[4] + l[4] /\ m[6] = m[5] + l[5] /\ m[7] = m[6] + l[6]
  BY <1>1, <1>2, <1>3 DEF Skipped
<1>5. \A i \in 1 .. 6 : i = 1 \/ i = 2 \/ i = 3 \/ i = 4 \/ i = 5 \/ i = 6
  OBVIOUS
<1>6. ASSUME NEW i \in 1 .. 6 PROVE m[i + 1] = m[i] + l[i]
  BY <1>4, <1>5
<1>7. Offsets(l, m)
  BY <1>1, <1>3, <1>6 DEF Offsets
<1>8. Moved(n, m, j)
  BY <1>1, <1>3 DEF Moved
<1> QED
  BY <1>2, <1>7, <1>8

LEMMA NumberedRest ==
  ASSUME NEW t, NEW q, NEW r, NEW j \in Nat, Numbered(q, t, 0), Len(q) \in Nat,
         Len(r) = Len(q) - j, \A i \in 1 .. Len(r) : r[i] = q[i + j]
  PROVE  Numbered(r, t, j)
<1> SUFFICES ASSUME NEW i \in 1 .. Len(r) PROVE r[i] = <<t, j + i>>
  BY DEF Numbered
<1>1. i + j \in 1 .. Len(q) /\ 0 + (i + j) = j + i
  OBVIOUS
<1>2. q[i + j] = <<t, 0 + (i + j)>>
  BY <1>1 DEF Numbered
<1> QED
  BY <1>1, <1>2

(* The first j pieces of place 4 go straight to the receiver, while nothing *)
(* is between them.                                                         *)
LEMMA SkipChain ==
  ASSUME NEW t, NEW p, Sized(p), NEW r, Sized(r), NEW w \in {2, 4, 6}, NEW s \in Nat,
         NEW a, Chain(t, p, w, s, a), w # 2 \/ a = "all",
         Len(p[1]) = 0, Len(p[2]) = 0, Len(p[3]) = 0,
         NEW j \in Nat, j <= Len(p[4]),
         Numbered(r[1], t, 0), Len(r[1]) = j, r[2] = p[2], r[3] = p[3],
         Len(r[4]) = Len(p[4]) - j,
         \A i \in 1 .. Len(r[4]) : r[4][i] = p[4][i + j],
         r[5] = p[5], r[6] = p[6]
  PROVE  Chain(t, r, w, s, a)
<1>1. PICK n : Linked(t, p, n, w, s, a)
  BY DEF Chain
<1>2. /\ Lens(p) \in [1 .. 6 -> Nat] /\ Lens(r) \in [1 .. 6 -> Nat]
      /\ Offsets(Lens(p), n) /\ n \in [1 .. 7 -> Nat]
  BY <1>1, LensIs DEF Linked, Offsets
<1>3. Skipped(Lens(p), Lens(r), j)
  <2>1. /\ Lens(p)[1] = Len(p[1]) /\ Lens(p)[2] = Len(p[2]) /\ Lens(p)[3] = Len(p[3])
        /\ Lens(p)[4] = Len(p[4]) /\ Lens(p)[5] = Len(p[5]) /\ Lens(p)[6] = Len(p[6])
    BY LensAre
  <2>2. /\ Lens(r)[1] = Len(r[1]) /\ Lens(r)[2] = Len(r[2]) /\ Lens(r)[3] = Len(r[3])
        /\ Lens(r)[4] = Len(r[4]) /\ Lens(r)[5] = Len(r[5]) /\ Lens(r)[6] = Len(r[6])
    BY LensAre
  <2> QED
    BY <2>1, <2>2 DEF Skipped
<1>4. /\ n[4] = 0 /\ n[5] = Lens(p)[4] /\ n[5] <= n[7]
      /\ \E m : Offsets(Lens(r), m) /\ Moved(n, m, j)
  BY <1>2, <1>3, OffsetsSkip, Zenon
<1>5. PICK m : /\ Offsets(Lens(r), m) /\ m[1] = 0 /\ m[2] = j /\ m[3] = j /\ m[4] = j
               /\ m[5] = n[5] /\ m[6] = n[6] /\ m[7] = n[7]
  BY <1>4 DEF Moved
<1>6. ASSUME NEW i \in 1 .. w PROVE Numbered(r[i], t, m[i])
  <2>1. Numbered(p[i], t, n[i])
    BY <1>1 DEF Linked
  <2>2. i = 1 \/ i = 2 \/ i = 3 \/ i = 4 \/ i = 5 \/ i = 6
    OBVIOUS
  <2>3. CASE i = 1
    BY <1>5, <2>3
  <2>4. CASE i = 2 \/ i = 3
    BY <2>4 DEF Numbered
  <2>5. CASE i = 4
    <3>1. Len(p[4]) \in Nat /\ Numbered(p[4], t, 0)
      BY <1>4, <2>1, <2>5 DEF Sized
    <3>2. Numbered(r[4], t, j)
      BY <3>1, NumberedRest
    <3> QED
      BY <1>5, <2>5, <3>2
  <2>6. CASE i = 5 \/ i = 6
    BY <1>5, <2>1, <2>6
  <2> QED
    BY <2>2, <2>3, <2>4, <2>5, <2>6
<1>7. m[w + 1] <= s
  <2>1. n[w + 1] <= s /\ (a = "all" => n[7] = s)
    BY <1>1 DEF Linked
  <2>2. CASE w # 2
    BY <1>5, <2>1, <2>2
  <2>3. CASE w = 2
    <3>1. a = "all"
      BY <2>3
    <3>2. n[7] = s /\ n[5] \in Nat /\ n[7] \in Nat
      BY <1>2, <2>1, <3>1
    <3>3. j <= n[5]
      BY <1>3, <1>4 DEF Skipped
    <3>4. j <= s
      BY <1>4, <3>2, <3>3
    <3> QED
      BY <1>5, <2>3, <3>4
  <2> QED
    BY <2>2, <2>3
<1>8. a = "all" => m[7] = s
  BY <1>1, <1>5 DEF Linked
<1>9. Linked(t, r, m, w, s, a)
  BY <1>5, <1>6, <1>7, <1>8 DEF Linked
<1> QED
  BY <1>9 DEF Chain

(* Everything has arrived.                                                  *)
LEMMA ChainEnd ==
  ASSUME NEW t, NEW p, Sized(p), NEW w, NEW s, Chain(t, p, w, s, "all"),
         Len(p[2]) = 0, Len(p[3]) = 0, Len(p[4]) = 0, Len(p[5]) = 0, Len(p[6]) = 0
  PROVE  Len(p[1]) = s
<1>1. PICK n : Linked(t, p, n, w, s, "all")
  BY DEF Chain
<1> DEFINE k == Lens(p)
<1>2. /\ k \in [1 .. 6 -> Nat] /\ k[1] = Len(p[1])
      /\ k[2] = 0 /\ k[3] = 0 /\ k[4] = 0 /\ k[5] = 0 /\ k[6] = 0
  BY LensIs
<1>3. Offsets(k, n) /\ n[7] = s
  BY <1>1 DEF Linked
<1> HIDE DEF k
<1>4. /\ n \in [1 .. 7 -> Nat] /\ n[1] = 0
      /\ n[2] = n[1] + k[1] /\ n[3] = n[2] + k[2] /\ n[4] = n[3] + k[3]
      /\ n[5] = n[4] + k[4] /\ n[6] = n[5] + k[5] /\ n[7] = n[6] + k[6]
  BY <1>3 DEF Offsets
<1>5. n[7] = k[1]
  BY <1>2, <1>4
<1> QED
  BY <1>2, <1>3, <1>5
=============================================================================
