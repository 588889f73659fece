---------------------------- MODULE ListProofs ------------------------------
(***************************************************************************)
(* Theorems about the messages of Messages that carry lists and frames:    *)
(* for any channels, scan requests, reports of neighbours and notices of a *)
(* country, what the firmware gets is complete; for any run of received    *)
(* frames, transfers and dumps, what the driver hands on is whole.         *)
(***************************************************************************)
EXTENDS DriverProofs

(***************************************************************************)
(* Channel lists.  A list has n channels below the limit b.                *)
(***************************************************************************)
Below(s, n, b) == s \in Seq(Nat) /\ Len(s) = n /\ \A k \in 1 .. n : s[k] < b

\* A channel step of the loops stays below the limit it ends at.
LEMMA EveryBelow ==
  ASSUME NEW first \in Nat, NEW n \in Nat, NEW step \in 1 .. 4, NEW b \in Nat, first + step * n < b + step
  PROVE  Below(Every(first, step, n), n, b)
<1> DEFINE s == Every(first, step, n)
<1>1. ASSUME NEW k \in 1 .. n PROVE s[k] \in Nat /\ s[k] < b
  <2>1. s[k] = first + step * (k - 1)
    BY DEF Every
  <2>2. CASE step = 1
    BY <2>1, <2>2
  <2>3. CASE step = 2
    BY <2>1, <2>3
  <2>4. CASE step = 3
    BY <2>1, <2>4
  <2>5. CASE step = 4
    BY <2>1, <2>5
  <2> QED BY <2>2, <2>3, <2>4, <2>5
<1>2. s = [k \in 1 .. n |-> s[k]]
  BY DEF Every
<1> HIDE DEF s
<1>3. s \in Seq(Nat) /\ Len(s) = n
  BY <1>1, <1>2
<1> QED BY <1>1, <1>3 DEF Below, s

\* One list below a limit after another.
LEMMA BelowJoins ==
  ASSUME NEW b \in Nat, NEW m \in Nat, NEW n \in Nat, NEW s, Below(s, m, b), NEW t, Below(t, n, b)
  PROVE  Below(s \o t, m + n, b)
<1> DEFINE u == s \o t
<1>1. s \in Seq(Nat) /\ t \in Seq(Nat) /\ Len(s) = m /\ Len(t) = n
  BY DEF Below
<1>2. u \in Seq(Nat) /\ Joined(u, s, t)
  BY <1>1, Concat
<1>3. Len(u) = m + n /\ (\A k \in 1 .. m : u[k] = s[k]) /\ (\A k \in 1 .. n : u[m + k] = t[k])
  BY <1>1, <1>2 DEF Joined
<1> HIDE DEF u
<1>4. ASSUME NEW k \in 1 .. m + n PROVE u[k] < b
  <2>1. CASE k <= m
    <3>1. k \in 1 .. m
      BY <2>1
    <3> QED BY <1>3, <3>1 DEF Below
  <2>2. CASE k > m
    <3>1. PICK j \in 1 .. n : k = m + j
      <4>1. k - m \in 1 .. n /\ k = m + (k - m)
        BY <2>2
      <4> QED BY <4>1
    <3> QED BY <1>3, <3>1 DEF Below
  <2> QED BY <2>1, <2>2
<1> QED BY <1>2, <1>3, <1>4 DEF Below, u

\* The channels of a band: n of them, and the last is the greatest.
Rises(s, n, last) ==
  /\ s \in Seq(Nat) /\ Len(s) = n /\ s[n] = last
  /\ \A k \in 1 .. n : s[k] <= last /\ (k < n => s[k] < last)

\* A list with a constant step ends with its greatest channel.
LEMMA EveryRises ==
  ASSUME NEW first \in Nat, NEW n \in Nat \ {0}, NEW step \in 1 .. 4, NEW last,
         last = first + step * (n - 1)
  PROVE  Rises(Every(first, step, n), n, last)
<1> DEFINE s == Every(first, step, n)
<1>1. ASSUME NEW k \in 1 .. n PROVE s[k] \in Nat /\ s[k] <= last /\ (k < n => s[k] < last)
  <2>1. s[k] = first + step * (k - 1)
    BY DEF Every
  <2>2. CASE step = 1
    BY <2>1, <2>2
  <2>3. CASE step = 2
    BY <2>1, <2>3
  <2>4. CASE step = 3
    BY <2>1, <2>4
  <2>5. CASE step = 4
    BY <2>1, <2>5
  <2> QED BY <2>2, <2>3, <2>4, <2>5
<1>2. s = [k \in 1 .. n |-> s[k]] /\ s[n] = last
  BY DEF Every
<1> HIDE DEF s
<1>3. s \in Seq(Nat) /\ Len(s) = n
  BY <1>1, <1>2
<1> QED BY <1>1, <1>2, <1>3 DEF Rises, s

\* Below the last channel come those of another list.
LEMMA RisesAfter ==
  ASSUME NEW m \in Nat, NEW n \in Nat \ {0}, NEW last \in Nat, NEW s, Below(s, m, last),
         NEW t, Rises(t, n, last)
  PROVE  Rises(s \o t, m + n, last)
<1> DEFINE u == s \o t
<1>1. s \in Seq(Nat) /\ t \in Seq(Nat) /\ Len(s) = m /\ Len(t) = n
  BY DEF Below, Rises
<1>2. u \in Seq(Nat) /\ Joined(u, s, t)
  BY <1>1, Concat
<1>3. Len(u) = m + n /\ (\A k \in 1 .. m : u[k] = s[k]) /\ (\A k \in 1 .. n : u[m + k] = t[k])
  BY <1>1, <1>2 DEF Joined
<1> HIDE DEF u
<1>4. ASSUME NEW k \in 1 .. m + n PROVE u[k] <= last /\ (k < m + n => u[k] < last)
  <2>1. CASE k <= m
    <3>1. k \in 1 .. m
      BY <2>1
    <3>2. s[k] < last /\ s[k] \in Nat
      BY <1>1, <3>1, Elements DEF Below
    <3> QED BY <1>3, <3>1, <3>2
  <2>2. CASE k > m
    <3>1. PICK j \in 1 .. n : k = m + j /\ (k < m + n => j < n)
      <4>1. k - m \in 1 .. n /\ k = m + (k - m) /\ (k < m + n => k - m < n)
        BY <2>2
      <4> QED BY <4>1
    <3>2. t[j] <= last /\ (j < n => t[j] < last)
      BY DEF Rises
    <3> QED BY <1>3, <3>1, <3>2
  <2> QED BY <2>1, <2>2
<1>5. u[m + n] = last
  <2>1. n \in 1 .. n
    OBVIOUS
  <2> QED BY <1>3, <2>1 DEF Rises
<1> QED BY <1>2, <1>3, <1>4, <1>5 DEF Rises, u

\* The lists of the three bands.
LEMMA Chans2Rise == Rises(Chans2, 14, 14)
<1>1. \A first, n, step, last \in Nat :
        step \in 1 .. 4 /\ n # 0 /\ last = first + step * (n - 1) => Rises(Every(first, step, n), n, last)
  BY EveryRises
<1>2. 1 \in 1 .. 4 /\ 14 # 0 /\ 14 = 1 + 1 * (14 - 1) /\ 1 \in Nat /\ 14 \in Nat
  OBVIOUS
<1> HIDE DEF Every, Rises
<1>3. Rises(Every(1, 1, 14), 14, 14)
  BY <1>1, <1>2
<1> QED BY <1>3 DEF Chans2

LEMMA Chans5Rise == Rises(Chans5, 48, 177)
<1>1. \A first, n, step, last \in Nat :
        step \in 1 .. 4 /\ n # 0 /\ last = first + step * (n - 1) => Rises(Every(first, step, n), n, last)
  BY EveryRises
<1>2. \A first, n, step, b \in Nat :
        step \in 1 .. 4 /\ first + step * n < b + step => Below(Every(first, step, n), n, b)
  BY EveryBelow
<1>3. \A b, m, n \in Nat : \A s, t : Below(s, m, b) /\ Below(t, n, b) => Below(s \o t, m + n, b)
  BY BelowJoins
<1>4. \A last, m, n \in Nat : \A s, t :
        n # 0 /\ Below(s, m, last) /\ Rises(t, n, last) => Rises(s \o t, m + n, last)
  BY RisesAfter
<1> DEFINE a == Every(36, 2, 15)
           b == Every(100, 2, 15)
           c == Every(132, 2, 7)
           d == Every(149, 2, 7)
           e == Every(165, 4, 4)
<1> HIDE DEF Every, Rises, Below
<1>5. Below(a, 15, 177) /\ Below(b, 15, 177) /\ Below(c, 7, 177) /\ Below(d, 7, 177)
  BY <1>2
<1>6. Rises(e, 4, 177)
  BY <1>1
<1>7. Chans5 = a \o b \o c \o d \o e
  BY DEF Chans5
<1> HIDE DEF a, b, c, d, e
<1>8. Below(a \o b, 30, 177)
  <2>1. Below(a \o b, 15 + 15, 177)
    BY <1>3, <1>5
  <2> QED BY <2>1
<1>9. Below(a \o b \o c, 37, 177)
  <2>1. Below(a \o b \o c, 30 + 7, 177)
    BY <1>3, <1>5, <1>8
  <2> QED BY <2>1
<1>10. Below(a \o b \o c \o d, 44, 177)
  <2>1. Below(a \o b \o c \o d, 37 + 7, 177)
    BY <1>3, <1>5, <1>9
  <2> QED BY <2>1
<1>11. Rises(a \o b \o c \o d \o e, 44 + 4, 177)
  BY <1>4, <1>6, <1>10
<1> QED BY <1>7, <1>11

LEMMA Chans6Rise == Rises(Chans6, 109, 233)
<1>1. \A first, n, step, b \in Nat :
        step \in 1 .. 4 /\ first + step * n < b + step => Below(Every(first, step, n), n, b)
  BY EveryBelow
<1>2. \A b, m, n \in Nat : \A s, t : Below(s, m, b) /\ Below(t, n, b) => Below(s \o t, m + n, b)
  BY BelowJoins
<1>3. \A last, m, n \in Nat : \A s, t :
        n # 0 /\ Below(s, m, last) /\ Rises(t, n, last) => Rises(s \o t, m + n, last)
  BY RisesAfter
<1> DEFINE bs == [k \in 1 .. 7 |-> Every(32 * k - 31, 2, 15)]
<1> HIDE DEF Every
<1>4. \A k \in 1 .. 7 : Below(bs[k], 15, 233)
  <2> TAKE k \in 1 .. 7
  <2>1. 32 * k - 31 \in Nat /\ (32 * k - 31) + 2 * 15 < 233 + 2
    OBVIOUS
  <2>2. bs[k] = Every(32 * k - 31, 2, 15)
    OBVIOUS
  <2> HIDE DEF Below, bs
  <2>3. Below(Every(32 * k - 31, 2, 15), 15, 233)
    BY <1>1, <2>1
  <2> QED BY <2>2, <2>3
<1>5. bs \in [1 .. 7 -> Seq(Nat)]
  <2>1. \A k \in 1 .. 7 : bs[k] \in Seq(Nat)
    BY <1>4 DEF Below
  <2>2. bs = [k \in 1 .. 7 |-> bs[k]]
    OBVIOUS
  <2> HIDE DEF bs
  <2> QED BY <2>1, <2>2
<1> HIDE DEF bs
<1>6. PICK h : Pieces(h, bs, 7, Nat)
  <2>1. \A n \in Nat : bs \in [1 .. n -> Seq(Nat)] => \E h : Pieces(h, bs, n, Nat)
    BY Flattens
  <2>2. 7 \in Nat
    OBVIOUS
  <2> QED BY <1>5, <2>1, <2>2
<1>7. /\ h[0] = <<>> /\ FlattenSeq(bs) = h[7]
      /\ \A k \in 1 .. 7 : h[k] = h[k - 1] \o bs[k]
  BY <1>6 DEF Pieces
<1> DEFINE U(k) == {s \in Seq(Nat) : Below(s, 15 * k, 233)}
           W == [k \in 0 .. 7 |-> U(k)]
<1>8. h[0] \in W[0]
  <2>1. Below(<<>>, 15 * 0, 233)
    BY DEF Below
  <2>2. <<>> \in Seq(Nat)
    OBVIOUS
  <2> HIDE DEF Below
  <2> QED BY <1>7, <2>1, <2>2
<1>9. ASSUME NEW k \in 1 .. 7, h[k - 1] \in W[k - 1] PROVE h[k] \in W[k]
  <2>1. k - 1 \in 0 .. 7 /\ k \in 0 .. 7 /\ 15 * (k - 1) \in Nat /\ 15 * (k - 1) + 15 = 15 * k
    OBVIOUS
  <2>2. Below(h[k - 1], 15 * (k - 1), 233)
    BY <1>9, <2>1
  <2>3. Below(h[k - 1] \o bs[k], 15 * (k - 1) + 15, 233)
    <3> HIDE DEF Below
    <3> QED BY <1>2, <1>4, <2>1, <2>2
  <2>4. Below(h[k], 15 * k, 233)
    <3> HIDE DEF Below
    <3> QED BY <1>7, <2>1, <2>3
  <2>5. h[k] \in Seq(Nat)
    BY <2>4 DEF Below
  <2> HIDE DEF Below
  <2> QED BY <2>1, <2>4, <2>5
<1>10. \A k \in 0 .. 7 : h[k] \in W[k]
  <2> HIDE DEF W
  <2>1. \A n \in Nat : (\A k \in 1 .. n : h[k - 1] \in W[k - 1] => h[k] \in W[k])
                       => \A k \in 0 .. n : h[k] \in W[k]
    BY <1>8, Run
  <2> QED BY <1>9, <2>1
<1>11. Below(FlattenSeq(bs), 105, 233)
  <2>1. h[7] \in U(7)
    BY <1>10
  <2> HIDE DEF Below
  <2>2. Below(h[7], 15 * 7, 233)
    BY <2>1
  <2> QED BY <1>7, <2>2
<1> DEFINE a == FlattenSeq(bs)
           b == Every(225, 2, 3)
<1>12. Below(b, 3, 233)
  <2> HIDE DEF Below
  <2> QED BY <1>1
<1>13. Rises(<<233>>, 1, 233)
  BY DEF Rises
<1>14. Chans6 = a \o b \o <<233>>
  BY DEF Chans6, bs
<1> HIDE DEF a, b, Below, Rises
<1>15. Below(a \o b, 105 + 3, 233)
  BY <1>2, <1>11, <1>12 DEF a
<1>16. Rises(a \o b \o <<233>>, 108 + 1, 233)
  <2>1. Below(a \o b, 108, 233)
    BY <1>15
  <2> QED BY <1>3, <1>13, <2>1
<1> QED BY <1>14, <1>16

-----------------------------------------------------------------------------
(* The power table: bands and batches.                                     *)

\* Two cuts of a list that meet are one.
LEMMA CutsMeet ==
  ASSUME NEW V, NEW s \in Seq(V), NEW a \in 0 .. Len(s), NEW c \in 0 .. Len(s), a <= c
  PROVE  SubSeq(s, 1, a) \o SubSeq(s, a + 1, c) = SubSeq(s, 1, c)
<1> DEFINE t == SubSeq(s, 1, a)
           u == SubSeq(s, a + 1, c)
           v == SubSeq(s, 1, c)
<1>1. t \in Seq(V) /\ Len(t) = a /\ \A k \in 1 .. a : t[k] = s[k]
  OBVIOUS
<1>2. v \in Seq(V) /\ Len(v) = c /\ \A k \in 1 .. c : v[k] = s[k]
  OBVIOUS
<1>3. u \in Seq(V) /\ Len(u) = c - a /\ \A k \in 1 .. c - a : u[k] = s[a + k]
  <2>1. u \in Seq(V) /\ Len(u) = c - a
    OBVIOUS
  <2>2. ASSUME NEW k \in 1 .. c - a PROVE u[k] = s[a + k]
    <3>1. u[k] = s[(a + 1) + k - 1]
      BY SMT
    <3>2. (a + 1) + k - 1 = a + k
      OBVIOUS
    <3> HIDE DEF u
    <3> QED BY <3>1, <3>2
  <2> HIDE DEF u
  <2> QED BY <2>1, <2>2
<1> HIDE DEF t, u, v
<1> DEFINE w == t \o u
<1>4. w \in Seq(V) /\ Joined(w, t, u)
  BY <1>1, <1>3, Concat
<1> HIDE DEF w
<1>5. Len(w) = c /\ (\A k \in 1 .. a : w[k] = t[k]) /\ \A k \in 1 .. c - a : w[a + k] = u[k]
  BY <1>1, <1>3, <1>4 DEF Joined
<1>6. ASSUME NEW k \in 1 .. c PROVE w[k] = v[k]
  <2>1. CASE k <= a
    <3>1. k \in 1 .. a
      BY <2>1
    <3> QED BY <1>1, <1>2, <1>5, <3>1
  <2>2. CASE k > a
    <3>1. PICK j \in 1 .. c - a : k = a + j
      <4>1. k - a \in 1 .. c - a /\ k = a + (k - a)
        BY <2>2
      <4> QED BY <4>1
    <3>2. w[a + j] = u[j] /\ u[j] = s[a + j]
      BY <1>3, <1>5
    <3>3. v[k] = s[k]
      BY <1>2
    <3> QED BY <3>1, <3>2, <3>3
  <2> QED BY <2>1, <2>2
<1>7. w = v
  BY <1>2, <1>4, <1>5, <1>6
<1> QED BY <1>7 DEF t, u, v, w

\* So do all the cuts of a list up to the last.
LEMMA CutsJoin ==
  ASSUME NEW s \in Seq(Nat), NEW m \in Nat, NEW g \in [0 .. m -> 0 .. Len(s)], g[0] = 0,
         \A k \in 1 .. m : g[k - 1] <= g[k],
         NEW bs \in [1 .. m -> Seq(Nat)],
         \A k \in 1 .. m : bs[k] = SubSeq(s, g[k - 1] + 1, g[k])
  PROVE  FlattenSeq(bs) = SubSeq(s, 1, g[m])
<1>1. PICK h : Pieces(h, bs, m, Nat)
  BY Flattens
<1>2. /\ h[0] = <<>> /\ FlattenSeq(bs) = h[m]
      /\ \A k \in 1 .. m : h[k] = h[k - 1] \o bs[k]
  BY <1>1 DEF Pieces
<1> DEFINE W == [k \in 0 .. m |-> {SubSeq(s, 1, g[k])}]
<1>3. h[0] \in W[0]
  <2>1. SubSeq(s, 1, 0) = <<>> /\ 0 \in 0 .. m
    OBVIOUS
  <2> QED BY <1>2, <2>1
<1>4. ASSUME NEW k \in 1 .. m, h[k - 1] \in W[k - 1] PROVE h[k] \in W[k]
  <2>1. k - 1 \in 0 .. m /\ k \in 0 .. m
    OBVIOUS
  <2>2. h[k - 1] = SubSeq(s, 1, g[k - 1])
    BY <1>4, <2>1
  <2>3. g[k - 1] \in 0 .. Len(s) /\ g[k] \in 0 .. Len(s) /\ g[k - 1] <= g[k]
    BY <2>1
  <2>4. SubSeq(s, 1, g[k - 1]) \o SubSeq(s, g[k - 1] + 1, g[k]) = SubSeq(s, 1, g[k])
    BY <2>3, CutsMeet
  <2>5. h[k] = SubSeq(s, 1, g[k])
    BY <1>2, <2>2, <2>4
  <2> QED BY <2>1, <2>5
<1>5. \A k \in 0 .. m : h[k] \in W[k]
  <2> HIDE DEF W
  <2> QED BY <1>3, <1>4, Run
<1>6. h[m] = SubSeq(s, 1, g[m])
  BY <1>5
<1> QED BY <1>2, <1>6

\* The bands, the number of their channels, the last of them and their batches.
LenOf(b) == IF b = 2 THEN 14 ELSE IF b = 5 THEN 48 ELSE 109
EndOf(b) == IF b = 2 THEN 14 ELSE IF b = 5 THEN 177 ELSE 233
CntOf(b) == IF b = 2 THEN 2 ELSE IF b = 5 THEN 6 ELSE 14

\* The bands have the numbers of channels and of batches that the loops count.
LEMMA BandsAre ==
  ASSUME NEW b \in {2, 5, 6}
  PROVE  Rises(ChanList(b), LenOf(b), EndOf(b)) /\ BatchSize(b) = CntOf(b)
<1>1. CASE b = 2
  <2>1. ChanList(b) = Chans2 /\ LenOf(b) = 14 /\ EndOf(b) = 14 /\ CntOf(b) = 2
    BY <1>1 DEF ChanList, LenOf, EndOf, CntOf
  <2>2. Len(Chans2) = 14
    BY Chans2Rise DEF Rises
  <2> QED BY <2>1, <2>2, Chans2Rise DEF BatchSize, BatchLen
<1>2. CASE b = 5
  <2>1. ChanList(b) = Chans5 /\ LenOf(b) = 48 /\ EndOf(b) = 177 /\ CntOf(b) = 6
    BY <1>2 DEF ChanList, LenOf, EndOf, CntOf
  <2>2. Len(Chans5) = 48
    BY Chans5Rise DEF Rises
  <2> QED BY <2>1, <2>2, Chans5Rise DEF BatchSize, BatchLen
<1>3. CASE b = 6
  <2>1. ChanList(b) = Chans6 /\ LenOf(b) = 109 /\ EndOf(b) = 233 /\ CntOf(b) = 14
    BY <1>3 DEF ChanList, LenOf, EndOf, CntOf
  <2>2. Len(Chans6) = 109
    BY Chans6Rise DEF Rises
  <2> QED BY <2>1, <2>2, Chans6Rise DEF BatchSize, BatchLen
<1> QED BY <1>1, <1>2, <1>3

\* The greatest band of a chip has the last channel of all.
TopOf(caps) == IF 6 \in caps THEN 6 ELSE IF 5 \in caps THEN 5 ELSE 2

\* The last channel of a chip is that of its greatest band.
LEMMA LastIs ==
  ASSUME NEW caps \in CapsInput
  PROVE  /\ TopOf(caps) \in caps /\ LastCh(caps) = EndOf(TopOf(caps))
         /\ \A b \in caps : b \in {2, 5, 6} /\ (b # TopOf(caps) => EndOf(b) < LastCh(caps))
<1> DEFINE top == TopOf(caps)
<1>1. caps \subseteq {2, 5, 6} /\ caps # {}
  BY DEF CapsInput
<1>2. top \in caps /\ top \in {2, 5, 6} /\ \A b \in caps : b \in {2, 5, 6} /\ b <= top
  <2>1. CASE 6 \in caps
    BY <1>1, <2>1 DEF TopOf
  <2>2. CASE 6 \notin caps /\ 5 \in caps
    BY <1>1, <2>2 DEF TopOf
  <2>3. CASE 6 \notin caps /\ 5 \notin caps
    <3>1. caps = {2} /\ top = 2
      BY <1>1, <2>3 DEF TopOf
    <3> QED BY <3>1
  <2> QED BY <2>1, <2>2, <2>3
<1>3. LastCh(caps) = Last(ChanList(top))
  BY DEF LastCh, TopOf
<1> HIDE DEF top
<1>4. LenOf(top) \in Nat /\ Rises(ChanList(top), LenOf(top), EndOf(top))
  BY <1>2, BandsAre DEF LenOf
<1>5. Last(ChanList(top)) = EndOf(top)
  BY <1>4 DEF Rises, Last
<1>6. \A b \in caps : b # top => EndOf(b) < EndOf(top)
  BY <1>2 DEF EndOf
<1> QED BY <1>2, <1>3, <1>5, <1>6 DEF top

\* One batch: the channels after those of the batches before it, and marked as
\* the last when it is the last of the greatest band.
CutOf(b, k) == LeastOf(8 * k, LenOf(b))

\* What a batch of a band has.
LEMMA BatchIs ==
  ASSUME NEW caps \in CapsInput, NEW b \in caps, NEW k \in 1 .. CntOf(b), NEW p, p = PowerBatch(caps, b, k)
  PROVE  /\ p.band = b /\ p.n \in 1 .. BatchLen /\ Len(p.chans) = p.n
         /\ p.chans = SubSeq(ChanList(b), CutOf(b, k - 1) + 1, CutOf(b, k))
         /\ p.last <=> b = TopOf(caps) /\ k = CntOf(b)
<1> DEFINE s == ChanList(b)
           n == LenOf(b)
           cnt == CntOf(b)
           end == EndOf(b)
           num == NumCh(b, k)
           first == (k - 1) * 8 + 1
           cut == CutOf(b, k)
           c == SubSeq(s, first, first + num - 1)
<1>1. b \in {2, 5, 6}
  BY LastIs
<1>2. /\ n \in Nat /\ cnt \in Nat /\ end \in Nat /\ n <= 8 * cnt /\ 8 * cnt < n + 8
  BY <1>1 DEF LenOf, CntOf, EndOf
<1>3. Rises(s, n, end) /\ BatchSize(b) = cnt
  BY <1>1, BandsAre
<1>4. s \in Seq(Nat) /\ Len(s) = n
  BY <1>3 DEF Rises
<1>5. p = [band |-> b, n |-> num, chans |-> c, last |-> Last(c) = LastCh(caps)]
  BY DEF PowerBatch, BatchLen
<1>6. num = IF k = cnt THEN n - (k - 1) * 8 ELSE 8
  BY <1>3, <1>4 DEF NumCh, BatchLen
<1>7. k \in Nat /\ k >= 1 /\ k <= cnt
  BY <1>2
<1>8. cut = IF k = cnt THEN n ELSE 8 * k
  <2> HIDE DEF n, cnt
  <2> QED BY <1>2, <1>7 DEF CutOf, LeastOf, n
<1>9. CutOf(b, k - 1) = 8 * (k - 1)
  <2> HIDE DEF n, cnt
  <2> QED BY <1>2, <1>7 DEF CutOf, LeastOf, n
<1> HIDE DEF s, n, cnt, end, num, cut
<1>10. /\ num \in 1 .. 8 /\ first + num - 1 = cut /\ first = 8 * (k - 1) + 1
       /\ cut \in 1 .. n /\ first \in 1 .. n /\ num = cut - first + 1
       /\ (cut = n <=> k = cnt)
  BY <1>2, <1>6, <1>7, <1>8
<1>11. c = SubSeq(s, first, cut)
  BY <1>10
<1> HIDE DEF first, c
<1>12. c \in Seq(Nat) /\ Len(c) = num /\ Last(c) = s[cut]
  <2>1. c \in Seq(Nat) /\ Len(c) = num
    BY <1>2, <1>4, <1>10, <1>11
  <2>2. Last(c) = c[num]
    BY <2>1 DEF Last
  <2>3. c[num] = s[first + num - 1]
    BY <1>2, <1>4, <1>10, <1>11
  <2> QED BY <1>10, <2>1, <2>2, <2>3
<1>13. Last(c) = LastCh(caps) <=> b = TopOf(caps) /\ k = cnt
  <2>1. s[cut] <= end /\ (cut < n => s[cut] < end) /\ s[n] = end /\ s[cut] \in Nat
    BY <1>2, <1>3, <1>4, <1>10, Elements DEF Rises
  <2>2. b = TopOf(caps) => LastCh(caps) = end
    BY LastIs DEF end
  <2>3. b # TopOf(caps) => end < LastCh(caps) /\ LastCh(caps) \in Nat
    <3>1. EndOf(TopOf(caps)) \in Nat
      BY DEF EndOf
    <3> QED BY <3>1, LastIs DEF end
  <2> QED BY <1>2, <1>10, <1>12, <2>1, <2>2, <2>3
<1>14. p.band = b /\ p.n = num /\ p.chans = c /\ (p.last <=> Last(c) = LastCh(caps))
  <2> DEFINE e == Last(c) = LastCh(caps)
  <2>1. p = [band |-> b, n |-> num, chans |-> c, last |-> e]
    BY <1>5
  <2> HIDE DEF e
  <2>2. p.band = b /\ p.n = num /\ p.chans = c /\ p.last = e
    BY <2>1
  <2> QED BY <2>2, Zenon DEF e
<1> QED BY <1>9, <1>10, <1>11, <1>12, <1>13, <1>14 DEF BatchLen, s, cut, cnt

\* Where the batches of a band are among those of all.
Cnt(caps, b) == IF b \in caps THEN CntOf(b) ELSE 0
Off(caps, b) == IF b = 2 THEN 0 ELSE IF b = 5 THEN Cnt(caps, 2) ELSE Cnt(caps, 2) + Cnt(caps, 5)
Sum(caps) == Cnt(caps, 2) + Cnt(caps, 5) + Cnt(caps, 6)
Batches(caps) == {PowerBatch(caps, b, k) : b \in {2, 5, 6}, k \in Nat}
BandMsgs(caps, b) == IF b \in caps THEN RateTxPowerBand(caps, b) ELSE <<>>

\* The batches are those of the bands, one band after another.
LEMMA BandsInOrder ==
  ASSUME NEW caps \in CapsInput
  PROVE  /\ AllBands(caps) \in Seq(Batches(caps)) /\ Len(AllBands(caps)) = Sum(caps)
         /\ Sum(caps) \in Nat
         /\ \A b \in caps : \A k \in 1 .. CntOf(b) :
              /\ Off(caps, b) + k \in 1 .. Sum(caps)
              /\ AllBands(caps)[Off(caps, b) + k] = PowerBatch(caps, b, k)
<1> DEFINE V == Batches(caps)
           x == BandMsgs(caps, 2)
           y == BandMsgs(caps, 5)
           z == BandMsgs(caps, 6)
           n2 == Cnt(caps, 2)
           n5 == Cnt(caps, 5)
           n6 == Cnt(caps, 6)
<1>1. \A b \in {2, 5, 6} : /\ BandMsgs(caps, b) \in Seq(V) /\ Len(BandMsgs(caps, b)) = Cnt(caps, b) /\ Cnt(caps, b) \in Nat
                           /\ b \in caps => \A k \in 1 .. CntOf(b) : BandMsgs(caps, b)[k] = PowerBatch(caps, b, k)
  <2> TAKE b \in {2, 5, 6}
  <2>1. BatchSize(b) = CntOf(b) /\ CntOf(b) \in Nat
    BY BandsAre DEF CntOf
  <2>2. CASE b \in caps
    <3>1. BandMsgs(caps, b) = [k \in 1 .. CntOf(b) |-> PowerBatch(caps, b, k)]
      BY <2>1, <2>2 DEF RateTxPowerBand, BandMsgs
    <3>2. \A k \in 1 .. CntOf(b) : PowerBatch(caps, b, k) \in V
      BY <2>1 DEF Batches
    <3> HIDE DEF V
    <3>3. BandMsgs(caps, b) \in Seq(V) /\ Len(BandMsgs(caps, b)) = CntOf(b)
      BY <2>1, <3>1, <3>2
    <3>4. \A k \in 1 .. CntOf(b) : BandMsgs(caps, b)[k] = PowerBatch(caps, b, k)
      BY <3>1
    <3> QED BY <2>1, <2>2, <3>3, <3>4 DEF Cnt
  <2>3. CASE b \notin caps
    <3>1. BandMsgs(caps, b) = <<>> /\ Cnt(caps, b) = 0
      BY <2>3 DEF Cnt, BandMsgs
    <3> HIDE DEF V
    <3>2. BandMsgs(caps, b) \in Seq(V) /\ Len(BandMsgs(caps, b)) = 0
      BY <3>1
    <3> QED BY <2>3, <3>1, <3>2
  <2> QED BY <2>2, <2>3
<1>0. \A b \in caps : \A k \in 1 .. CntOf(b) : BandMsgs(caps, b)[k] = PowerBatch(caps, b, k)
  BY <1>1, LastIs, Zenon
<1>2. AllBands(caps) = x \o y \o z
  BY DEF AllBands, BandMsgs
<1> HIDE DEF V
<1>3. x \in Seq(V) /\ y \in Seq(V) /\ z \in Seq(V) /\ Len(x) = n2 /\ Len(y) = n5 /\ Len(z) = n6
  <2>1. \A b \in {2, 5, 6} : BandMsgs(caps, b) \in Seq(V) /\ Len(BandMsgs(caps, b)) = Cnt(caps, b)
    BY <1>1, Zenon
  <2>2. x \in Seq(V) /\ Len(x) = n2
    BY <2>1
  <2>3. y \in Seq(V) /\ Len(y) = n5
    BY <2>1
  <2>4. z \in Seq(V) /\ Len(z) = n6
    BY <2>1
  <2> QED BY <2>2, <2>3, <2>4
<1>7. n2 \in Nat /\ n5 \in Nat /\ n6 \in Nat
  BY DEF Cnt, CntOf
<1> DEFINE u == x \o y
           w == u \o z
<1> HIDE DEF x, y, z
<1>4. u \in Seq(V) /\ Joined(u, x, y)
  BY <1>3, Concat
<1> HIDE DEF u
<1>5. w \in Seq(V) /\ Joined(w, u, z)
  BY <1>3, <1>4, Concat
<1>6. w = AllBands(caps)
  BY <1>2 DEF u
<1> HIDE DEF w
<1> HIDE DEF n2, n5, n6
<1>8. /\ Len(u) = n2 + n5 /\ Len(w) = n2 + n5 + n6
      /\ \A k \in 1 .. n2 : u[k] = x[k]
      /\ \A k \in 1 .. n5 : u[n2 + k] = y[k]
      /\ \A k \in 1 .. n2 + n5 : w[k] = u[k]
      /\ \A k \in 1 .. n6 : w[n2 + n5 + k] = z[k]
  BY <1>3, <1>4, <1>5 DEF Joined
<1>9. Sum(caps) = n2 + n5 + n6 /\ Off(caps, 2) = 0 /\ Off(caps, 5) = n2 /\ Off(caps, 6) = n2 + n5
  BY DEF Sum, Off, n2, n5, n6
<1>10. ASSUME NEW b \in caps, NEW k \in 1 .. CntOf(b)
       PROVE  Off(caps, b) + k \in 1 .. Sum(caps) /\ w[Off(caps, b) + k] = PowerBatch(caps, b, k)
  <2>1. b \in {2, 5, 6} /\ CntOf(b) = Cnt(caps, b)
    BY LastIs DEF Cnt
  <2>2. BandMsgs(caps, b)[k] = PowerBatch(caps, b, k)
    BY <1>0
  <2>3. CASE b = 2
    <3>1. k \in 1 .. n2 /\ k \in 1 .. n2 + n5 /\ 0 + k = k /\ k \in 1 .. n2 + n5 + n6
      BY <1>7, <2>1, <2>3 DEF n2
    <3>2. w[k] = x[k] /\ x[k] = PowerBatch(caps, b, k)
      BY <1>8, <2>2, <2>3, <3>1 DEF x
    <3> QED BY <1>9, <2>3, <3>1, <3>2
  <2>4. CASE b = 5
    <3>1. k \in 1 .. n5 /\ n2 + k \in 1 .. n2 + n5 /\ n2 + k \in 1 .. n2 + n5 + n6
      BY <1>7, <2>1, <2>4 DEF n5
    <3>2. w[n2 + k] = y[k] /\ y[k] = PowerBatch(caps, b, k)
      BY <1>8, <2>2, <2>4, <3>1 DEF y
    <3> QED BY <1>9, <2>4, <3>1, <3>2
  <2>5. CASE b = 6
    <3>1. k \in 1 .. n6 /\ n2 + n5 + k \in 1 .. n2 + n5 + n6
      BY <1>7, <2>1, <2>5 DEF n6
    <3>2. w[n2 + n5 + k] = z[k] /\ z[k] = PowerBatch(caps, b, k)
      BY <1>8, <2>2, <2>5, <3>1 DEF z
    <3> QED BY <1>9, <2>5, <3>1, <3>2
  <2> QED BY <2>1, <2>3, <2>4, <2>5
<1> QED BY <1>5, <1>6, <1>7, <1>8, <1>9, <1>10 DEF V

\* Every batch is one of a band, and of no other.
LEMMA BatchAt ==
  ASSUME NEW caps \in CapsInput, NEW j \in 1 .. Sum(caps)
  PROVE  \E b \in caps : \E k \in 1 .. CntOf(b) :
           /\ j = Off(caps, b) + k /\ AllBands(caps)[j] = PowerBatch(caps, b, k)
           /\ \A c \in {2, 5, 6} : c # b => j <= Off(caps, c) \/ j > Off(caps, c) + Cnt(caps, c)
<1> DEFINE n2 == Cnt(caps, 2)
           n5 == Cnt(caps, 5)
           n6 == Cnt(caps, 6)
<1>1. /\ n2 \in Nat /\ n5 \in Nat /\ n6 \in Nat
      /\ n2 > 0 => 2 \in caps /\ n2 = CntOf(2)
      /\ n5 > 0 => 5 \in caps /\ n5 = CntOf(5)
      /\ n6 > 0 => 6 \in caps /\ n6 = CntOf(6)
  BY DEF Cnt, CntOf
<1>2. Sum(caps) = n2 + n5 + n6 /\ Off(caps, 2) = 0 /\ Off(caps, 5) = n2 /\ Off(caps, 6) = n2 + n5
  BY DEF Sum, Off
<1> HIDE DEF n2, n5, n6
<1>3. CASE j <= n2
  <2>1. 2 \in caps /\ j \in 1 .. CntOf(2) /\ j = Off(caps, 2) + j
    BY <1>1, <1>2, <1>3
  <2>2. \A c \in {2, 5, 6} : c # 2 => j <= Off(caps, c)
    BY <1>1, <1>2, <1>3
  <2>3. AllBands(caps)[j] = PowerBatch(caps, 2, j)
    BY <2>1, BandsInOrder
  <2> QED BY <2>1, <2>2, <2>3
<1>4. CASE j > n2 /\ j <= n2 + n5
  <2>1. PICK k \in Nat : k = j - n2
    BY <1>1, <1>4
  <2>2. 5 \in caps /\ k \in 1 .. CntOf(5) /\ j = Off(caps, 5) + k
    BY <1>1, <1>2, <1>4, <2>1
  <2>3. \A c \in {2, 5, 6} : c # 5 => j <= Off(caps, c) \/ j > Off(caps, c) + Cnt(caps, c)
    BY <1>1, <1>2, <1>4 DEF n2
  <2>4. AllBands(caps)[j] = PowerBatch(caps, 5, k)
    BY <2>2, BandsInOrder
  <2> QED BY <2>2, <2>3, <2>4
<1>5. CASE j > n2 + n5
  <2>1. PICK k \in Nat : k = j - (n2 + n5)
    BY <1>1, <1>5
  <2>2. 6 \in caps /\ k \in 1 .. CntOf(6) /\ j = Off(caps, 6) + k
    BY <1>1, <1>2, <1>5, <2>1
  <2>3. \A c \in {2, 5, 6} : c # 6 => j > Off(caps, c) + Cnt(caps, c)
    BY <1>1, <1>2, <1>5 DEF n2, n5
  <2>4. AllBands(caps)[j] = PowerBatch(caps, 6, k)
    BY <2>2, BandsInOrder
  <2> QED BY <2>2, <2>3, <2>4
<1>6. j \in Nat /\ (j <= n2 \/ (j > n2 /\ j <= n2 + n5) \/ j > n2 + n5)
  BY <1>1
<1> QED BY <1>3, <1>4, <1>5, <1>6

\* The batches of one band that are among the first m join to the start of its list.
CutAt(caps, b, j) == IF j <= Off(caps, b) THEN 0 ELSE CutOf(b, j - Off(caps, b))

LEMMA BandJoins ==
  ASSUME NEW caps \in CapsInput, NEW b \in {2, 5, 6}, NEW m \in 0 .. Sum(caps), NEW msgs,
         msgs = SubSeq(AllBands(caps), 1, m)
  PROVE  Flat(msgs, b) = IF b \in caps THEN SubSeq(ChanList(b), 1, CutAt(caps, b, m)) ELSE <<>>
<1> DEFINE bs == [k \in DOMAIN msgs |-> IF msgs[k].band = b THEN msgs[k].chans ELSE <<>>]
<1>1. /\ m \in Nat /\ Len(msgs) = m /\ DOMAIN msgs = 1 .. m
      /\ \A j \in 1 .. m : j \in 1 .. Sum(caps) /\ msgs[j] = AllBands(caps)[j]
  <2> DEFINE s == AllBands(caps)
             V == Batches(caps)
  <2>1. s \in Seq(V) /\ Len(s) = Sum(caps) /\ Sum(caps) \in Nat
    BY BandsInOrder
  <2> HIDE DEF s, V
  <2>2. msgs = SubSeq(s, 1, m)
    BY DEF s
  <2>3. Len(msgs) = m /\ DOMAIN msgs = 1 .. m /\ m \in Nat
    BY <2>1, <2>2
  <2>4. \A j \in 1 .. m : j \in 1 .. Sum(caps) /\ msgs[j] = s[j]
    BY <2>1, <2>2
  <2> QED BY <2>3, <2>4 DEF s
<1>2. Flat(msgs, b) = FlattenSeq(bs)
  BY DEF Flat
<1>3. \A j \in 1 .. m : bs[j] = IF msgs[j].band = b THEN msgs[j].chans ELSE <<>>
  BY <1>1
<1>4. DOMAIN bs = 1 .. m /\ bs = [j \in 1 .. m |-> bs[j]]
  BY <1>1
<1> HIDE DEF bs
<1>5. CASE b \in caps
  <2> DEFINE s == ChanList(b)
             n == LenOf(b)
             off == Off(caps, b)
             g == [j \in 0 .. m |-> CutAt(caps, b, j)]
  <2>1. n \in Nat /\ s \in Seq(Nat) /\ Len(s) = n /\ off \in Nat /\ n <= 8 * CntOf(b) /\ CntOf(b) \in Nat
    <3>1. s \in Seq(Nat) /\ Len(s) = n
      BY BandsAre DEF Rises
    <3>2. n \in Nat /\ n <= 8 * CntOf(b) /\ CntOf(b) \in Nat
      BY DEF LenOf, CntOf
    <3>3. Cnt(caps, 2) \in Nat /\ Cnt(caps, 5) \in Nat
      BY DEF Cnt, CntOf
    <3>4. off \in Nat
      <4> HIDE DEF s, n
      <4> QED BY <3>3 DEF Off
    <3> QED BY <3>1, <3>2, <3>4
  <2>2. \A j \in 0 .. m : g[j] = IF j <= off THEN 0 ELSE LeastOf(8 * (j - off), n)
    BY DEF CutAt, CutOf
  <2>3. g = [j \in 0 .. m |-> g[j]]
    OBVIOUS
  <2> HIDE DEF s, n, off, g
  <2>4. \A j \in 0 .. m : g[j] \in 0 .. n
    <3> TAKE j \in 0 .. m
    <3>1. j \in Nat
      BY <1>1
    <3>2. CASE j <= off
      BY <2>1, <2>2, <3>2
    <3>3. CASE j > off
      <4>1. g[j] = LeastOf(8 * (j - off), n)
        BY <2>1, <2>2, <3>1, <3>3
      <4>2. 8 * (j - off) \in Nat
        BY <2>1, <3>1, <3>3
      <4> QED BY <2>1, <4>1, <4>2 DEF LeastOf
    <3> QED BY <2>1, <3>1, <3>2, <3>3
  <2>5. g \in [0 .. m -> 0 .. Len(s)] /\ g[0] = 0
    <3>1. 0 \in 0 .. m /\ 0 <= off
      BY <1>1, <2>1
    <3> QED BY <2>1, <2>2, <2>3, <2>4, <3>1
  <2>6. \A j \in 1 .. m : g[j - 1] <= g[j]
    <3> TAKE j \in 1 .. m
    <3>1. j \in 0 .. m /\ j - 1 \in 0 .. m
      BY <1>1
    <3> QED BY <1>1, <2>1, <2>2, <3>1 DEF LeastOf
  <2>7. ASSUME NEW j \in 1 .. m PROVE bs[j] \in Seq(Nat) /\ bs[j] = SubSeq(s, g[j - 1] + 1, g[j])
    <3>1. PICK c \in caps : \E k \in 1 .. CntOf(c) :
           /\ j = Off(caps, c) + k /\ AllBands(caps)[j] = PowerBatch(caps, c, k)
           /\ \A d \in {2, 5, 6} : d # c => j <= Off(caps, d) \/ j > Off(caps, d) + Cnt(caps, d)
      BY <1>1, BatchAt
    <3>2. PICK k \in 1 .. CntOf(c) :
           /\ j = Off(caps, c) + k /\ AllBands(caps)[j] = PowerBatch(caps, c, k)
           /\ \A d \in {2, 5, 6} : d # c => j <= Off(caps, d) \/ j > Off(caps, d) + Cnt(caps, d)
      BY <3>1
    <3>3. /\ msgs[j].band = c
          /\ msgs[j].chans = SubSeq(ChanList(c), CutOf(c, k - 1) + 1, CutOf(c, k))
      <4>1. msgs[j] = PowerBatch(caps, c, k)
        BY <1>1, <3>2
      <4> QED BY <4>1, BatchIs
    <3>4. j \in 0 .. m /\ j - 1 \in 0 .. m /\ j \in Nat /\ j >= 1
      BY <1>1
    <3>5. g[j - 1] \in 0 .. n /\ g[j] \in 0 .. n
      BY <2>4, <3>4
    <3>6. SubSeq(s, g[j - 1] + 1, g[j]) \in Seq(Nat)
      <4>1. PICK a \in 0 .. n : a = g[j - 1]
        BY <3>5
      <4>2. PICK h \in 0 .. n : h = g[j]
        BY <3>5
      <4>3. a \in Nat /\ h \in Nat /\ a + 1 \in 1 .. n + 1
        BY <2>1
      <4>4. CASE a + 1 <= h
        <5>1. a + 1 \in 1 .. Len(s) /\ h \in 1 .. Len(s)
          BY <2>1, <4>3, <4>4
        <5>2. SubSeq(s, a + 1, h) \in Seq(Nat)
          BY <2>1, <5>1
        <5> QED BY <4>1, <4>2, <5>2
      <4>5. CASE a + 1 > h
        <5>1. SubSeq(s, a + 1, h) = <<>>
          BY <2>1, <4>3, <4>5
        <5>2. <<>> \in Seq(Nat)
          OBVIOUS
        <5> QED BY <4>1, <4>2, <5>1, <5>2
      <4> QED BY <4>3, <4>4, <4>5
    <3>7. CASE c = b
      <4>1. j = off + k /\ k \in Nat /\ k >= 1
        BY <2>1, <3>2, <3>7 DEF off
      <4>2. g[j] = CutOf(b, k)
        BY <2>1, <2>2, <3>4, <4>1 DEF CutOf, n
      <4>3. g[j - 1] = CutOf(b, k - 1)
        <5>1. j - 1 = off + (k - 1)
          BY <2>1, <4>1
        <5>2. CASE k = 1
          <6>1. g[j - 1] = 0
            BY <2>1, <2>2, <3>4, <5>1, <5>2
          <6>2. LeastOf(8 * (k - 1), n) = 0
            BY <2>1, <5>2 DEF LeastOf
          <6> QED BY <6>1, <6>2 DEF CutOf, n
        <5>3. CASE k # 1
          <6>1. ~(j - 1 <= off) /\ (j - 1) - off = k - 1
            BY <2>1, <4>1, <5>1, <5>3
          <6> QED BY <2>2, <3>4, <6>1 DEF CutOf, n
        <5> QED BY <5>2, <5>3
      <4> QED BY <1>3, <3>3, <3>6, <3>7, <4>2, <4>3 DEF s
    <3>8. CASE c # b
      <4>1. bs[j] = <<>>
        BY <1>3, <3>3, <3>8
      <4>2. g[j - 1] = g[j]
        <5>1. j <= off \/ j > off + CntOf(b)
          BY <1>5, <3>2, <3>8 DEF off, Cnt
        <5>2. CASE j <= off
          BY <2>1, <2>2, <3>4, <5>2
        <5>3. CASE j > off + CntOf(b)
          <6>0. PICK cnt \in Nat : cnt = CntOf(b) /\ n <= 8 * cnt
            BY <2>1
          <6>1. j > off /\ 8 * (j - off) >= n
            BY <2>1, <3>4, <5>3, <6>0
          <6>2. g[j] = n
            <7>1. g[j] = LeastOf(8 * (j - off), n)
              BY <2>1, <2>2, <3>4, <6>1
            <7>2. 8 * (j - off) \in Nat
              BY <2>1, <3>4, <6>1
            <7> QED BY <2>1, <6>1, <7>1, <7>2 DEF LeastOf
          <6>3. CASE j - 1 = off
            <7>1. cnt = 0
              BY <2>1, <3>4, <5>3, <6>0, <6>3
            <7>2. n = 0
              BY <2>1, <6>0, <7>1
            <7> QED BY <2>1, <2>2, <3>4, <6>2, <6>3, <7>2
          <6>4. CASE j - 1 # off
            <7>1. j - 1 > off /\ 8 * ((j - 1) - off) >= n
              BY <2>1, <3>4, <5>3, <6>0, <6>4
            <7>2. g[j - 1] = n
              <8>1. g[j - 1] = LeastOf(8 * ((j - 1) - off), n)
                BY <2>1, <2>2, <3>4, <7>1
              <8>2. 8 * ((j - 1) - off) \in Nat
                BY <2>1, <3>4, <7>1
              <8> QED BY <2>1, <7>1, <8>1, <8>2 DEF LeastOf
            <7> QED BY <6>2, <7>2
          <6> QED BY <6>3, <6>4
        <5> QED BY <5>1, <5>2, <5>3
      <4>3. SubSeq(s, g[j] + 1, g[j]) = <<>>
        BY <2>1, <3>5
      <4> QED BY <3>6, <4>1, <4>2, <4>3
    <3> QED BY <3>7, <3>8
  <2>8. bs \in [1 .. m -> Seq(Nat)]
    BY <1>4, <2>7
  <2>9. FlattenSeq(bs) = SubSeq(s, 1, g[m])
    BY <1>1, <2>1, <2>5, <2>6, <2>7, <2>8, CutsJoin
  <2>10. g[m] = CutAt(caps, b, m)
    BY <1>1 DEF g
  <2> QED BY <1>2, <1>5, <2>9, <2>10 DEF s
<1>6. CASE b \notin caps
  <2> DEFINE g == [j \in 0 .. m |-> 0]
             s == <<>>
  <2>1. \A j \in 1 .. m : bs[j] = <<>>
    <3> TAKE j \in 1 .. m
    <3>1. PICK c \in caps : \E k \in 1 .. CntOf(c) : AllBands(caps)[j] = PowerBatch(caps, c, k)
      BY <1>1, BatchAt
    <3>2. PICK k \in 1 .. CntOf(c) : AllBands(caps)[j] = PowerBatch(caps, c, k)
      BY <3>1
    <3>3. msgs[j].band = c
      <4>1. msgs[j] = PowerBatch(caps, c, k)
        BY <1>1, <3>2
      <4> QED BY <4>1, BatchIs
    <3> QED BY <1>3, <1>6, <3>3
  <2>2. s \in Seq(Nat) /\ Len(s) = 0 /\ SubSeq(s, 1, 0) = <<>> /\ <<>> \in Seq(Nat)
    OBVIOUS
  <2>0. s \in Seq(Nat)
    OBVIOUS
  <2>3. \A j \in 0 .. m : g[j] = 0
    OBVIOUS
  <2>4. g \in [0 .. m -> 0 .. Len(s)]
    BY <2>2
  <2> HIDE DEF g
  <2>5. g[0] = 0 /\ g[m] = 0 /\ \A j \in 1 .. m : g[j - 1] = 0 /\ g[j] = 0
    <3>1. 0 \in 0 .. m /\ m \in 0 .. m /\ \A j \in 1 .. m : j \in 0 .. m /\ j - 1 \in 0 .. m
      BY <1>1
    <3> QED BY <2>3, <3>1
  <2>6. \A j \in 1 .. m : bs[j] \in Seq(Nat)
    BY <2>1, <2>2
  <2>7. bs \in [1 .. m -> Seq(Nat)]
    BY <1>4, <2>6
  <2>8. \A j \in 1 .. m : g[j - 1] <= g[j]
    BY <2>5
  <2>9. \A j \in 1 .. m : bs[j] = SubSeq(s, g[j - 1] + 1, g[j])
    <3> TAKE j \in 1 .. m
    <3>1. g[j - 1] + 1 = 1 /\ g[j] = 0
      BY <2>5
    <3> QED BY <2>1, <2>2, <3>1
  <2> HIDE DEF s
  <2>10. FlattenSeq(bs) = SubSeq(s, 1, g[m])
    BY <1>1, <2>0, <2>4, <2>5, <2>7, <2>8, <2>9, CutsJoin
  <2> QED BY <1>2, <1>6, <2>2, <2>5, <2>10
<1> QED BY <1>5, <1>6

\* A part from the start of a sequence is a prefix of it.
LEMMA CutIsPrefix ==
  ASSUME NEW V, NEW s \in Seq(V), NEW a \in 0 .. Len(s)
  PROVE  IsPrefix(SubSeq(s, 1, a), s) /\ Len(SubSeq(s, 1, a)) = a
<1> DEFINE t == SubSeq(s, 1, a)
<1>1. a \in Nat /\ Len(s) \in Nat /\ a <= Len(s)
  OBVIOUS
<1>2. t \in Seq(V) /\ Len(t) = a /\ \A k \in 1 .. a : t[k] = s[k]
  BY <1>1
<1>3. SubSeq(t, 1, a) = t
  <2> HIDE DEF t
  <2> QED BY <1>1, <1>2
<1> QED BY <1>1, <1>2, <1>3 DEF IsPrefix

\* The last batch is the last one of the highest band.
LEMMA TopIsLast ==
  ASSUME NEW caps \in CapsInput
  PROVE  /\ Off(caps, TopOf(caps)) + CntOf(TopOf(caps)) = Sum(caps) /\ Sum(caps) >= 1
         /\ Cnt(caps, TopOf(caps)) = CntOf(TopOf(caps)) /\ CntOf(TopOf(caps)) >= 1
         /\ Off(caps, TopOf(caps)) \in Nat
<1>1. TopOf(caps) \in caps
  BY LastIs
<1>2. Cnt(caps, 2) \in Nat /\ Cnt(caps, 5) \in Nat
  BY DEF Cnt, CntOf
<1>3. CASE 6 \in caps
  <2>1. TopOf(caps) = 6 /\ Cnt(caps, 6) = CntOf(6) /\ CntOf(6) = 14
    BY <1>3 DEF TopOf, Cnt, CntOf
  <2> QED BY <1>2, <2>1 DEF Off, Sum
<1>4. CASE 6 \notin caps /\ 5 \in caps
  <2>1. TopOf(caps) = 5 /\ Cnt(caps, 6) = 0 /\ Cnt(caps, 5) = CntOf(5) /\ CntOf(5) = 6
    BY <1>4 DEF TopOf, Cnt, CntOf
  <2> QED BY <1>2, <2>1 DEF Off, Sum
<1>5. CASE 6 \notin caps /\ 5 \notin caps
  <2>1. TopOf(caps) = 2 /\ Cnt(caps, 6) = 0 /\ Cnt(caps, 5) = 0 /\ Cnt(caps, 2) = CntOf(2) /\ CntOf(2) = 2
    BY <1>1, <1>5 DEF TopOf, Cnt, CntOf
  <2> QED BY <1>2, <2>1 DEF Off, Sum
<1> QED BY <1>3, <1>4, <1>5

\* How much of a band's list the first m batches hold.
LEMMA CutAtIs ==
  ASSUME NEW caps \in CapsInput, NEW b \in caps, NEW m \in 0 .. Sum(caps)
  PROVE  CutAt(caps, b, m) \in 0 .. LenOf(b) /\ (m = Sum(caps) => CutAt(caps, b, m) = LenOf(b))
<1> DEFINE n == LenOf(b)
           off == Off(caps, b)
<1>1. b \in {2, 5, 6}
  BY LastIs
<1>2. n \in Nat /\ CntOf(b) \in Nat /\ CntOf(b) >= 1 /\ n <= 8 * CntOf(b) /\ Cnt(caps, b) = CntOf(b)
  BY <1>1 DEF LenOf, CntOf, Cnt
<1>3. Cnt(caps, 2) \in Nat /\ Cnt(caps, 5) \in Nat /\ Cnt(caps, 6) \in Nat
  BY DEF Cnt, CntOf
<1>4. off \in Nat /\ off + CntOf(b) <= Sum(caps) /\ Sum(caps) \in Nat
  <2>1. CASE b = 2
    BY <1>2, <1>3, <2>1 DEF Off, Sum
  <2>2. CASE b = 5
    BY <1>2, <1>3, <2>2 DEF Off, Sum
  <2>3. CASE b = 6
    BY <1>2, <1>3, <2>3 DEF Off, Sum
  <2> QED BY <1>1, <2>1, <2>2, <2>3
<1> HIDE DEF n, off
<1>5. m \in Nat /\ m <= Sum(caps)
  BY <1>4
<1>6. CASE m <= off
  <2>1. CutAt(caps, b, m) = 0
    BY <1>6 DEF CutAt, off
  <2>2. m # Sum(caps)
    BY <1>2, <1>4, <1>6
  <2> QED BY <1>2, <2>1, <2>2 DEF n
<1>7. CASE m > off
  <2>1. CutAt(caps, b, m) = LeastOf(8 * (m - off), n)
    BY <1>4, <1>5, <1>7 DEF CutAt, CutOf, off, n
  <2>2. 8 * (m - off) \in Nat
    BY <1>4, <1>5, <1>7
  <2>3. m = Sum(caps) => 8 * (m - off) >= n
    BY <1>2, <1>4
  <2>4. LeastOf(8 * (m - off), n) \in 0 .. n /\ (8 * (m - off) >= n => LeastOf(8 * (m - off), n) = n)
    BY <1>2, <2>2 DEF LeastOf
  <2> QED BY <2>1, <2>3, <2>4 DEF n
<1> QED BY <1>4, <1>5, <1>6, <1>7

\* The power table is sent whole, or up to the message that failed.
LEMMA PowerSent ==
  ASSUME NEW caps \in CapsInput, NEW fails \in Nat \ {0}, NEW in, in.caps = caps, in.fails = fails,
         NEW msgs, msgs = SetRateTxPower(caps, fails)
  PROVE  SentPower(in, msgs)
<1> DEFINE s == AllBands(caps)
           V == Batches(caps)
           m == LeastOf(fails, Sum(caps))
<1>1. s \in Seq(V) /\ Len(s) = Sum(caps) /\ Sum(caps) \in Nat /\ Sum(caps) >= 1
  BY BandsInOrder, TopIsLast
<1>2. m \in 1 .. Sum(caps) /\ (m < fails => m = Sum(caps))
  <2> HIDE DEF s, V
  <2> QED BY <1>1 DEF LeastOf
<1>3. msgs = SubSeq(s, 1, m)
  BY <1>1 DEF SetRateTxPower
<1> HIDE DEF s, V, m
<1>4. Len(msgs) = m /\ DOMAIN msgs = 1 .. m /\ m \in Nat /\ m >= 1
  BY <1>1, <1>2, <1>3
<1>5. \A j \in 1 .. m : j \in 1 .. Sum(caps) /\ msgs[j] = s[j]
  BY <1>1, <1>2, <1>3
<1>6. ASSUME NEW j \in 1 .. m
      PROVE  /\ msgs[j].n \in 1 .. BatchLen /\ Len(msgs[j].chans) = msgs[j].n
             /\ msgs[j].last <=> j = Sum(caps)
  <2>1. PICK c \in caps : \E k \in 1 .. CntOf(c) :
         /\ j = Off(caps, c) + k /\ AllBands(caps)[j] = PowerBatch(caps, c, k)
         /\ \A d \in {2, 5, 6} : d # c => j <= Off(caps, d) \/ j > Off(caps, d) + Cnt(caps, d)
    BY <1>5, BatchAt
  <2>2. PICK k \in 1 .. CntOf(c) :
         /\ j = Off(caps, c) + k /\ AllBands(caps)[j] = PowerBatch(caps, c, k)
         /\ \A d \in {2, 5, 6} : d # c => j <= Off(caps, d) \/ j > Off(caps, d) + Cnt(caps, d)
    BY <2>1
  <2>3. msgs[j] = PowerBatch(caps, c, k)
    BY <1>5, <2>2 DEF s
  <2>4. /\ msgs[j].n \in 1 .. BatchLen /\ Len(msgs[j].chans) = msgs[j].n
        /\ msgs[j].last <=> c = TopOf(caps) /\ k = CntOf(c)
    BY <2>3, BatchIs
  <2> DEFINE top == TopOf(caps)
  <2>5. /\ Off(caps, top) + CntOf(top) = Sum(caps) /\ Cnt(caps, top) = CntOf(top) /\ CntOf(top) >= 1
        /\ Off(caps, top) \in Nat /\ top \in {2, 5, 6} /\ CntOf(top) \in Nat
    <3>1. top \in {2, 5, 6}
      BY DEF TopOf
    <3>2. CntOf(top) \in Nat
      BY DEF CntOf
    <3> QED BY <3>1, <3>2, TopIsLast
  <2> HIDE DEF top
  <2>6. k \in Nat /\ j \in Nat
    <3>1. CntOf(c) \in Nat
      BY DEF CntOf
    <3> QED BY <1>4, <3>1
  <2>7. CASE c = top
    BY <2>2, <2>4, <2>5, <2>6, <2>7 DEF top
  <2>8. CASE c # top
    <3>1. j <= Off(caps, top) \/ j > Off(caps, top) + CntOf(top)
      BY <2>2, <2>5, <2>8
    <3>2. j # Sum(caps)
      BY <1>1, <1>5, <2>5, <2>6, <3>1
    <3> QED BY <2>4, <2>8, <3>2 DEF top
  <2> QED BY <2>4, <2>7, <2>8
<1>7. ASSUME NEW b \in {2, 5, 6}
      PROVE  /\ IsPrefix(Flat(msgs, b), IF b \in caps THEN ChanList(b) ELSE <<>>)
             /\ b \in caps /\ m = Sum(caps) => Flat(msgs, b) = ChanList(b)
  <2>1. Flat(msgs, b) = IF b \in caps THEN SubSeq(ChanList(b), 1, CutAt(caps, b, m)) ELSE <<>>
    <3>1. m \in 0 .. Sum(caps)
      BY <1>1, <1>2
    <3>2. msgs = SubSeq(AllBands(caps), 1, m)
      BY <1>3 DEF s
    <3>3. \A k \in 0 .. Sum(caps) : \A x : x = SubSeq(AllBands(caps), 1, k) =>
            Flat(x, b) = IF b \in caps THEN SubSeq(ChanList(b), 1, CutAt(caps, b, k)) ELSE <<>>
      BY BandJoins
    <3> QED BY <3>1, <3>2, <3>3
  <2>2. CASE b \in caps
    <3> DEFINE l == ChanList(b)
               a == CutAt(caps, b, m)
    <3>1. l \in Seq(Nat) /\ Len(l) = LenOf(b)
      BY BandsAre DEF Rises
    <3>2. a \in 0 .. Len(l) /\ (m = Sum(caps) => a = Len(l))
      <4>1. m \in 0 .. Sum(caps)
        BY <1>1, <1>2
      <4> QED BY <2>2, <3>1, <4>1, CutAtIs
    <3>3. Flat(msgs, b) = SubSeq(l, 1, a)
      BY <2>1, <2>2
    <3> HIDE DEF l, a
    <3>4. IsPrefix(SubSeq(l, 1, a), l)
      BY <3>1, <3>2, CutIsPrefix
    <3>5. SubSeq(l, 1, Len(l)) = l
      BY <3>1
    <3> QED BY <2>2, <3>2, <3>3, <3>4, <3>5 DEF l
  <2>3. CASE b \notin caps
    <3>1. IsPrefix(<<>>, <<>>)
      BY DEF IsPrefix
    <3> QED BY <2>1, <2>3, <3>1
  <2> QED BY <2>2, <2>3
<1>8. \A k \in DOMAIN msgs : msgs[k].last => k = Len(msgs)
  BY <1>1, <1>2, <1>4, <1>6
<1>9. ASSUME Len(msgs) < fails
      PROVE  (\A b \in caps : Flat(msgs, b) = ChanList(b)) /\ msgs[Len(msgs)].last
  <2>1. m = Sum(caps) /\ m \in 1 .. m
    BY <1>2, <1>4, <1>9
  <2>2. \A b \in caps : b \in {2, 5, 6}
    BY LastIs
  <2> QED BY <1>4, <1>6, <1>7, <2>1, <2>2
<1>10. /\ \A k \in DOMAIN msgs : msgs[k].n \in 1 .. BatchLen /\ Len(msgs[k].chans) = msgs[k].n
       /\ \A b \in {2, 5, 6} : IsPrefix(Flat(msgs, b), IF b \in caps THEN ChanList(b) ELSE <<>>)
  BY <1>4, <1>6, <1>7
<1> QED BY <1>8, <1>9, <1>10 DEF SentPower

-----------------------------------------------------------------------------
(* Scans and RNR tables.                                                   *)

\* Sequences of the same elements are the same.
LEMMA SameElements ==
  ASSUME NEW V, NEW s \in Seq(V), NEW t \in Seq(V), Len(s) = Len(t), \A k \in 1 .. Len(s) : s[k] = t[k]
  PROVE  s = t
<1>1. s = [k \in 1 .. Len(s) |-> s[k]] /\ t = [k \in 1 .. Len(t) |-> t[k]]
  OBVIOUS
<1> QED BY <1>1

\* A scan asks for what it was asked.
LEMMA ScanAsks ==
  ASSUME NEW req \in ScanInput, NEW m, m = HwScanReq(req)
  PROVE  AsksFor(req, m)
<1> DEFINE s == req.chans
           n == Len(s)
           c == ScanChannels(s)
           ext == [k \in 1 .. c.ext |-> s[32 + k]]
<1>1. s \in Seq(Nat) /\ n \in Nat /\ req.seq \in 0 .. 127
  <2>1. s \in Seq(Nat) /\ req.seq \in 0 .. 127
    BY DEF ScanInput
  <2> HIDE DEF s
  <2> QED BY <2>1
<1>2. /\ m.seq = NextSeqNum(req.seq) /\ m.type = c.type /\ m.chans = SubSeq(s, 1, c.main) /\ m.ext = ext
      /\ m.wildcard = (NamedSsids(req.ssids) = <<>>) /\ m.ssids = NamedSsids(req.ssids)
  BY DEF HwScanReq
<1>3. m.seq \in 0 .. 127 /\ m.seq # req.seq
  <2>1. PICK x \in 0 .. 127 : x = req.seq
    BY <1>1
  <2>2. m.seq = (x + 1) % 128
    BY <1>2, <2>1 DEF NextSeqNum
  <2>3. CASE x = 127
    <3>1. (x + 1) % 128 = 0
      BY <2>3
    <3> QED BY <2>1, <2>2, <2>3, <3>1
  <2>4. CASE x # 127
    <3>1. (x + 1) % 128 = x + 1
      BY <2>4
    <3> QED BY <2>1, <2>2, <2>4, <3>1
  <2> QED BY <2>3, <2>4
<1>4. IF n \in 1 .. 64
      THEN /\ c.type = 4 /\ c.main = LeastOf(n, 32)
           /\ c.ext = LeastOf(IF n > 32 THEN n - 32 ELSE 0, 32)
      ELSE c.type = 0 /\ c.main = 0 /\ c.ext = 0
  BY DEF ScanChannels
<1> HIDE DEF s, n, c
<1>5. PICK p \in 0 .. 32, q \in 0 .. 32 :
        /\ c.main = p /\ c.ext = q /\ p <= n
        /\ n \in 1 .. 64 => c.type = 4 /\ p + q = n /\ (q > 0 => p = 32)
        /\ n \notin 1 .. 64 => c.type = 0 /\ p = 0 /\ q = 0
  <2>1. CASE n \in 1 .. 32
    <3>1. c.type = 4 /\ c.main = n /\ c.ext = 0
      BY <1>4, <2>1 DEF LeastOf
    <3> QED BY <1>1, <2>1, <3>1
  <2>2. CASE n \in 33 .. 64
    <3>1. c.type = 4 /\ c.main = 32 /\ c.ext = n - 32
      BY <1>4, <2>2 DEF LeastOf
    <3> QED BY <1>1, <2>2, <3>1
  <2>3. CASE n \notin 1 .. 64
    <3>1. c.type = 0 /\ c.main = 0 /\ c.ext = 0
      BY <1>4, <2>3
    <3> QED BY <1>1, <2>3, <3>1
  <2>4. n \in 1 .. 32 \/ n \in 33 .. 64 \/ n \notin 1 .. 64
    BY <1>1
  <2> QED BY <2>1, <2>2, <2>3, <2>4
<1>6. p \in Nat /\ q \in Nat
  OBVIOUS
<1> DEFINE main == SubSeq(s, 1, p)
           rest == [k \in 1 .. q |-> s[32 + k]]
<1>7. m.chans = main /\ m.ext = rest
  BY <1>2, <1>5
<1>8. main \in Seq(Nat) /\ Len(main) = p /\ \A k \in 1 .. p : main[k] = s[k]
  BY <1>1, <1>5, <1>6 DEF n
<1>9. rest \in Seq(Nat) /\ Len(rest) = q /\ \A k \in 1 .. q : rest[k] = s[32 + k]
  <2>1. ASSUME NEW k \in 1 .. q PROVE s[32 + k] \in Nat
    <3>1. 32 + k \in 1 .. n
      BY <1>1, <1>5, <1>6
    <3> QED BY <1>1, <3>1 DEF n
  <2> QED BY <1>6, <2>1
<1> HIDE DEF main, rest
<1> DEFINE u == main \o rest
<1>10. u \in Seq(Nat) /\ Joined(u, main, rest)
  BY <1>8, <1>9, Concat
<1>11. Len(u) = p + q /\ (\A k \in 1 .. p : u[k] = main[k]) /\ (\A k \in 1 .. q : u[p + k] = rest[k])
  BY <1>8, <1>9, <1>10 DEF Joined
<1> HIDE DEF u
<1>12. m.chans \o m.ext = u /\ Len(m.chans) <= 32 /\ Len(m.ext) <= 32
  <2>1. m.chans \o m.ext = u
    BY <1>7 DEF u
  <2>2. p <= 32 /\ q <= 32
    BY <1>6
  <2> QED BY <1>7, <1>8, <1>9, <2>1, <2>2
<1>13. n \in 1 .. 64 => m.type = 4 /\ u = s
  <2> SUFFICES ASSUME n \in 1 .. 64 PROVE m.type = 4 /\ u = s
    OBVIOUS
  <2>1. m.type = 4 /\ p + q = n /\ (q > 0 => p = 32)
    BY <1>2, <1>5
  <2>2. ASSUME NEW k \in 1 .. n PROVE u[k] = s[k]
    <3>1. CASE k <= p
      <4>1. k \in 1 .. p
        BY <3>1
      <4> QED BY <1>8, <1>11, <4>1
    <3>2. CASE k > p
      <4>1. PICK j \in 1 .. q : k = p + j
        <5>1. k - p \in 1 .. q /\ k = p + (k - p)
          BY <1>6, <2>1, <3>2
        <5> QED BY <5>1
      <4>2. p = 32
        BY <1>6, <2>1, <4>1
      <4> QED BY <1>9, <1>11, <4>1, <4>2
    <3> QED BY <1>6, <3>1, <3>2
  <2>3. Len(u) = Len(s) /\ Len(s) \in Nat
    BY <1>1, <1>11, <2>1 DEF n
  <2>4. u = s
    BY <1>1, <1>10, <2>2, <2>3, SameElements DEF n
  <2> QED BY <2>1, <2>4
<1>14. n \notin 1 .. 64 => m.type = 0 /\ u = <<>>
  BY <1>2, <1>5, <1>10, <1>11
<1>15. /\ m.type = 4 <=> n \in 1 .. 64
       /\ m.type = 4 => m.chans \o m.ext = s
       /\ m.type = 0 => m.chans \o m.ext = <<>>
  <2>1. CASE n \in 1 .. 64
    <3>1. m.type = 4 /\ 4 # 0 /\ u = s
      BY <1>13, <2>1
    <3> QED BY <1>12, <2>1, <3>1
  <2>2. CASE n \notin 1 .. 64
    <3>1. m.type = 0 /\ 4 # 0 /\ u = <<>>
      BY <1>14, <2>2
    <3> QED BY <1>12, <2>2, <3>1
  <2> QED BY <2>1, <2>2
<1>16. m.wildcard <=> m.ssids = <<>>
  BY <1>2
<1> QED BY <1>3, <1>12, <1>15, <1>16 DEF AsksFor, s, n

\* A scan that is on refuses the next; one that is sent asks for what it was asked.
LEMMA ScanAnswers ==
  ASSUME NEW req \in ScanInput, NEW busy \in BOOLEAN, NEW sent \in BOOLEAN,
         NEW out, out = HwScanCmd(busy, sent, req)
  PROVE  /\ out.scanning <=> busy \/ sent
         /\ \A k \in DOMAIN out.msgs : AsksFor(req, out.msgs[k])
         /\ busy <=> out.msgs = <<>>
<1>1. CASE busy
  <2>1. out.scanning /\ out.msgs = <<>>
    BY <1>1 DEF HwScanCmd
  <2>2. DOMAIN <<>> = {}
    OBVIOUS
  <2> QED BY <1>1, <2>1, <2>2
<1>2. CASE ~busy
  <2>1. out.scanning = sent /\ out.msgs = <<HwScanReq(req)>>
    BY <1>2 DEF HwScanCmd
  <2> DEFINE m == HwScanReq(req)
  <2>2. AsksFor(req, m)
    BY ScanAsks
  <2> HIDE DEF m
  <2>3. DOMAIN <<m>> = {1} /\ <<m>>[1] = m /\ <<m>> # <<>>
    OBVIOUS
  <2> QED BY <1>2, <2>1, <2>2, <2>3 DEF m
<1> QED BY <1>1, <1>2

\* A scheduled scan has the channels it was asked for, up to 64 of them.
LEMMA SchedAsks ==
  ASSUME NEW req \in ScanInput, NEW m, m = SchedScanReq(req)
  PROVE  /\ IsPrefix(m.chans, req.chans) /\ Len(m.chans) = m.n
         /\ m.n < Len(req.chans) => m.n = 64
<1> DEFINE s == req.chans
           n == Len(s)
           a == LeastOf(n % 256, 64)
<1>1. s \in Seq(Nat) /\ n \in Nat /\ n < 256
  <2>1. s \in Seq(Nat) /\ n < 256
    BY DEF ScanInput
  <2> HIDE DEF s
  <2> QED BY <2>1
<1>2. m.n = a /\ m.chans = SubSeq(s, 1, a)
  BY DEF SchedScanReq
<1> HIDE DEF s
<1>3. a \in 0 .. n /\ (a < n => a = 64)
  <2> HIDE DEF n
  <2>1. n % 256 = n
    BY <1>1
  <2> QED BY <1>1, <2>1 DEF LeastOf
<1> HIDE DEF a
<1>4. IsPrefix(SubSeq(s, 1, a), s) /\ Len(SubSeq(s, 1, a)) = a
  BY <1>1, <1>3, CutIsPrefix
<1> QED BY <1>2, <1>3, <1>4 DEF s

\* One more element of a sequence, from a set that its elements and the others are in.
LEMMA AppendIs ==
  ASSUME NEW V, NEW t \in Seq(V), NEW x \in V
  PROVE  /\ Append(t, x) \in Seq(V) /\ Len(t) \in Nat /\ Len(Append(t, x)) = Len(t) + 1
         /\ \A k \in 1 .. Len(t) : Append(t, x)[k] = t[k]
         /\ Append(t, x)[Len(t) + 1] = x
OBVIOUS

\* The entry of each parameter of an RNR list, and what may be in a table.
RnrEntry(r, k) == [bssid |-> r.params[k].bssid, chan |-> r.chans[r.params[k].idx]]
RnrTables(r) == Seq({RnrEntry(r, k) : k \in 1 .. Len(r.params)})

\* One parameter adds its entry, or nothing.
LEMMA RnrAdds ==
  ASSUME NEW r \in RnrInput, NEW t \in RnrTables(r), NEW k \in 1 .. Len(r.params)
  PROVE  /\ RnrAdd(t, r.params[k], r.chans) \in RnrTables(r)
         /\ RnrAdd(t, r.params[k], r.chans)
              = IF Len(t) >= RnrMax \/ \E i \in 1 .. Len(t) : t[i].bssid = r.params[k].bssid
                THEN t ELSE Append(t, RnrEntry(r, k))
<1> DEFINE E == {RnrEntry(r, i) : i \in 1 .. Len(r.params)}
           e == RnrEntry(r, k)
<1>1. t \in Seq(E) /\ e \in E
  BY DEF RnrTables
<1>2. RnrAdd(t, r.params[k], r.chans)
        = IF Len(t) >= RnrMax \/ \E i \in DOMAIN t : t[i].bssid = r.params[k].bssid
          THEN t ELSE Append(t, e)
  BY DEF RnrAdd, RnrEntry
<1> HIDE DEF E, e
<1>3. DOMAIN t = 1 .. Len(t) /\ Append(t, e) \in Seq(E)
  BY <1>1
<1> QED BY <1>1, <1>2, <1>3 DEF RnrTables, E, e

\* A table is a run through the parameters.
LEMMA RnrRuns ==
  ASSUME NEW r \in RnrInput
  PROVE  \E h : /\ h[0] = <<>> /\ BuildRnr(r.params, r.chans) = h[Len(r.params)]
                /\ \A k \in 1 .. Len(r.params) : h[k] = RnrAdd(h[k - 1], r.params[k], r.chans)
<1> DEFINE ps == r.params
           n == Len(ps)
           V == RnrTables(r)
           step == [p \in (1 .. n) \X V |-> RnrAdd(p[2], ps[p[1]], r.chans)]
           Body(f) == [U \in SUBSET (1 .. n) |->
                         IF U = {} THEN <<>> ELSE RnrAdd(f[U \ {Max(U)}], ps[Max(U)], r.chans)]
           it == CHOOSE f : f = Body(f)
           h == [k \in 0 .. n |-> it[1 .. k]]
<1>1. n \in Nat /\ DOMAIN ps = 1 .. n
  <2>1. ps \in Seq([bssid : STRING, idx : Nat])
    BY DEF RnrInput
  <2> HIDE DEF ps
  <2> QED BY <2>1
<1>2. <<>> \in V /\ step \in [(1 .. n) \X V -> V]
  <2>1. <<>> \in V
    BY DEF RnrTables
  <2>2. \A t \in V : \A k \in 1 .. n : RnrAdd(t, ps[k], r.chans) \in V
    BY RnrAdds
  <2> HIDE DEF V, n, ps
  <2>3. ASSUME NEW p \in (1 .. n) \X V PROVE RnrAdd(p[2], ps[p[1]], r.chans) \in V
    <3>1. p[1] \in 1 .. n /\ p[2] \in V
      OBVIOUS
    <3> QED BY <2>2, <3>1
  <2> QED BY <2>1, <2>3
<1>3. PICK g : IsFold(g, n, V, <<>>, step)
  <2> DEFINE base == <<>>
  <2>1. base \in V
    BY <1>2
  <2> HIDE DEF step, V, n, base
  <2>2. \E g : IsFold(g, n, V, base, step)
    BY <1>1, <1>2, <2>1, FoldExists
  <2> QED BY <2>2 DEF base
<1>4. \A U \in SUBSET (1 .. n) : U # {} => Max(U) \in 1 .. n /\ U \ {Max(U)} \in SUBSET (1 .. n)
  BY <1>1, MaxIndex
<1>5. g = Body(g)
  <2>1. ASSUME NEW U \in SUBSET (1 .. n), U # {}
        PROVE  g[U] = RnrAdd(g[U \ {Max(U)}], ps[Max(U)], r.chans)
    <3> DEFINE T == U \ {Max(U)}
               m == Max(U)
    <3>1. m \in 1 .. n /\ T \in SUBSET (1 .. n)
      BY <1>4, <2>1
    <3>2. g[T] \in V /\ g[U] = step[<<m, g[T]>>]
      <4> HIDE DEF step, V
      <4> QED BY <1>3, <2>1, <3>1 DEF IsFold
    <3> HIDE DEF T, m, V, ps, n
    <3>3. g[U] = RnrAdd(g[T], ps[m], r.chans)
      BY <3>1, <3>2
    <3> QED BY <3>3 DEF T, m
  <2> HIDE DEF step, V, ps
  <2>2. g \in [SUBSET (1 .. n) -> V] /\ g[{}] = <<>>
    BY <1>1, <1>3, Prefix DEF IsFold
  <2> HIDE DEF n
  <2> QED BY <2>1, <2>2
<1>6. it = Body(it)
  BY <1>5
<1>7. BuildRnr(r.params, r.chans) = it[1 .. n]
  BY <1>1 DEF BuildRnr, FoldLeft, MapThenFoldSet
<1> HIDE DEF it, V, step, ps, n
<1>8. h[0] = <<>>
  BY <1>1, <1>6, Prefix
<1>9. ASSUME NEW k \in 1 .. n PROVE h[k] = RnrAdd(h[k - 1], ps[k], r.chans)
  <2>1. k \in 0 .. n /\ k - 1 \in 0 .. n
    BY <1>1
  <2>2. it[1 .. k] = RnrAdd(it[1 .. (k - 1)], ps[k], r.chans)
    <3>1. /\ 1 .. k \in SUBSET (1 .. n) /\ 1 .. k # {}
          /\ Max(1 .. k) = k /\ (1 .. k) \ {k} = 1 .. (k - 1)
      BY <1>1, Prefix
    <3>2. \A U \in SUBSET (1 .. n) : U # {} => it[U] = RnrAdd(it[U \ {Max(U)}], ps[Max(U)], r.chans)
      BY <1>6
    <3>3. it[1 .. k] = RnrAdd(it[(1 .. k) \ {Max(1 .. k)}], ps[Max(1 .. k)], r.chans)
      BY <3>1, <3>2
    <3> QED BY <3>1, <3>3
  <2>3. h[k] = it[1 .. k] /\ h[k - 1] = it[1 .. (k - 1)]
    BY <2>1
  <2> HIDE DEF h
  <2> QED BY <2>2, <2>3
<1>10. h[n] = it[1 .. n]
  BY <1>1
<1> HIDE DEF h
<1> QED BY <1>7, <1>8, <1>9, <1>10 DEF n, ps

\* A function that gives different values to different numbers has that many values.
LEMMA DistinctCount ==
  ASSUME NEW n \in Nat, NEW f, \A j, k \in 1 .. n : f[j] = f[k] => j = k
  PROVE  Cardinality({f[k] : k \in 1 .. n}) = n
<1> DEFINE S == {f[k] : k \in 1 .. n}
           g == [k \in 1 .. n |-> f[k]]
<1>1. g \in Bijection(1 .. n, S)
  <2>1. g \in [1 .. n -> S] /\ DOMAIN g = 1 .. n
    OBVIOUS
  <2>2. \A j, k \in 1 .. n : g[j] = g[k] => j = k
    OBVIOUS
  <2>3. \A x \in S : \E k \in 1 .. n : g[k] = x
    OBVIOUS
  <2> HIDE DEF g, S
  <2>4. g \in Injection(1 .. n, S)
    BY <2>1, <2>2 DEF Injection, IsInjective
  <2>5. g \in Surjection(1 .. n, S)
    BY <2>1, <2>3 DEF Surjection
  <2> QED BY <2>4, <2>5 DEF Bijection
<1>2. IsFiniteSet(1 .. n) /\ Cardinality(1 .. n) = n
  <2>1. IsFiniteSet(1 .. n) /\ Cardinality(1 .. n) = IF 1 > n THEN 0 ELSE n - 1 + 1
    BY FS_Interval
  <2> QED BY <2>1
<1> HIDE DEF g, S
<1>3. Cardinality(1 .. n) = Cardinality(S)
  BY <1>1, <1>2, FS_Bijection DEF ExistsBijection
<1> QED BY <1>2, <1>3 DEF S

\* The table after the first k parameters: no BSSID twice, none that nobody named, and
\* none left out while there is room.
RnrTable(r, k, t) ==
  /\ t \in RnrTables(r) /\ Len(t) <= RnrMax
  /\ \A i, j \in 1 .. Len(t) : t[i].bssid = t[j].bssid => i = j
  /\ \A i \in 1 .. Len(t) : \E l \in 1 .. k : t[i].bssid = r.params[l].bssid
  /\ Len(t) < RnrMax => \A l \in 1 .. k : \E i \in 1 .. Len(t) : t[i].bssid = r.params[l].bssid

\* One more parameter keeps the run.
LEMMA RnrGrows ==
  ASSUME NEW r \in RnrInput, NEW k \in 1 .. Len(r.params), NEW t, RnrTable(r, k - 1, t)
  PROVE  RnrTable(r, k, RnrAdd(t, r.params[k], r.chans))
<1> DEFINE b == r.params[k].bssid
           u == RnrAdd(t, r.params[k], r.chans)
           E == {RnrEntry(r, i) : i \in 1 .. Len(r.params)}
           e == RnrEntry(r, k)
           In(l) == r.params[l].bssid
<1>0. RnrMax \in Nat /\ t \in Seq(E) /\ Len(t) \in Nat /\ e \in E /\ e.bssid = b
  <2>1. t \in Seq(E) /\ e \in E
    BY DEF RnrTable, RnrTables
  <2> HIDE DEF E
  <2>2. Len(t) \in Nat
    BY <2>1
  <2> QED BY <2>1, <2>2, RnrAssumption DEF RnrEntry
<1>1. k \in Nat /\ k >= 1 /\ \A l \in 1 .. k : l \in 1 .. k - 1 \/ l = k
  <2>1. Len(r.params) \in Nat
    BY DEF RnrInput
  <2> QED BY <2>1
<1>2. \A l \in 1 .. k - 1 : l \in 1 .. k
  BY <1>1
<1>3. u \in RnrTables(r) /\ u = IF Len(t) >= RnrMax \/ \E i \in 1 .. Len(t) : t[i].bssid = b
                                THEN t ELSE Append(t, e)
  BY RnrAdds DEF RnrTable
<1>4. /\ t \in RnrTables(r) /\ Len(t) <= RnrMax
      /\ \A i, j \in 1 .. Len(t) : t[i].bssid = t[j].bssid => i = j
      /\ \A i \in 1 .. Len(t) : \E l \in 1 .. k - 1 : t[i].bssid = In(l)
      /\ Len(t) < RnrMax => \A l \in 1 .. k - 1 : \E i \in 1 .. Len(t) : t[i].bssid = In(l)
  BY DEF RnrTable
<1>5. In(k) = b
  OBVIOUS
<1> HIDE DEF u, b, E, e, In
<1>6. CASE Len(t) >= RnrMax
  <2>1. u = t /\ ~(Len(t) < RnrMax)
    BY <1>0, <1>3, <1>6
  <2>2. \A i \in 1 .. Len(t) : \E l \in 1 .. k : t[i].bssid = In(l)
    BY <1>2, <1>4
  <2>3. RnrTable(r, k, t)
    BY <1>4, <2>1, <2>2 DEF RnrTable, In
  <2> QED BY <2>1, <2>3 DEF u
<1>7. CASE \E i \in 1 .. Len(t) : t[i].bssid = b
  <2>1. u = t
    BY <1>3, <1>7
  <2>2. \A i \in 1 .. Len(t) : \E l \in 1 .. k : t[i].bssid = In(l)
    BY <1>2, <1>4
  <2>3. Len(t) < RnrMax => \A l \in 1 .. k : \E i \in 1 .. Len(t) : t[i].bssid = In(l)
    BY <1>1, <1>4, <1>5, <1>7
  <2>4. RnrTable(r, k, t)
    BY <1>4, <2>2, <2>3 DEF RnrTable, In
  <2> QED BY <2>1, <2>4 DEF u
<1>8. CASE Len(t) < RnrMax /\ ~\E i \in 1 .. Len(t) : t[i].bssid = b
  <2> DEFINE n == Len(t)
  <2>1. u = Append(t, e)
    BY <1>0, <1>3, <1>8
  <2>2. /\ n \in Nat /\ Len(u) = n + 1 /\ u[n + 1] = e
        /\ \A i \in 1 .. n : u[i] = t[i]
    BY <1>0, <2>1, AppendIs
  <2>3. /\ \A i \in 1 .. n : t[i].bssid # b
        /\ \A i, j \in 1 .. n : t[i].bssid = t[j].bssid => i = j
        /\ \A i \in 1 .. n : \E l \in 1 .. k - 1 : t[i].bssid = In(l)
        /\ \A l \in 1 .. k - 1 : \E i \in 1 .. n : t[i].bssid = In(l)
    BY <1>4, <1>8
  <2> HIDE DEF n
  <2>4. /\ \A i \in 1 .. n + 1 : i \in 1 .. n \/ i = n + 1
        /\ \A i \in 1 .. n : i \in 1 .. n + 1
        /\ n + 1 \in 1 .. n + 1 /\ k \in 1 .. k
    BY <1>1, <2>2
  <2>5. u[n + 1].bssid = b /\ \A i \in 1 .. n : u[i].bssid = t[i].bssid
    BY <1>0, <2>2
  <2>6. \A i, j \in 1 .. n + 1 : u[i].bssid = u[j].bssid => i = j
    <3> TAKE i, j \in 1 .. n + 1
    <3>1. CASE i \in 1 .. n /\ j \in 1 .. n
      BY <2>3, <2>5, <3>1
    <3>2. CASE i \in 1 .. n /\ j = n + 1
      BY <2>3, <2>5, <3>2
    <3>3. CASE i = n + 1 /\ j \in 1 .. n
      BY <2>3, <2>5, <3>3
    <3> QED BY <2>4, <3>1, <3>2, <3>3
  <2>7. \A i \in 1 .. n + 1 : \E l \in 1 .. k : u[i].bssid = In(l)
    BY <1>2, <1>5, <2>3, <2>4, <2>5
  <2>8. \A l \in 1 .. k : \E i \in 1 .. n + 1 : u[i].bssid = In(l)
    BY <1>1, <1>5, <2>3, <2>4, <2>5
  <2>9. n + 1 <= RnrMax
    BY <1>0, <1>8, <2>2 DEF n
  <2>10. RnrTable(r, k, u)
    BY <1>3, <2>2, <2>6, <2>7, <2>8, <2>9 DEF RnrTable, In
  <2> QED BY <2>10 DEF u
<1> QED BY <1>0, <1>6, <1>7, <1>8

\* The table of a scan.
LEMMA RnrIsWhole ==
  ASSUME NEW r \in RnrInput, NEW t, t = BuildRnr(r.params, r.chans)
  PROVE  /\ Cardinality(BssidsOf(t)) = Len(t) /\ Len(t) <= RnrMax
         /\ BssidsOf(t) \subseteq BssidsOf(r.params)
         /\ Len(t) < RnrMax => BssidsOf(t) = BssidsOf(r.params)
<1> DEFINE n == Len(r.params)
           W == [k \in 0 .. n |-> {x \in RnrTables(r) : RnrTable(r, k, x)}]
<1>1. n \in Nat /\ DOMAIN r.params = 1 .. n
  <2> DEFINE ps == r.params
  <2>1. ps \in Seq([bssid : STRING, idx : Nat])
    BY DEF RnrInput
  <2> HIDE DEF ps
  <2>2. Len(ps) \in Nat /\ DOMAIN ps = 1 .. Len(ps)
    BY <2>1
  <2> QED BY <2>2 DEF ps
<1>2. PICK h : /\ h[0] = <<>> /\ t = h[n]
               /\ \A k \in 1 .. n : h[k] = RnrAdd(h[k - 1], r.params[k], r.chans)
  BY RnrRuns
<1>3. \A k \in 0 .. n : W[k] = {x \in RnrTables(r) : RnrTable(r, k, x)}
  OBVIOUS
<1> HIDE DEF n, W
<1>4. h[0] \in W[0]
  <2>1. <<>> \in RnrTables(r) /\ Len(<<>>) = 0 /\ RnrMax \in Nat
    BY RnrAssumption DEF RnrTables
  <2>2. RnrTable(r, 0, <<>>)
    BY <2>1 DEF RnrTable
  <2> QED BY <1>1, <1>2, <1>3, <2>1, <2>2
<1>5. ASSUME NEW k \in 1 .. n, h[k - 1] \in W[k - 1] PROVE h[k] \in W[k]
  <2>1. k \in 0 .. n /\ k - 1 \in 0 .. n
    BY <1>1
  <2>2. RnrTable(r, k - 1, h[k - 1])
    BY <1>3, <1>5, <2>1
  <2>3. RnrTable(r, k, RnrAdd(h[k - 1], r.params[k], r.chans))
    BY <2>2, RnrGrows DEF n
  <2>4. RnrTable(r, k, h[k])
    BY <1>2, <2>3
  <2>5. h[k] \in RnrTables(r)
    BY <2>4 DEF RnrTable
  <2> QED BY <1>3, <2>1, <2>4, <2>5
<1>6. RnrTable(r, n, t)
  <2>1. \A k \in 0 .. n : h[k] \in W[k]
    BY <1>1, <1>4, <1>5, Run
  <2>2. n \in 0 .. n
    BY <1>1
  <2> QED BY <1>2, <1>3, <2>1, <2>2
<1> DEFINE m == Len(t)
<1>7. m \in Nat /\ DOMAIN t = 1 .. m
  BY <1>6, Elements DEF RnrTable, RnrTables
<1>8. BssidsOf(t) = {t[i].bssid : i \in 1 .. m} /\ BssidsOf(r.params) = {r.params[l].bssid : l \in 1 .. n}
  BY <1>1, <1>7 DEF BssidsOf
<1> HIDE DEF m
<1>9. Cardinality(BssidsOf(t)) = m
  <2> DEFINE f == [i \in 1 .. m |-> t[i].bssid]
  <2>1. \A i, j \in 1 .. m : f[i] = f[j] => i = j
    BY <1>6 DEF RnrTable, m
  <2>2. BssidsOf(t) = {f[i] : i \in 1 .. m}
    BY <1>8
  <2> HIDE DEF f
  <2>3. \A g : (\A i, j \in 1 .. m : g[i] = g[j] => i = j) => Cardinality({g[i] : i \in 1 .. m}) = m
    BY <1>7, DistinctCount
  <2>4. Cardinality({f[i] : i \in 1 .. m}) = m
    BY <2>1, <2>3
  <2> QED BY <2>2, <2>4
<1>10. BssidsOf(t) \subseteq BssidsOf(r.params)
  BY <1>6, <1>8 DEF RnrTable, m
<1>11. m < RnrMax => BssidsOf(r.params) \subseteq BssidsOf(t)
  BY <1>6, <1>8 DEF RnrTable, m
<1> QED BY <1>6, <1>9, <1>10, <1>11 DEF RnrTable, m

-----------------------------------------------------------------------------
(* The channel domain and the address filters.                             *)

\* The enabled channels of a list are a run through it.
LEMMA EnabledRuns ==
  ASSUME NEW V, NEW list \in Seq(V)
  PROVE  \E h : /\ h[0] = <<>> /\ EnabledOf(list) = h[Len(list)]
                /\ \A k \in 1 .. Len(list) :
                     h[k] = IF list[k].off THEN h[k - 1] ELSE Append(h[k - 1], list[k])
<1> DEFINE n == Len(list)
           S == Seq(V)
           step == [p \in (1 .. n) \X S |-> IF list[p[1]].off THEN p[2] ELSE Append(p[2], list[p[1]])]
           Body(f) == [U \in SUBSET (1 .. n) |->
                         IF U = {} THEN <<>>
                         ELSE IF list[Max(U)].off THEN f[U \ {Max(U)}]
                              ELSE Append(f[U \ {Max(U)}], list[Max(U)])]
           it == CHOOSE f : f = Body(f)
           h == [k \in 0 .. n |-> it[1 .. k]]
<1>1. n \in Nat /\ DOMAIN list = 1 .. n /\ \A k \in 1 .. n : list[k] \in V
  OBVIOUS
<1>2. <<>> \in S /\ step \in [(1 .. n) \X S -> S]
  <2>1. \A t \in S : \A k \in 1 .. n : Append(t, list[k]) \in S
    BY <1>1
  <2> HIDE DEF n
  <2>2. ASSUME NEW p \in (1 .. n) \X S
        PROVE  (IF list[p[1]].off THEN p[2] ELSE Append(p[2], list[p[1]])) \in S
    <3>1. p[1] \in 1 .. n /\ p[2] \in S
      OBVIOUS
    <3> HIDE DEF S
    <3> QED BY <2>1, <3>1
  <2>3. <<>> \in S
    OBVIOUS
  <2> HIDE DEF S
  <2> QED BY <2>2, <2>3
<1>3. PICK g : IsFold(g, n, S, <<>>, step)
  <2> DEFINE base == <<>>
  <2>1. base \in S
    BY <1>2
  <2> HIDE DEF step, S, n, base
  <2>2. \E g : IsFold(g, n, S, base, step)
    BY <1>1, <1>2, <2>1, FoldExists
  <2> QED BY <2>2 DEF base
<1>4. \A U \in SUBSET (1 .. n) : U # {} => Max(U) \in 1 .. n /\ U \ {Max(U)} \in SUBSET (1 .. n)
  BY <1>1, MaxIndex
<1>5. g = Body(g)
  <2>1. ASSUME NEW U \in SUBSET (1 .. n), U # {}
        PROVE  g[U] = IF list[Max(U)].off THEN g[U \ {Max(U)}]
                      ELSE Append(g[U \ {Max(U)}], list[Max(U)])
    <3> DEFINE T == U \ {Max(U)}
               m == Max(U)
    <3>1. m \in 1 .. n /\ T \in SUBSET (1 .. n)
      BY <1>4, <2>1
    <3>2. g[T] \in S /\ g[U] = step[<<m, g[T]>>]
      <4> HIDE DEF step, S
      <4> QED BY <1>3, <2>1, <3>1 DEF IsFold
    <3> HIDE DEF T, m, S, n
    <3>3. g[U] = IF list[m].off THEN g[T] ELSE Append(g[T], list[m])
      BY <3>1, <3>2
    <3> QED BY <3>3 DEF T, m
  <2> HIDE DEF step, S
  <2>2. g \in [SUBSET (1 .. n) -> S] /\ g[{}] = <<>>
    BY <1>1, <1>3, Prefix DEF IsFold
  <2> HIDE DEF n
  <2> QED BY <2>1, <2>2
<1>6. it = Body(it)
  BY <1>5
<1>7. EnabledOf(list) = it[1 .. n]
  BY <1>1 DEF EnabledOf, FoldLeft, MapThenFoldSet
<1> HIDE DEF it, S, step, n
<1>8. h[0] = <<>>
  BY <1>1, <1>6, Prefix
<1>9. ASSUME NEW k \in 1 .. n
      PROVE  h[k] = IF list[k].off THEN h[k - 1] ELSE Append(h[k - 1], list[k])
  <2>1. k \in 0 .. n /\ k - 1 \in 0 .. n
    BY <1>1
  <2>2. it[1 .. k] = IF list[k].off THEN it[1 .. (k - 1)] ELSE Append(it[1 .. (k - 1)], list[k])
    <3>1. /\ 1 .. k \in SUBSET (1 .. n) /\ 1 .. k # {}
          /\ Max(1 .. k) = k /\ (1 .. k) \ {k} = 1 .. (k - 1)
      BY <1>1, Prefix
    <3>2. \A U \in SUBSET (1 .. n) :
            U # {} => it[U] = IF list[Max(U)].off THEN it[U \ {Max(U)}]
                              ELSE Append(it[U \ {Max(U)}], list[Max(U)])
      BY <1>6
    <3>3. it[1 .. k] = IF list[Max(1 .. k)].off THEN it[(1 .. k) \ {Max(1 .. k)}]
                       ELSE Append(it[(1 .. k) \ {Max(1 .. k)}], list[Max(1 .. k)])
      BY <3>1, <3>2
    <3> QED BY <3>1, <3>3
  <2>3. h[k] = it[1 .. k] /\ h[k - 1] = it[1 .. (k - 1)]
    BY <2>1
  <2> HIDE DEF h
  <2> QED BY <2>2, <2>3
<1>10. h[n] = it[1 .. n]
  BY <1>1
<1> HIDE DEF h
<1> QED BY <1>7, <1>8, <1>9, <1>10 DEF n

\* The addresses that are settled are a run through the list.
LEMMA SettledRuns ==
  ASSUME NEW V, NEW list \in Seq(V)
  PROVE  \E h : /\ h[0] = <<>> /\ Settled(list) = h[Len(list)]
                /\ \A k \in 1 .. Len(list) :
                     h[k] = IF list[k].tentative THEN h[k - 1] ELSE Append(h[k - 1], list[k])
<1> DEFINE n == Len(list)
           S == Seq(V)
           step == [p \in (1 .. n) \X S |-> IF list[p[1]].tentative THEN p[2] ELSE Append(p[2], list[p[1]])]
           Body(f) == [U \in SUBSET (1 .. n) |->
                         IF U = {} THEN <<>>
                         ELSE IF list[Max(U)].tentative THEN f[U \ {Max(U)}]
                              ELSE Append(f[U \ {Max(U)}], list[Max(U)])]
           it == CHOOSE f : f = Body(f)
           h == [k \in 0 .. n |-> it[1 .. k]]
<1>1. n \in Nat /\ DOMAIN list = 1 .. n /\ \A k \in 1 .. n : list[k] \in V
  OBVIOUS
<1>2. <<>> \in S /\ step \in [(1 .. n) \X S -> S]
  <2>1. \A t \in S : \A k \in 1 .. n : Append(t, list[k]) \in S
    BY <1>1
  <2> HIDE DEF n
  <2>2. ASSUME NEW p \in (1 .. n) \X S
        PROVE  (IF list[p[1]].tentative THEN p[2] ELSE Append(p[2], list[p[1]])) \in S
    <3>1. p[1] \in 1 .. n /\ p[2] \in S
      OBVIOUS
    <3> HIDE DEF S
    <3> QED BY <2>1, <3>1
  <2>3. <<>> \in S
    OBVIOUS
  <2> HIDE DEF S
  <2> QED BY <2>2, <2>3
<1>3. PICK g : IsFold(g, n, S, <<>>, step)
  <2> DEFINE base == <<>>
  <2>1. base \in S
    BY <1>2
  <2> HIDE DEF step, S, n, base
  <2>2. \E g : IsFold(g, n, S, base, step)
    BY <1>1, <1>2, <2>1, FoldExists
  <2> QED BY <2>2 DEF base
<1>4. \A U \in SUBSET (1 .. n) : U # {} => Max(U) \in 1 .. n /\ U \ {Max(U)} \in SUBSET (1 .. n)
  BY <1>1, MaxIndex
<1>5. g = Body(g)
  <2>1. ASSUME NEW U \in SUBSET (1 .. n), U # {}
        PROVE  g[U] = IF list[Max(U)].tentative THEN g[U \ {Max(U)}]
                      ELSE Append(g[U \ {Max(U)}], list[Max(U)])
    <3> DEFINE T == U \ {Max(U)}
               m == Max(U)
    <3>1. m \in 1 .. n /\ T \in SUBSET (1 .. n)
      BY <1>4, <2>1
    <3>2. g[T] \in S /\ g[U] = step[<<m, g[T]>>]
      <4> HIDE DEF step, S
      <4> QED BY <1>3, <2>1, <3>1 DEF IsFold
    <3> HIDE DEF T, m, S, n
    <3>3. g[U] = IF list[m].tentative THEN g[T] ELSE Append(g[T], list[m])
      BY <3>1, <3>2
    <3> QED BY <3>3 DEF T, m
  <2> HIDE DEF step, S
  <2>2. g \in [SUBSET (1 .. n) -> S] /\ g[{}] = <<>>
    BY <1>1, <1>3, Prefix DEF IsFold
  <2> HIDE DEF n
  <2> QED BY <2>1, <2>2
<1>6. it = Body(it)
  BY <1>5
<1>7. Settled(list) = it[1 .. n]
  BY <1>1 DEF Settled, FoldLeft, MapThenFoldSet
<1> HIDE DEF it, S, step, n
<1>8. h[0] = <<>>
  BY <1>1, <1>6, Prefix
<1>9. ASSUME NEW k \in 1 .. n
      PROVE  h[k] = IF list[k].tentative THEN h[k - 1] ELSE Append(h[k - 1], list[k])
  <2>1. k \in 0 .. n /\ k - 1 \in 0 .. n
    BY <1>1
  <2>2. it[1 .. k] = IF list[k].tentative THEN it[1 .. (k - 1)] ELSE Append(it[1 .. (k - 1)], list[k])
    <3>1. /\ 1 .. k \in SUBSET (1 .. n) /\ 1 .. k # {}
          /\ Max(1 .. k) = k /\ (1 .. k) \ {k} = 1 .. (k - 1)
      BY <1>1, Prefix
    <3>2. \A U \in SUBSET (1 .. n) :
            U # {} => it[U] = IF list[Max(U)].tentative THEN it[U \ {Max(U)}]
                              ELSE Append(it[U \ {Max(U)}], list[Max(U)])
      BY <1>6
    <3>3. it[1 .. k] = IF list[Max(1 .. k)].tentative THEN it[(1 .. k) \ {Max(1 .. k)}]
                       ELSE Append(it[(1 .. k) \ {Max(1 .. k)}], list[Max(1 .. k)])
      BY <3>1, <3>2
    <3> QED BY <3>1, <3>3
  <2>3. h[k] = it[1 .. k] /\ h[k - 1] = it[1 .. (k - 1)]
    BY <2>1
  <2> HIDE DEF h
  <2> QED BY <2>2, <2>3
<1>10. h[n] = it[1 .. n]
  BY <1>1
<1> HIDE DEF h
<1> QED BY <1>7, <1>8, <1>9, <1>10 DEF n

\* There are as many enabled channels as indices of such.
LEMMA EnabledCount ==
  ASSUME NEW V, NEW list \in Seq(V), \A k \in 1 .. Len(list) : list[k].off \in BOOLEAN
  PROVE  /\ EnabledOf(list) \in Seq({x \in V : ~x.off})
         /\ Len(EnabledOf(list)) = Cardinality({k \in DOMAIN list : ~list[k].off})
<1> DEFINE n == Len(list)
           S == {x \in V : ~x.off}
           Ons(k) == {j \in 1 .. k : ~list[j].off}
           W == [k \in 0 .. n |-> {t \in Seq(S) : Len(t) = Cardinality(Ons(k))}]
<1>1. n \in Nat /\ DOMAIN list = 1 .. n /\ \A k \in 1 .. n : list[k] \in V
  OBVIOUS
<1>2. PICK h : /\ h[0] = <<>> /\ EnabledOf(list) = h[n]
               /\ \A k \in 1 .. n : h[k] = IF list[k].off THEN h[k - 1] ELSE Append(h[k - 1], list[k])
  BY EnabledRuns
<1>3. \A k \in 0 .. n : W[k] = {t \in Seq(S) : Len(t) = Cardinality(Ons(k))}
  OBVIOUS
<1>4. \A k \in 1 .. n : ~list[k].off => list[k] \in S
  BY <1>1
<1>5. \A k \in 1 .. n : Ons(k) = IF list[k].off THEN Ons(k - 1) ELSE Ons(k - 1) \cup {k}
  <2> TAKE k \in 1 .. n
  <2>1. \A j \in 1 .. k : j \in 1 .. k - 1 \/ j = k
    BY <1>1
  <2>2. k \in 1 .. k /\ \A j \in 1 .. k - 1 : j \in 1 .. k
    BY <1>1
  <2> QED BY <2>1, <2>2
<1>6. \A k \in 0 .. n : IsFiniteSet(Ons(k)) /\ Cardinality(Ons(k)) \in Nat
  <2> TAKE k \in 0 .. n
  <2>1. k \in Nat /\ Ons(k) \subseteq 1 .. k
    BY <1>1
  <2>2. IsFiniteSet(1 .. k)
    <3>1. \A i \in Nat : IsFiniteSet(1 .. i)
      BY FS_Interval
    <3> QED BY <2>1, <3>1
  <2> HIDE DEF Ons
  <2>3. IsFiniteSet(Ons(k))
    BY <2>1, <2>2, FS_Subset
  <2> QED BY <2>3, FS_CardinalityType
<1>7. \A k \in 1 .. n : k \notin Ons(k - 1)
  BY <1>1
<1>8. Ons(0) = {}
  OBVIOUS
<1> HIDE DEF n, W, Ons, S
<1>9. h[0] \in W[0]
  <2>1. <<>> \in Seq(S) /\ Len(<<>>) = 0 /\ 0 \in 0 .. n
    BY <1>1
  <2>2. Cardinality(Ons(0)) = 0
    BY <1>8, FS_EmptySet
  <2> QED BY <1>2, <1>3, <2>1, <2>2
<1>10. ASSUME NEW k \in 1 .. n, h[k - 1] \in W[k - 1] PROVE h[k] \in W[k]
  <2>1. k \in 0 .. n /\ k - 1 \in 0 .. n
    BY <1>1
  <2> DEFINE t == h[k - 1]
  <2>2. t \in Seq(S) /\ Len(t) = Cardinality(Ons(k - 1))
    BY <1>3, <1>10, <2>1
  <2>3. h[k] = IF list[k].off THEN t ELSE Append(t, list[k])
    BY <1>2
  <2> HIDE DEF t
  <2>4. CASE list[k].off
    BY <1>3, <1>5, <2>1, <2>2, <2>3, <2>4
  <2>5. CASE ~list[k].off
    <3>1. list[k] \in S
      BY <1>4, <2>5
    <3>2. h[k] \in Seq(S) /\ Len(h[k]) = Len(t) + 1
      BY <2>2, <2>3, <2>5, <3>1, AppendIs
    <3>3. Cardinality(Ons(k)) = Cardinality(Ons(k - 1)) + 1
      <4>1. Ons(k) = Ons(k - 1) \cup {k}
        BY <1>5, <2>5
      <4>2. Cardinality(Ons(k - 1) \cup {k}) = Cardinality(Ons(k - 1)) + 1
        BY <1>6, <1>7, <2>1, FS_AddElement
      <4> QED BY <4>1, <4>2
    <3> QED BY <1>3, <2>1, <2>2, <3>2, <3>3
  <2> QED BY <2>4, <2>5
<1>11. h[n] \in W[n]
  <2>1. \A k \in 0 .. n : h[k] \in W[k]
    BY <1>1, <1>9, <1>10, Run
  <2>2. n \in 0 .. n
    BY <1>1
  <2> QED BY <2>1, <2>2
<1>12. n \in 0 .. n
  BY <1>1
<1> QED BY <1>1, <1>2, <1>3, <1>11, <1>12 DEF S, Ons

\* The firmware is told of every enabled channel of every band.
LEMMA DomainIs ==
  ASSUME NEW sband \in DomainInput, NEW out, out = ChannelDomain(sband)
  PROVE  DomainIsTold(sband, out)
<1> DEFINE V == [num : Nat, off : BOOLEAN]
           S == {x \in V : ~x.off}
           E(b) == EnabledOf(sband[b])
<1>1. DOMAIN sband = {2, 5, 6} /\ \A b \in {2, 5, 6} : sband[b] \in Seq(V)
  BY DEF DomainInput
<1>2. ASSUME NEW b \in {2, 5, 6}
      PROVE  E(b) \in Seq(S) /\ Len(E(b)) = Cardinality({k \in DOMAIN sband[b] : ~sband[b][k].off})
  <2> DEFINE l == sband[b]
  <2>1. l \in Seq(V)
    BY <1>1
  <2> HIDE DEF l
  <2>2. \A k \in 1 .. Len(l) : l[k].off \in BOOLEAN
    <3>1. \A k \in 1 .. Len(l) : l[k] \in V
      <4> HIDE DEF V
      <4> QED BY <2>1
    <3> QED BY <3>1
  <2> HIDE DEF V
  <2>3. EnabledOf(l) \in Seq({x \in V : ~x.off})
        /\ Len(EnabledOf(l)) = Cardinality({k \in DOMAIN l : ~l[k].off})
    BY <2>1, <2>2, EnabledCount
  <2> QED BY <2>3 DEF l, V
<1>3. out.n = [b \in DOMAIN sband |-> Len(E(b))] /\ out.chans = E(2) \o E(5) \o E(6)
  BY DEF ChannelDomain
<1>4. \A b \in {2, 5, 6} : out.n[b] = Len(E(b))
  BY <1>1, <1>3
<1>5. \A x \in S : ~x.off
  OBVIOUS
<1> DEFINE p == E(2)
           q == E(5)
           r == E(6)
           u == p \o q
           w == u \o r
<1>6. p \in Seq(S) /\ q \in Seq(S) /\ r \in Seq(S) /\ out.chans = w
      /\ out.n[2] = Len(p) /\ out.n[5] = Len(q) /\ out.n[6] = Len(r)
  BY <1>2, <1>3, <1>4
<1> HIDE DEF S, p, q, r
<1>7. u \in Seq(S) /\ Joined(u, p, q)
  BY <1>6, Concat
<1> HIDE DEF u
<1>8. w \in Seq(S) /\ Joined(w, u, r)
  BY <1>6, <1>7, Concat
<1> HIDE DEF w
<1>9. Len(w) = Len(p) + Len(q) + Len(r)
  BY <1>7, <1>8 DEF Joined
<1>10. \A k \in DOMAIN w : ~w[k].off
  BY <1>5, <1>8, Elements
<1>11. Len(out.chans) = out.n[2] + out.n[5] + out.n[6]
  BY <1>6, <1>9
<1> QED BY <1>2, <1>4, <1>6, <1>10, <1>11 DEF DomainIsTold

\* What is settled is a sequence of addresses.
LEMMA SettledIs ==
  ASSUME NEW V, NEW a \in Seq(V)
  PROVE  Settled(a) \in Seq(V)
<1> DEFINE n == Len(a)
           S == Seq(V)
           W == [k \in 0 .. n |-> S]
<1>1. n \in Nat /\ \A k \in 1 .. n : a[k] \in V
  OBVIOUS
<1>2. PICK h : /\ h[0] = <<>> /\ Settled(a) = h[n]
               /\ \A k \in 1 .. n : h[k] = IF a[k].tentative THEN h[k - 1] ELSE Append(h[k - 1], a[k])
  BY SettledRuns
<1>3. \A t \in S : \A k \in 1 .. n : Append(t, a[k]) \in S
  BY <1>1
<1>4. <<>> \in S
  OBVIOUS
<1>5. \A k \in 0 .. n : W[k] = S
  OBVIOUS
<1> HIDE DEF n, S, W
<1>6. h[0] \in W[0]
  BY <1>1, <1>2, <1>4, <1>5
<1>7. ASSUME NEW k \in 1 .. n, h[k - 1] \in W[k - 1] PROVE h[k] \in W[k]
  <2>1. k \in 0 .. n /\ k - 1 \in 0 .. n
    BY <1>1
  <2>2. h[k - 1] \in S
    BY <1>5, <1>7, <2>1
  <2> QED BY <1>2, <1>3, <1>5, <2>1, <2>2
<1>8. \A k \in 0 .. n : h[k] \in W[k]
  BY <1>1, <1>6, <1>7, Run
<1>9. n \in 0 .. n
  BY <1>1
<1> QED BY <1>2, <1>5, <1>8, <1>9 DEF S

\* The first addresses of a list, as many as fit.
LEMMA FirstFit ==
  ASSUME NEW V, NEW s \in Seq(V)
  PROVE  /\ IsPrefix(FirstOf(s), s) /\ Len(FirstOf(s)) <= AddrListLen
         /\ Len(FirstOf(s)) \in {Len(s), AddrListLen} /\ Len(FirstOf(s)) \in Nat
         /\ Len(s) > Len(FirstOf(s)) => Len(FirstOf(s)) = AddrListLen
<1> DEFINE a == IF Len(s) < AddrListLen THEN Len(s) ELSE AddrListLen
<1>1. Len(s) \in Nat /\ AddrListLen = 4
  BY DEF AddrListLen
<1>2. a \in 0 .. Len(s) /\ a <= 4 /\ a \in {Len(s), 4} /\ (Len(s) > a => a = 4) /\ a \in Nat
  BY <1>1
<1>3. FirstOf(s) = SubSeq(s, 1, a)
  BY DEF FirstOf
<1> HIDE DEF a
<1>4. IsPrefix(SubSeq(s, 1, a), s) /\ Len(SubSeq(s, 1, a)) = a
  BY <1>2, CutIsPrefix
<1> QED BY <1>1, <1>2, <1>3, <1>4

\* The address filters.
LEMMA FiltersAre ==
  ASSUME NEW a \in AddrsInput, NEW fails \in 1 .. 3, NEW out,
         out.arp = ArpFilter(a), out.ns = NsWork(NsFilter(a), fails), out.fails = fails
  PROVE  FiltersFit(a, out)
<1> DEFINE V == [tentative : BOOLEAN]
           t == Settled(a)
           x == FirstOf(a)
           y == FirstOf(t)
<1>1. a \in Seq(V) /\ t \in Seq(V)
  BY SettledIs DEF AddrsInput
<1>2. /\ IsPrefix(x, a) /\ Len(x) <= AddrListLen /\ (Len(a) > Len(x) => Len(x) = AddrListLen)
      /\ IsPrefix(y, t) /\ Len(y) \in {Len(t), AddrListLen}
  <2> HIDE DEF V, t
  <2> QED BY <1>1, FirstFit
<1>3. out.arp[1] = x
  BY DEF ArpFilter
<1>4. NsFilter(a) = IF t = <<>> THEN <<>> ELSE <<y>>
  BY DEF NsFilter
<1> HIDE DEF t, x, y, V
<1>5. out.ns = IF fails = 1 \/ t = <<>> THEN <<>> ELSE <<y>>
  <2>1. CASE t = <<>>
    <3>1. NsFilter(a) = <<>>
      BY <1>4, <2>1
    <3>2. out.ns = SubSeq(<<>>, 1, 0)
      BY <3>1 DEF NsWork
    <3> QED BY <2>1, <3>2
  <2>2. CASE t # <<>>
    <3>1. out.ns = SubSeq(<<y>>, 1, IF 1 < fails THEN 1 ELSE fails - 1)
      BY <1>4, <2>2 DEF NsWork
    <3>2. SubSeq(<<y>>, 1, 0) = <<>> /\ SubSeq(<<y>>, 1, 1) = <<y>>
      <4> DEFINE z == <<y>>
      <4>1. z \in Seq({y}) /\ Len(z) = 1
        OBVIOUS
      <4> HIDE DEF z
      <4>2. SubSeq(z, 1, 1) = z /\ SubSeq(z, 1, 0) = <<>>
        BY <4>1
      <4> QED BY <4>2 DEF z
    <3>3. CASE fails = 1
      <4>1. (IF 1 < fails THEN 1 ELSE fails - 1) = 0
        BY <3>3
      <4> QED BY <3>1, <3>2, <3>3, <4>1
    <3>4. CASE fails # 1
      <4>1. (IF 1 < fails THEN 1 ELSE fails - 1) = 1
        BY <3>4
      <4> QED BY <2>2, <3>1, <3>2, <3>4, <4>1
    <3> QED BY <3>3, <3>4
  <2> QED BY <2>1, <2>2
<1>6. out.ns = <<>> <=> out.fails = 1 \/ Settled(a) = <<>>
  <2>1. <<y>> # <<>>
    OBVIOUS
  <2> QED BY <1>5, <2>1 DEF t
<1>7. out.ns # <<>> => /\ IsPrefix(out.ns[1], Settled(a))
                       /\ Len(out.ns[1]) \in {Len(Settled(a)), AddrListLen}
  <2> SUFFICES ASSUME out.ns # <<>>
               PROVE  IsPrefix(out.ns[1], t) /\ Len(out.ns[1]) \in {Len(t), AddrListLen}
    BY DEF t
  <2>1. out.ns[1] = y
    BY <1>5
  <2> QED BY <1>2, <2>1
<1> QED BY <1>2, <1>3, <1>6, <1>7 DEF FiltersFit

(***************************************************************************)
(* The regulatory domain.                                                  *)
(***************************************************************************)
Names == STRING \cup {"00", "any", "none", "unset", "default"}
RegdState ==
  [alpha : Names, env : Names, change : BOOLEAN, user : BOOLEAN, ignoreIe : BOOLEAN,
   suspended : BOOLEAN, off : SUBSET Nat, fw : [alpha : Names, off : SUBSET Nat],
   power : Names, type : Names]
\* What a country is told by: what the firmware has of it.
SameCountry(r, s) ==
  s.alpha = r.alpha /\ s.env = r.env /\ s.change = r.change /\ s.fw = r.fw /\ s.power = r.power

\* An update that is asked for.
LEMMA UpdateTells ==
  ASSUME NEW r \in RegdState, r.change, NEW node \in NodeInput, NEW step \in {"ok", "domain", "sar"},
         NEW s, s = RegdUpdate(r, node, step)
  PROVE  /\ s \in RegdState /\ ~s.change
         /\ step = "ok" => /\ s.fw.alpha = s.alpha /\ s.power = s.alpha
                           /\ node.found => node.missing \subseteq s.fw.off
<1> DEFINE off == r.off \cup (IF node.found THEN node.missing ELSE {})
           a == ChannelUpdate(r, node)
           b == Domain(a, step)
           c == Sar(b, step)
<1>1. off \in SUBSET Nat /\ (node.found => node.missing \subseteq off)
  BY DEF RegdState, NodeInput
<1>2. a = [r EXCEPT !.off = off]
  BY DEF ChannelUpdate
<1> HIDE DEF off
<1>3. a \in RegdState /\ a.off = off /\ a.alpha = r.alpha
  <2> HIDE DEF a
  <2> QED BY <1>1, <1>2 DEF RegdState
<1>4. b = IF step = "domain" THEN a ELSE [a EXCEPT !.fw = [alpha |-> a.alpha, off |-> a.off]]
  BY DEF Domain
<1> HIDE DEF a
<1>5. /\ b \in RegdState /\ b.alpha = a.alpha
      /\ step = "ok" => b.fw.alpha = a.alpha /\ b.fw.off = off
  <2> HIDE DEF b
  <2> QED BY <1>3, <1>4 DEF RegdState
<1>6. c = IF step \in {"domain", "sar"} THEN b ELSE [b EXCEPT !.power = b.alpha]
  BY DEF Sar
<1> HIDE DEF b
<1>7. /\ c \in RegdState /\ c.alpha = b.alpha /\ c.fw = b.fw
      /\ step = "ok" => c.power = b.alpha
  <2> HIDE DEF c
  <2> QED BY <1>5, <1>6 DEF RegdState
<1>8. s = [c EXCEPT !.change = FALSE]
  BY DEF RegdUpdate, a, b, c
<1> HIDE DEF c
<1>9. /\ s \in RegdState /\ ~s.change /\ s.alpha = c.alpha /\ s.fw = c.fw /\ s.power = c.power
  BY <1>7, <1>8 DEF RegdState
<1> QED BY <1>1, <1>3, <1>5, <1>7, <1>9

\* A notification.
LEMMA NotifierTells ==
  ASSUME NEW r \in RegdState, NEW node \in NodeInput,
         NEW e \in [ev : {"notify"}, alpha : STRING, env : STRING, byUser : BOOLEAN,
                    step : {"ok", "domain", "sar"}],
         NEW s, s = Notifier(r, e, node)
  PROVE  /\ s \in RegdState
         /\ Known(r, e) => SameCountry(r, s)
         /\ ~Known(r, e) /\ ~r.suspended =>
              /\ ~s.change
              /\ e.step = "ok" => /\ s.fw.alpha = s.alpha /\ s.power = s.alpha
                                  /\ node.found => node.missing \subseteq s.fw.off
<1> DEFINE user == r.user \/ e.byUser
           asked == [r EXCEPT !.user = user, !.off = {}]
           noted == Noted(asked, e)
           ignore == IF e.byUser THEN e.alpha # "00" ELSE asked.ignoreIe
<1>1. user \in BOOLEAN /\ {} \in SUBSET Nat
  BY DEF RegdState
<1>2. s = IF Known(r, e) THEN asked
          ELSE IF r.suspended THEN noted
          ELSE RegdUpdate(noted, node, e.step)
  BY DEF Notifier
<1> HIDE DEF user
<1>3. asked \in RegdState /\ SameCountry(r, asked)
  BY <1>1 DEF RegdState, SameCountry
<1>4. noted = [asked EXCEPT !.alpha = e.alpha, !.env = e.env, !.change = TRUE, !.ignoreIe = ignore]
  BY DEF Noted
<1> HIDE DEF asked
<1>5. ignore \in BOOLEAN /\ e.alpha \in Names /\ e.env \in Names
  BY <1>3 DEF RegdState, Names
<1> HIDE DEF noted, ignore
<1>6. noted \in RegdState /\ noted.change
  BY <1>3, <1>4, <1>5 DEF RegdState
<1>7. CASE Known(r, e)
  BY <1>2, <1>3, <1>7
<1>8. CASE ~Known(r, e) /\ r.suspended
  BY <1>2, <1>6, <1>8
<1>9. CASE ~Known(r, e) /\ ~r.suspended
  <2>1. s = RegdUpdate(noted, node, e.step)
    BY <1>2, <1>9
  <2>2. e.step \in {"ok", "domain", "sar"}
    OBVIOUS
  <2> DEFINE st == e.step
  <2> HIDE DEF st
  <2>3. /\ s \in RegdState /\ ~s.change
        /\ st = "ok" => /\ s.fw.alpha = s.alpha /\ s.power = s.alpha
                        /\ node.found => node.missing \subseteq s.fw.off
    BY <1>6, <2>1, <2>2, UpdateTells DEF st
  <2> QED BY <1>9, <2>3 DEF st
<1> QED BY <1>7, <1>8, <1>9

\* One event.
LEMMA RegdSteps ==
  ASSUME NEW r \in RegdState, NEW node \in NodeInput, NEW e \in RegdEvent,
         NEW s, s = RegdStep(r, e, node)
  PROVE  /\ s \in RegdState
         /\ e.ev # "notify" \/ Known(r, e) => SameCountry(r, s)
         /\ e.ev = "notify" /\ ~Known(r, e) /\ ~r.suspended =>
              /\ ~s.change
              /\ e.step = "ok" => /\ s.fw.alpha = s.alpha /\ s.power = s.alpha
                                  /\ node.found => node.missing \subseteq s.fw.off
<1>1. CASE e \in [ev : {"notify"}, alpha : STRING, env : STRING, byUser : BOOLEAN,
                  step : {"ok", "domain", "sar"}]
  <2>1. e.ev = "notify"
    BY <1>1
  <2>2. s = Notifier(r, e, node)
    BY <2>1 DEF RegdStep
  <2> QED BY <1>1, <2>1, <2>2, NotifierTells
<1>2. CASE e \in [ev : {"sleep"}, on : BOOLEAN]
  <2>1. e.ev = "sleep" /\ e.on \in BOOLEAN
    BY <1>2
  <2> DEFINE on == e.on
  <2>2. s = [r EXCEPT !.suspended = on]
    BY <2>1 DEF RegdStep
  <2> HIDE DEF on
  <2>3. s \in RegdState /\ SameCountry(r, s)
    BY <2>1, <2>2 DEF RegdState, SameCountry, on
  <2> QED BY <2>1, <2>3
<1>3. CASE e \in [ev : {"sta"}, vifs : Nat, isAdd : BOOLEAN, type : STRING]
  <2>1. e.ev = "sta" /\ e.vifs \in Nat /\ e.isAdd \in BOOLEAN /\ e.type \in STRING
    BY <1>3
  <2> DEFINE type == PowerType(e.vifs, e.isAdd, e.type)
  <2>2. type \in Names
    <3>1. type \in {"default", "unset", e.type}
      BY <2>1 DEF PowerType
    <3> HIDE DEF type
    <3> QED BY <2>1, <3>1 DEF Names
  <2>3. s = [r EXCEPT !.type = type]
    BY <2>1 DEF RegdStep
  <2> HIDE DEF type
  <2>4. s \in RegdState /\ SameCountry(r, s)
    BY <2>2, <2>3 DEF RegdState, SameCountry
  <2> QED BY <2>1, <2>4
<1> QED BY <1>1, <1>2, <1>3 DEF RegdEvent

\* The first state.
LEMMA RegdBegins == NewRegd \in RegdState
<1> DEFINE f == [alpha |-> "none", off |-> {}]
<1>0. /\ "none" \in Names /\ "00" \in Names /\ "any" \in Names /\ "unset" \in Names
      /\ {} \in SUBSET Nat
  BY DEF Names
<1>1. f \in [alpha : Names, off : SUBSET Nat]
  BY <1>0
<1>2. \E x \in BOOLEAN : x = FALSE
  OBVIOUS
<1>3. PICK no \in BOOLEAN : no = FALSE
  BY <1>2
<1>4. NewRegd = [alpha |-> "00", env |-> "any", change |-> no, user |-> no, ignoreIe |-> no,
                 suspended |-> no, off |-> {}, fw |-> f, power |-> "none", type |-> "unset"]
  <2> HIDE DEF f
  <2> QED BY <1>3, Zenon DEF NewRegd, f
<1> HIDE DEF f
<1> QED BY <1>0, <1>1, <1>4 DEF RegdState

\* A history of the domain is a run through its events.
IsHistory(h, es, node) ==
  /\ h[0] = NewRegd /\ Regd(es, node) = h[Len(es)]
  /\ \A k \in 1 .. Len(es) : h[k] = RegdStep(h[k - 1], es[k], node)

\* Every list of events has a history.
LEMMA RegdRuns ==
  ASSUME NEW node \in NodeInput, NEW es \in Seq(RegdEvent)
  PROVE  \E h : IsHistory(h, es, node)
<1> DEFINE n == Len(es)
           V == RegdState
           base == NewRegd
           step == [p \in (1 .. n) \X V |-> RegdStep(p[2], es[p[1]], node)]
           Body(f) == [U \in SUBSET (1 .. n) |->
                         IF U = {} THEN base ELSE RegdStep(f[U \ {Max(U)}], es[Max(U)], node)]
           it == CHOOSE f : f = Body(f)
           h == [k \in 0 .. n |-> it[1 .. k]]
<1>1. n \in Nat /\ DOMAIN es = 1 .. n /\ \A k \in 1 .. n : es[k] \in RegdEvent
  OBVIOUS
<1>2. base \in V /\ step \in [(1 .. n) \X V -> V]
  <2>1. \A t \in V : \A k \in 1 .. n : RegdStep(t, es[k], node) \in V
    BY <1>1, RegdSteps
  <2> HIDE DEF V, n
  <2>2. ASSUME NEW p \in (1 .. n) \X V PROVE RegdStep(p[2], es[p[1]], node) \in V
    <3>1. p[1] \in 1 .. n /\ p[2] \in V
      OBVIOUS
    <3> QED BY <2>1, <3>1
  <2>3. base \in V
    BY RegdBegins DEF V
  <2> HIDE DEF base
  <2> QED BY <2>2, <2>3
<1>3. PICK g : IsFold(g, n, V, base, step)
  <2> HIDE DEF step, V, n, base
  <2> QED BY <1>1, <1>2, FoldExists
<1>4. \A U \in SUBSET (1 .. n) : U # {} => Max(U) \in 1 .. n /\ U \ {Max(U)} \in SUBSET (1 .. n)
  BY <1>1, MaxIndex
<1>5. g = Body(g)
  <2>1. ASSUME NEW U \in SUBSET (1 .. n), U # {}
        PROVE  g[U] = RegdStep(g[U \ {Max(U)}], es[Max(U)], node)
    <3> DEFINE T == U \ {Max(U)}
               m == Max(U)
    <3>1. m \in 1 .. n /\ T \in SUBSET (1 .. n)
      BY <1>4, <2>1
    <3>2. g[T] \in V /\ g[U] = step[<<m, g[T]>>]
      <4> HIDE DEF step, V, base
      <4> QED BY <1>3, <2>1, <3>1 DEF IsFold
    <3> HIDE DEF T, m, V, n
    <3>3. g[U] = RegdStep(g[T], es[m], node)
      BY <3>1, <3>2
    <3> QED BY <3>3 DEF T, m
  <2> HIDE DEF step, V, base
  <2>2. g \in [SUBSET (1 .. n) -> V] /\ g[{}] = base
    BY <1>1, <1>3, Prefix DEF IsFold
  <2> HIDE DEF n
  <2> QED BY <2>1, <2>2
<1>6. it = Body(it)
  BY <1>5
<1>7. Regd(es, node) = it[1 .. n]
  BY <1>1 DEF Regd, FoldLeft, MapThenFoldSet
<1> HIDE DEF it, V, step, n, base
<1>8. h[0] = base
  BY <1>1, <1>6, Prefix
<1>9. ASSUME NEW k \in 1 .. n PROVE h[k] = RegdStep(h[k - 1], es[k], node)
  <2>1. k \in 0 .. n /\ k - 1 \in 0 .. n
    BY <1>1
  <2>2. it[1 .. k] = RegdStep(it[1 .. (k - 1)], es[k], node)
    <3>1. /\ 1 .. k \in SUBSET (1 .. n) /\ 1 .. k # {}
          /\ Max(1 .. k) = k /\ (1 .. k) \ {k} = 1 .. (k - 1)
      BY <1>1, Prefix
    <3>2. \A U \in SUBSET (1 .. n) :
            U # {} => it[U] = RegdStep(it[U \ {Max(U)}], es[Max(U)], node)
      BY <1>6
    <3>3. it[1 .. k] = RegdStep(it[(1 .. k) \ {Max(1 .. k)}], es[Max(1 .. k)], node)
      BY <3>1, <3>2
    <3> QED BY <3>1, <3>3
  <2>3. h[k] = it[1 .. k] /\ h[k - 1] = it[1 .. (k - 1)]
    BY <2>1
  <2> HIDE DEF h
  <2> QED BY <2>2, <2>3
<1>10. h[n] = it[1 .. n]
  BY <1>1
<1> HIDE DEF h
<1> QED BY <1>7, <1>8, <1>9, <1>10 DEF n, base, IsHistory

\* The history of the first events is the first part of the history.
LEMMA RegdPrefix ==
  ASSUME NEW node \in NodeInput, NEW es \in Seq(RegdEvent), NEW h, IsHistory(h, es, node),
         NEW m \in 0 .. Len(es)
  PROVE  Regd(SubSeq(es, 1, m), node) = h[m]
<1> DEFINE ps == SubSeq(es, 1, m)
           W == [k \in 0 .. m |-> {h[k]}]
<1>1. /\ Len(es) \in Nat /\ m \in Nat /\ ps \in Seq(RegdEvent) /\ Len(ps) = m
      /\ \A k \in 1 .. m : ps[k] = es[k] /\ k \in 1 .. Len(es)
  <2>1. Len(es) \in Nat /\ m \in Nat /\ m <= Len(es)
    OBVIOUS
  <2> HIDE DEF ps
  <2>2. ps \in Seq(RegdEvent) /\ Len(ps) = m /\ \A k \in 1 .. m : ps[k] = es[k]
    <3> DEFINE V == RegdEvent
    <3>1. es \in Seq(V)
      OBVIOUS
    <3> HIDE DEF V
    <3>2. SubSeq(es, 1, m) \in Seq(V) /\ Len(SubSeq(es, 1, m)) = m
          /\ \A k \in 1 .. m : SubSeq(es, 1, m)[k] = es[k]
      BY <2>1, <3>1
    <3> QED BY <3>2 DEF ps, V
  <2> QED BY <2>1, <2>2
<1> HIDE DEF ps
<1>2. PICK g : IsHistory(g, ps, node)
  BY <1>1, RegdRuns
<1>3. /\ g[0] = h[0] /\ Regd(ps, node) = g[m]
      /\ \A k \in 1 .. m : g[k] = RegdStep(g[k - 1], es[k], node)
      /\ \A k \in 1 .. m : h[k] = RegdStep(h[k - 1], es[k], node)
  BY <1>1, <1>2 DEF IsHistory
<1>4. \A k \in 0 .. m : W[k] = {h[k]}
  OBVIOUS
<1> HIDE DEF W
<1>5. g[0] \in W[0]
  BY <1>1, <1>3, <1>4
<1>6. ASSUME NEW k \in 1 .. m, g[k - 1] \in W[k - 1] PROVE g[k] \in W[k]
  <2>1. k \in 0 .. m /\ k - 1 \in 0 .. m
    BY <1>1
  <2>2. g[k - 1] = h[k - 1]
    BY <1>4, <1>6, <2>1
  <2>3. g[k] = h[k]
    BY <1>3, <2>2
  <2> QED BY <1>4, <2>1, <2>3
<1>7. \A k \in 0 .. m : g[k] \in W[k]
  BY <1>1, <1>5, <1>6, Run
<1>8. m \in 0 .. m
  BY <1>1
<1> QED BY <1>3, <1>4, <1>7, <1>8 DEF ps

\* The firmware has been told of the last country, unless that could not be done.
LEMMA CountryTold ==
  ASSUME NEW node \in NodeInput, NEW es \in Seq(RegdEvent), NEW r, r = Regd(es, node)
  PROVE  CountryIsTold(es, node, r)
<1> DEFINE n == Len(es)
<1>1. n \in Nat /\ DOMAIN es = 1 .. n /\ \A k \in 1 .. n : es[k] \in RegdEvent
  OBVIOUS
<1>2. PICK h : IsHistory(h, es, node)
  BY RegdRuns
<1>3. h[0] = NewRegd /\ r = h[n] /\ \A k \in 1 .. n : h[k] = RegdStep(h[k - 1], es[k], node)
  BY <1>2 DEF IsHistory
<1>4. \A k \in 0 .. n : Regd(SubSeq(es, 1, k), node) = h[k]
  BY <1>2, RegdPrefix
<1> HIDE DEF n
<1>5. \A k \in 1 .. n : k \in 0 .. n /\ k - 1 \in 0 .. n
  BY <1>1
<1>6. \A k \in 0 .. n : h[k] \in RegdState
  <2> DEFINE W == [k \in 0 .. n |-> RegdState]
  <2>1. \A k \in 0 .. n : W[k] = RegdState
    OBVIOUS
  <2> HIDE DEF W
  <2>2. h[0] \in W[0]
    BY <1>1, <1>3, <2>1, RegdBegins
  <2>3. ASSUME NEW k \in 1 .. n, h[k - 1] \in W[k - 1] PROVE h[k] \in W[k]
    <3>1. h[k - 1] \in RegdState
      BY <1>5, <2>1, <2>3
    <3>2. h[k] \in RegdState
      BY <1>1, <1>3, <3>1, RegdSteps
    <3> QED BY <1>5, <2>1, <3>2
  <2>4. \A k \in 0 .. n : h[k] \in W[k]
    BY <1>1, <2>2, <2>3, Run
  <2> QED BY <2>1, <2>4
<1>7. ASSUME NEW k \in 1 .. n
      PROVE  /\ es[k].ev # "notify" \/ Known(h[k - 1], es[k]) => SameCountry(h[k - 1], h[k])
             /\ es[k].ev = "notify" /\ ~Known(h[k - 1], es[k]) /\ ~h[k - 1].suspended =>
                  /\ ~h[k].change
                  /\ es[k].step = "ok" => /\ h[k].fw.alpha = h[k].alpha /\ h[k].power = h[k].alpha
                                          /\ node.found => node.missing \subseteq h[k].fw.off
  <2>1. h[k - 1] \in RegdState /\ es[k] \in RegdEvent /\ h[k] = RegdStep(h[k - 1], es[k], node)
    BY <1>1, <1>3, <1>5, <1>6
  <2> QED BY <2>1, RegdSteps
<1>8. \A k : k \in Accepted(es, node)
               <=> k \in 1 .. n /\ es[k].ev = "notify" /\ ~Known(h[k - 1], es[k])
  <2>1. \A k \in 1 .. n : Regd(SubSeq(es, 1, k - 1), node) = h[k - 1]
    BY <1>4, <1>5
  <2> QED BY <1>1, <2>1 DEF Accepted
<1>9. ASSUME NEW k \in Accepted(es, node), \A j \in Accepted(es, node) : j <= k
      PROVE  /\ ~Regd(SubSeq(es, 1, k - 1), node).suspended /\ es[k].step = "ok" =>
                  /\ r.fw.alpha = r.alpha /\ r.power = r.alpha /\ ~r.change
                  /\ node.found => node.missing \subseteq r.fw.off
             /\ r.change => Regd(SubSeq(es, 1, k - 1), node).suspended
  <2>1. k \in 1 .. n /\ es[k].ev = "notify" /\ ~Known(h[k - 1], es[k]) /\ k \in Nat
    BY <1>1, <1>8
  <2>2. Regd(SubSeq(es, 1, k - 1), node) = h[k - 1]
    BY <1>4, <1>5, <2>1
  <2>3. ASSUME NEW j \in 1 .. n, j > k PROVE SameCountry(h[j - 1], h[j])
    <3>1. j \notin Accepted(es, node)
      BY <1>1, <1>9, <2>1, <2>3
    <3> QED BY <1>7, <1>8, <3>1
  <2> DEFINE W == [j \in 0 .. n |-> IF j < k THEN RegdState ELSE {x \in RegdState : SameCountry(h[k], x)}]
  <2>4. \A j \in 0 .. n : W[j] = IF j < k THEN RegdState ELSE {x \in RegdState : SameCountry(h[k], x)}
    OBVIOUS
  <2> HIDE DEF W
  <2>5. h[0] \in W[0]
    <3>1. 0 \in 0 .. n /\ 0 < k
      BY <1>1, <2>1
    <3> QED BY <1>6, <2>4, <3>1
  <2>6. ASSUME NEW j \in 1 .. n, h[j - 1] \in W[j - 1] PROVE h[j] \in W[j]
    <3>1. j \in 0 .. n /\ j - 1 \in 0 .. n /\ j \in Nat /\ h[j] \in RegdState
      BY <1>1, <1>5, <1>6
    <3>2. CASE j < k
      BY <2>4, <3>1, <3>2
    <3>3. CASE j = k
      <4>1. SameCountry(h[k], h[k])
        BY DEF SameCountry
      <4>2. ~(j < k)
        BY <2>1, <3>3
      <4> QED BY <2>4, <3>1, <3>3, <4>1, <4>2
    <3>4. CASE j > k
      <4>1. ~(j < k) /\ ~(j - 1 < k)
        BY <2>1, <3>1, <3>4
      <4>2. SameCountry(h[k], h[j - 1])
        BY <2>4, <2>6, <3>1, <4>1
      <4>3. SameCountry(h[k], h[j])
        BY <2>3, <3>4, <4>2 DEF SameCountry
      <4> QED BY <2>4, <3>1, <4>1, <4>3
    <3> QED BY <2>1, <3>1, <3>2, <3>3, <3>4
  <2>7. SameCountry(h[k], r)
    <3>1. \A j \in 0 .. n : h[j] \in W[j]
      BY <1>1, <2>5, <2>6, Run
    <3>2. n \in 0 .. n /\ ~(n < k)
      BY <1>1, <2>1
    <3> QED BY <1>3, <2>4, <3>1, <3>2
  <2>8. /\ r.alpha = h[k].alpha /\ r.fw = h[k].fw /\ r.power = h[k].power /\ r.change = h[k].change
    BY <2>7 DEF SameCountry
  <2>9. ~h[k - 1].suspended =>
          /\ ~h[k].change
          /\ es[k].step = "ok" => /\ h[k].fw.alpha = h[k].alpha /\ h[k].power = h[k].alpha
                                  /\ node.found => node.missing \subseteq h[k].fw.off
    BY <1>7, <2>1
  <2> QED BY <2>2, <2>8, <2>9
<1> QED BY <1>9 DEF CountryIsTold

(***************************************************************************)
(* The invariant of the lists: each kept message is what the operators     *)
(* above make of its input.                                                *)
(***************************************************************************)
LEMMA ListsNext == ListsAreComplete /\ MsgNext => ListsAreComplete'
<1> SUFFICES ASSUME ListsAreComplete, MsgNext PROVE ListsAreComplete'
  OBVIOUS
<1>1. CASE Done
  BY <1>1 DEF Done, None, ListsAreComplete, Of
<1>2. CASE SetPower
  <2>1. PICK caps \in Caps, fails \in Fails :
          Make("power", [caps |-> caps, fails |-> fails], SetRateTxPower(caps, fails))
    BY <1>2 DEF SetPower
  <2> DEFINE in == [caps |-> caps, fails |-> fails]
             out == SetRateTxPower(caps, fails)
  <2>2. caps \in CapsInput /\ fails \in Nat \ {0} /\ in.caps = caps /\ in.fails = fails
    BY ListsAssumption, ImagesAssumption
  <2> HIDE DEF in
  <2>3. SentPower(in, out)
    BY <2>2, PowerSent
  <2>4. msg'.kind = "power" /\ msg'.in = in /\ msg'.out = out
    BY <2>1, Kinds DEF in
  <2> HIDE DEF out
  <2> QED BY <2>3, <2>4 DEF ListsAreComplete, Of
<1>3. CASE HwScan
  <2>1. PICK req \in Scans, busy \in BOOLEAN, sent \in BOOLEAN :
          Make("scan", [req |-> req, busy |-> busy, sent |-> sent], HwScanCmd(busy, sent, req))
    BY <1>3 DEF HwScan
  <2> DEFINE in == [req |-> req, busy |-> busy, sent |-> sent]
             out == HwScanCmd(busy, sent, req)
  <2>2. req \in ScanInput
    BY ListsAssumption
  <2>3. in.req = req /\ in.busy = busy /\ in.sent = sent
    OBVIOUS
  <2> HIDE DEF in
  <2>4. /\ out.scanning <=> busy \/ sent
        /\ \A k \in DOMAIN out.msgs : AsksFor(req, out.msgs[k])
        /\ busy <=> out.msgs = <<>>
    BY <2>2, ScanAnswers
  <2>5. msg'.kind = "scan" /\ msg'.in = in /\ msg'.out = out
    BY <2>1, Kinds DEF in
  <2> HIDE DEF out
  <2>6. /\ msg'.out.scanning <=> msg'.in.busy \/ msg'.in.sent
        /\ \A k \in DOMAIN msg'.out.msgs : AsksFor(msg'.in.req, msg'.out.msgs[k])
        /\ msg'.in.busy <=> msg'.out.msgs = <<>>
    BY <2>3, <2>4, <2>5
  <2> QED BY <2>5, <2>6 DEF ListsAreComplete, Of
<1>4. CASE SchedScan
  <2>1. PICK req \in Scans : Make("sched", req, SchedScanReq(req))
    BY <1>4 DEF SchedScan
  <2> DEFINE out == SchedScanReq(req)
  <2>2. req \in ScanInput
    BY ListsAssumption
  <2>3. /\ IsPrefix(out.chans, req.chans) /\ Len(out.chans) = out.n
        /\ out.n < Len(req.chans) => out.n = 64
    BY <2>2, SchedAsks
  <2>4. msg'.kind = "sched" /\ msg'.in = req /\ msg'.out = out
    BY <2>1, Kinds
  <2> HIDE DEF out
  <2> QED BY <2>3, <2>4 DEF ListsAreComplete, Of
<1>5. CASE Rnr
  <2>1. PICK r \in Rnrs : Make("rnr", r, BuildRnr(r.params, r.chans))
    BY <1>5 DEF Rnr
  <2> DEFINE t == BuildRnr(r.params, r.chans)
  <2>2. r \in RnrInput
    BY ListsAssumption
  <2>3. /\ Cardinality(BssidsOf(t)) = Len(t) /\ Len(t) <= RnrMax
        /\ BssidsOf(t) \subseteq BssidsOf(r.params)
        /\ Len(t) < RnrMax => BssidsOf(t) = BssidsOf(r.params)
    BY <2>2, RnrIsWhole
  <2>4. msg'.kind = "rnr" /\ msg'.in = r /\ msg'.out = t
    BY <2>1, Kinds
  <2> HIDE DEF t
  <2> QED BY <2>3, <2>4 DEF ListsAreComplete, Of
<1>6. CASE SetDomain
  <2>1. PICK sband \in Domains : Make("domain", sband, ChannelDomain(sband))
    BY <1>6 DEF SetDomain
  <2> DEFINE out == ChannelDomain(sband)
  <2>2. sband \in DomainInput
    BY ListsAssumption
  <2>3. DomainIsTold(sband, out)
    BY <2>2, DomainIs
  <2>4. msg'.kind = "domain" /\ msg'.in = sband /\ msg'.out = out
    BY <2>1, Kinds
  <2> HIDE DEF out
  <2> QED BY <2>3, <2>4 DEF ListsAreComplete, Of
<1>7. CASE Filters
  <2>1. PICK a \in Addrs, fails \in 1 .. 3 :
          Make("filter", a, [arp |-> ArpFilter(a), ns |-> NsWork(NsFilter(a), fails), fails |-> fails])
    BY <1>7 DEF Filters
  <2> DEFINE out == [arp |-> ArpFilter(a), ns |-> NsWork(NsFilter(a), fails), fails |-> fails]
  <2>2. a \in AddrsInput
    BY ListsAssumption
  <2>3. out.arp = ArpFilter(a) /\ out.ns = NsWork(NsFilter(a), fails) /\ out.fails = fails
    OBVIOUS
  <2> HIDE DEF out
  <2>4. FiltersFit(a, out)
    BY <2>2, <2>3, FiltersAre
  <2>5. msg'.kind = "filter" /\ msg'.in = a /\ msg'.out = out
    BY <2>1, Kinds DEF out
  <2> QED BY <2>4, <2>5 DEF ListsAreComplete, Of
<1>8. CASE Country
  <2>1. PICK es \in Notices, node \in Nodes : Make("regd", [es |-> es, node |-> node], Regd(es, node))
    BY <1>8 DEF Country
  <2> DEFINE in == [es |-> es, node |-> node]
             out == Regd(es, node)
  <2>2. es \in Seq(RegdEvent) /\ node \in NodeInput
    BY ListsAssumption
  <2>3. in.es = es /\ in.node = node
    OBVIOUS
  <2> HIDE DEF in
  <2>4. CountryIsTold(es, node, out)
    BY <2>2, CountryTold
  <2>5. msg'.kind = "regd" /\ msg'.in = in /\ msg'.out = out
    BY <2>1, Kinds DEF in
  <2> HIDE DEF out
  <2> QED BY <2>3, <2>4, <2>5 DEF ListsAreComplete, Of
<1>9. CASE msg'.kind \notin {"power", "scan", "sched", "rnr", "domain", "filter", "regd"}
  BY <1>9 DEF ListsAreComplete, Of
<1> QED BY <1>1, <1>2, <1>3, <1>4, <1>5, <1>6, <1>7, <1>8, <1>9, KindOf

(***************************************************************************)
(* ListsAreComplete: for any list of channels, parameters, addresses or    *)
(* notifications, whatever its length, what is sent has all that fits and  *)
(* nothing else, the last batch and no other is marked, and the firmware   *)
(* has been told the last country (standalone_mt76_connac_mcu.c, regd.c,   *)
(* mt7921/main.c).                                                         *)
(***************************************************************************)
THEOREM ListsStayComplete == MsgSpec => []ListsAreComplete
<1>1. MsgInit => ListsAreComplete
  BY DEF MsgInit, None, ListsAreComplete, Of
<1>2. ListsAreComplete /\ [MsgNext]_msg => ListsAreComplete'
  <2>1. UNCHANGED msg /\ ListsAreComplete => ListsAreComplete'
    BY DEF ListsAreComplete, Of
  <2> QED BY <2>1, ListsNext
<1> QED BY <1>1, <1>2, PTL DEF MsgSpec

-----------------------------------------------------------------------------
(* Received frames: what fill_rx makes of a descriptor.                    *)

RxState == [ts : Nat, ref : Nat]
RxSome == RxState \X RxDescriptor
RxFramesOf(V) ==
  [id : Nat, wcid : {"none", "vif", "sta"}, e8023 : BOOLEAN,
   rate : {RateIndex(f, BandOf(f.chfreq)) : f \in RxDescriptor} \cup {0},
   bw : {RxBandwidth(f) : f \in RxDescriptor} \cup {"20"},
   a3 : {ReverseFrag0(f).a3 : f \in RxDescriptor} \cup {"own"},
   monitor : BOOLEAN, decrypted : BOOLEAN, stripped : BOOLEAN, iv : Nat, validated : V,
   mgmt : BOOLEAN, toDs : BOOLEAN, later : BOOLEAN, ref : Nat, amsdu : BOOLEAN, first : BOOLEAN, last : BOOLEAN,
   aggr : BOOLEAN, seqno : Nat, tid : 0 .. 15, start : Nat, llc : BOOLEAN]
RxFrames == RxFramesOf({FALSE})

\* The fields of a descriptor.
LEMMA Descriptor ==
  ASSUME NEW f \in RxDescriptor
  PROVE  /\ f.id \in Nat /\ f.words \in Nat /\ f.words > 6 /\ f.pad \in {0, 1}
         /\ f.groups \subseteq 1 .. 5 /\ f.seq \in Nat /\ f.tid \in 0 .. 15 /\ f.pn \in Nat
         /\ f.ts \in Nat /\ f.llc \in BOOLEAN /\ f.later \in BOOLEAN /\ f.icv \in BOOLEAN
         /\ f.ampdu \in BOOLEAN /\ f.amsdu \in {"no", "first", "mid", "last"}
         /\ f.wcid \in {"none", "vif", "sta"} /\ f.unicast \in BOOLEAN /\ f.trans \in BOOLEAN
  BY DEF RxDescriptor

\* The words of the groups, and where what follows them starts.
LEMMA Groups ==
  ASSUME NEW f \in RxDescriptor
  PROVE  /\ GroupEnds(f)[5] \in Nat
         /\ ~Truncated(f) => GroupEnds(f)[5] < f.words /\ ~Short(f, 2)
<1> DEFINE w(g) == GroupWords(f, g)
           has(g) == HasGroup(f, g)
<1>1. /\ \A g \in 1 .. 5 : w(g) \in Nat /\ (~has(g) => w(g) = 0)
      /\ f.words \in Nat /\ f.words > 6
  BY Descriptor DEF GroupWords
<1>2. /\ GroupOrder[1] = 4 /\ GroupOrder[2] = 1 /\ GroupOrder[3] = 2 /\ GroupOrder[4] = 3
      /\ GroupOrder[5] = 5
  BY DEF GroupOrder
<1>3. /\ GroupEnds(f)[1] = 6 + w(4)
      /\ GroupEnds(f)[2] = 6 + w(4) + w(1)
      /\ GroupEnds(f)[3] = 6 + w(4) + w(1) + w(2)
      /\ GroupEnds(f)[4] = 6 + w(4) + w(1) + w(2) + w(3)
      /\ GroupEnds(f)[5] = 6 + w(4) + w(1) + w(2) + w(3) + w(5)
  BY DEF GroupEnds
<1> HIDE DEF w
<1>4. ASSUME ~Truncated(f) PROVE GroupEnds(f)[5] < f.words
  <2>1. \A k \in 1 .. 5 : has(GroupOrder[k]) => ~(GroupEnds(f)[k] >= f.words)
    BY <1>4 DEF Truncated, Short
  <2> HIDE DEF has
  <2>2. \A g \in 1 .. 5 : w(g) \in Nat /\ (~has(g) => w(g) = 0)
    BY <1>1 DEF has
  <2>3. /\ has(4) => 6 + w(4) < f.words
        /\ has(1) => 6 + w(4) + w(1) < f.words
        /\ has(2) => 6 + w(4) + w(1) + w(2) < f.words
        /\ has(3) => 6 + w(4) + w(1) + w(2) + w(3) < f.words
        /\ has(5) => 6 + w(4) + w(1) + w(2) + w(3) + w(5) < f.words
    BY <1>1, <1>2, <1>3, <2>1, <2>2
  <2>4. 6 + w(4) < f.words
    BY <1>1, <2>2, <2>3
  <2>5. 6 + w(4) + w(1) < f.words
    BY <1>1, <2>2, <2>3, <2>4
  <2>6. 6 + w(4) + w(1) + w(2) < f.words
    BY <1>1, <2>2, <2>3, <2>5
  <2>7. 6 + w(4) + w(1) + w(2) + w(3) < f.words
    BY <1>1, <2>2, <2>3, <2>6
  <2> QED BY <1>1, <1>3, <2>2, <2>3, <2>7
<1>5. ~Truncated(f) => ~Short(f, 2)
  BY DEF Truncated, Short
<1> QED BY <1>1, <1>3, <1>4, <1>5

\* Named truth values, for the fields that are formulas.
LEMMA Truths ==
  \A f : /\ Translated(f) \in BOOLEAN /\ Decrypted(f) \in BOOLEAN /\ KnownQos(f) \in BOOLEAN
         /\ MoreFrags(f) \in BOOLEAN /\ HasIv(f) \in BOOLEAN /\ InsertCcmp(f) \in BOOLEAN
         /\ InAmpdu(f) \in BOOLEAN
  BY DEF Translated, Decrypted, KnownQos, MoreFrags, HasIv, InsertCcmp, InAmpdu

\* The reference of the A-MPDUs: another timestamp, another reference.
LEMMA References ==
  ASSUME NEW rx \in RxState, NEW f \in RxDescriptor
  PROVE  LET new == AmpduStep(rx, f)
         IN /\ new \in RxState
            /\ (rx.ts # 0 => rx.ref # 0) => (new.ts # 0 => new.ref # 0)
            /\ ~FillRxError(f) /\ InAmpdu(f) =>
                 /\ new.ts = f.ts
                 /\ new.ref = rx.ref <=> rx.ts = f.ts
            /\ ~FillRxError(f) /\ ~InAmpdu(f) => new = rx
<1>1. f.ts \in Nat /\ rx.ts \in Nat /\ rx.ref \in Nat /\ RefMod \in Nat /\ RefMod > 2
  BY Descriptor, RefAssumption DEF RxState
<1>2. NextRef(rx.ref) \in Nat /\ NextRef(rx.ref) # rx.ref /\ NextRef(rx.ref) # 0
  <2>1. CASE (rx.ref + 1) % RefMod = 0
    <3>1. rx.ref # 1
      BY <1>1, <2>1
    <3> QED BY <1>1, <2>1, <3>1 DEF NextRef
  <2>2. CASE (rx.ref + 1) % RefMod # 0
    BY <1>1, <2>2 DEF NextRef
  <2> QED BY <2>1, <2>2
<1>3. ~FillRxError(f) => ~EarlyError(f) /\ ~Short(f, 2)
  BY Groups DEF FillRxError
<1> DEFINE moved == [ts |-> f.ts, ref |-> NextRef(rx.ref)]
<1>4. CASE ~EarlyError(f) /\ ~Short(f, 2) /\ InAmpdu(f) /\ rx.ts # f.ts
  <2>1. AmpduStep(rx, f) = moved
    BY <1>4, Zenon DEF AmpduStep
  <2>2. moved \in RxState /\ moved.ts = f.ts /\ moved.ref = NextRef(rx.ref)
    BY <1>1, <1>2 DEF RxState
  <2> HIDE DEF moved
  <2> QED BY <1>2, <1>4, <2>1, <2>2
<1>5. CASE ~(~EarlyError(f) /\ ~Short(f, 2) /\ InAmpdu(f) /\ rx.ts # f.ts)
  <2>1. AmpduStep(rx, f) = rx
    BY <1>5, Zenon DEF AmpduStep
  <2> QED BY <1>3, <1>5, <2>1
<1> QED BY <1>4, <1>5

\* What is handed on of a frame.
FrameOf(rx, f, s) ==
  /\ s \in RxFrames /\ s.id = f.id /\ ~s.validated /\ s.wcid = RxGetWcid(f)
  /\ s.amsdu <=> f.amsdu # "no"
  /\ s.first <=> f.amsdu = "first"
  /\ s.last <=> f.amsdu = "last"
  /\ s.llc <=> f.llc
  /\ KnownQos(f) => s.seqno = f.seq
  /\ s.ref = IF InAmpdu(f) THEN AmpduStep(rx, f).ref ELSE 0
  /\ ~Truncated(f) => s.start <= 4 * f.words
LEMMA FillsFrame ==
  ASSUME NEW rx \in RxState, NEW f \in RxDescriptor
  PROVE  FrameOf(rx, f, FillRx(rx, f))
<1> DEFINE start == 4 * GroupEnds(f)[5] + 2 * f.pad + (IF ~f.trans /\ f.amsdu # "no" THEN 2 ELSE 0)
           ref == IF InAmpdu(f) THEN AmpduStep(rx, f).ref ELSE 0
           rate == IF 3 \in f.groups THEN RateIndex(f, BandOf(f.chfreq)) ELSE 0
           bw == IF 3 \in f.groups THEN RxBandwidth(f) ELSE "20"
           a3 == IF f.trans /\ MoreFrags(f) THEN ReverseFrag0(f).a3 ELSE "own"
           iv == IF HasIv(f) THEN f.pn ELSE 0
           seqno == IF KnownQos(f) THEN f.seq ELSE 0
           tid == IF KnownQos(f) THEN f.tid ELSE 0
           wcid == RxGetWcid(f)
           Is(e8023, decrypted, stripped, mgmt, toDs, amsdu, first, last, aggr) ==
             [id |-> f.id, wcid |-> wcid, e8023 |-> e8023, rate |-> rate, bw |-> bw, a3 |-> a3,
              monitor |-> f.icv, decrypted |-> decrypted, stripped |-> stripped, iv |-> iv,
              validated |-> FALSE, mgmt |-> mgmt, toDs |-> toDs, later |-> f.later, ref |-> ref, amsdu |-> amsdu,
              first |-> first, last |-> last, aggr |-> aggr, seqno |-> seqno, tid |-> tid,
              start |-> start, llc |-> f.llc]
<1>1. start \in Nat /\ (~Truncated(f) => start <= 4 * f.words)
  BY Descriptor, Groups
<1>2. ref \in Nat
  <2>1. AmpduStep(rx, f) \in RxState
    BY References
  <2> QED BY <2>1 DEF RxState
<1>3. rate \in {RateIndex(g, BandOf(g.chfreq)) : g \in RxDescriptor} \cup {0}
  OBVIOUS
<1>4. bw \in {RxBandwidth(g) : g \in RxDescriptor} \cup {"20"}
  OBVIOUS
<1>5. a3 \in {ReverseFrag0(g).a3 : g \in RxDescriptor} \cup {"own"}
  OBVIOUS
<1>6. iv \in Nat /\ seqno \in Nat /\ tid \in 0 .. 15 /\ wcid \in {"none", "vif", "sta"}
  BY Descriptor DEF RxGetWcid
<1>7. KnownQos(f) => seqno = f.seq
  OBVIOUS
<1> HIDE DEF start, ref, rate, bw, a3, iv, seqno, tid, wcid
<1>8. PICK e8023 \in BOOLEAN : e8023 = Translated(f)
  BY Truths
<1>9. PICK decrypted \in BOOLEAN : decrypted = Decrypted(f)
  BY Truths
<1>10. PICK stripped \in BOOLEAN :
         stripped = (Decrypted(f) /\ (Translated(f) \/ ~InsertCcmp(f)))
  OBVIOUS
<1>11. PICK mgmt \in BOOLEAN : mgmt = (f.ctl = "mgmt" /\ ~Translated(f))
  OBVIOUS
<1>22. PICK toDs \in BOOLEAN : toDs = ("to" \in f.ds)
  <2>1. ("to" \in f.ds) \in BOOLEAN
    OBVIOUS
  <2> QED BY <2>1, Zenon
<1>12. PICK amsdu \in BOOLEAN : amsdu = (f.amsdu # "no")
  OBVIOUS
<1>13. PICK first \in BOOLEAN : first = (f.amsdu = "first")
  OBVIOUS
<1>14. PICK last \in BOOLEAN : last = (f.amsdu = "last")
  OBVIOUS
<1>15. PICK aggr \in BOOLEAN : aggr = (KnownQos(f) /\ f.unicast /\ f.ctl = "qos")
  OBVIOUS
<1>16. FillRx(rx, f) = Is(e8023, decrypted, stripped, mgmt, toDs, amsdu, first, last, aggr)
  BY <1>8, <1>9, <1>10, <1>11, <1>12, <1>13, <1>14, <1>15, <1>22, Zenon
     DEF FillRx, start, ref, rate, bw, a3, iv, seqno, tid, wcid
<1> DEFINE s == Is(e8023, decrypted, stripped, mgmt, toDs, amsdu, first, last, aggr)
<1>17. s \in RxFrames
  BY <1>1, <1>2, <1>3, <1>4, <1>5, <1>6, Descriptor DEF RxFrames, RxFramesOf
<1>18. /\ s.id = f.id /\ ~s.validated /\ s.wcid = wcid /\ s.amsdu = amsdu /\ s.first = first
       /\ s.last = last /\ s.llc = f.llc /\ s.seqno = seqno /\ s.ref = ref /\ s.start = start
  OBVIOUS
<1>21. FillRx(rx, f) = s
  BY <1>16
<1> HIDE DEF s
<1>19. /\ s.amsdu <=> f.amsdu # "no"
       /\ s.first <=> f.amsdu = "first"
       /\ s.last <=> f.amsdu = "last"
       /\ s.llc <=> f.llc
  BY <1>12, <1>13, <1>14, <1>18
<1>20. FrameOf(rx, f, s)
  BY <1>1, <1>7, <1>17, <1>18, <1>19 DEF FrameOf, ref, wcid
<1> QED BY <1>20, <1>21

-----------------------------------------------------------------------------
(* A-MSDUs: the run through the frames of a queue.                         *)

RxQueue == [head : Seq(RxFrames), out : Seq(Seq(RxFrames))]
Receiving == [rx : RxState, q : RxQueue]
ReleasedOut(q) ==
  IF Len(q.head) > 1 /\ q.head[1].llc THEN q.out ELSE Append(q.out, q.head)

\* A release empties the head.
LEMMA ReleaseIs ==
  ASSUME NEW q \in RxQueue
  PROVE  /\ ReleaseAmsdu(q) \in RxQueue
         /\ ReleaseAmsdu(q).head = <<>> /\ ReleaseAmsdu(q).out = ReleasedOut(q)
<1>1. q.head \in Seq(RxFrames) /\ q.out \in Seq(Seq(RxFrames))
  BY DEF RxQueue
<1>2. ReleaseAmsdu(q) = [head |-> <<>>, out |-> ReleasedOut(q)]
  BY DEF ReleaseAmsdu, ReleasedOut
<1>3. ReleasedOut(q) \in Seq(Seq(RxFrames))
  BY <1>1 DEF ReleasedOut
<1>4. <<>> \in Seq(RxFrames)
  OBVIOUS
<1> QED BY <1>2, <1>3, <1>4 DEF RxQueue

\* A frame joins what is gathered, after a release if it starts anew, and
\* before one if it ends it.
Before1(q, s) == IF StartsAnew(q, s) THEN ReleaseAmsdu(q) ELSE q
Gathers(b, s) == [head |-> Append(b.head, s), out |-> b.out]
LEMMA BurstIs ==
  ASSUME NEW q \in RxQueue, NEW s \in RxFrames
  PROVE  LET b == Before1(q, s)
             g == Gathers(b, s)
         IN /\ b \in RxQueue /\ g \in RxQueue /\ ReleaseBurst(q, s) \in RxQueue
            /\ ReleaseBurst(q, s) = IF ~s.amsdu \/ s.last THEN ReleaseAmsdu(g) ELSE g
<1> DEFINE b == Before1(q, s)
           g == Gathers(b, s)
<1>1. b \in RxQueue
  BY ReleaseIs DEF Before1
<1> HIDE DEF b
<1>2. g \in RxQueue
  BY <1>1 DEF RxQueue, Gathers
<1>3. [b EXCEPT !.head = Append(@, s)] = g
  <2>1. PICK x : x = Append(b.head, s)
    OBVIOUS
  <2>2. b = [head |-> b.head, out |-> b.out]
    BY <1>1 DEF RxQueue
  <2>3. [b EXCEPT !.head = x] = [head |-> x, out |-> b.out]
    BY <2>2
  <2> QED BY <2>1, <2>3 DEF Gathers
<1>4. ReleaseBurst(q, s) = IF ~s.amsdu \/ s.last THEN ReleaseAmsdu(g) ELSE g
  BY <1>3, Zenon DEF ReleaseBurst, b, Before1
<1>5. ReleaseAmsdu(g) \in RxQueue
  BY <1>2, ReleaseIs
<1> HIDE DEF g
<1>6. b \in RxQueue /\ g \in RxQueue /\ ReleaseBurst(q, s) \in RxQueue
      /\ ReleaseBurst(q, s) = IF ~s.amsdu \/ s.last THEN ReleaseAmsdu(g) ELSE g
  BY <1>1, <1>2, <1>4, <1>5
<1> QED BY <1>6 DEF b, g

\* One frame.
LEMMA ReceiveIs ==
  ASSUME NEW st \in Receiving, NEW f \in RxDescriptor
  PROVE  /\ Receive(st, f) \in Receiving /\ Receive(st, f).rx = AmpduStep(st.rx, f)
         /\ FillRxError(f) => Receive(st, f).q = st.q
         /\ ~FillRxError(f) => Receive(st, f).q = ReleaseBurst(st.q, FillRx(st.rx, f))
<1>1. st.rx \in RxState /\ st.q \in RxQueue
  BY DEF Receiving
<1>2. AmpduStep(st.rx, f) \in RxState /\ FillRx(st.rx, f) \in RxFrames
  BY <1>1, References, FillsFrame DEF FrameOf
<1>3. ReleaseBurst(st.q, FillRx(st.rx, f)) \in RxQueue
  BY <1>1, <1>2, BurstIs
<1> DEFINE q == IF FillRxError(f) THEN st.q ELSE ReleaseBurst(st.q, FillRx(st.rx, f))
<1>4. q \in RxQueue
  BY <1>1, <1>3
<1>5. Receive(st, f) = [rx |-> AmpduStep(st.rx, f), q |-> q]
  BY Zenon DEF Receive
<1>6. /\ FillRxError(f) => q = st.q
      /\ ~FillRxError(f) => q = ReleaseBurst(st.q, FillRx(st.rx, f))
  OBVIOUS
<1> HIDE DEF q
<1> QED BY <1>2, <1>4, <1>5, <1>6 DEF Receiving

LEMMA ReceiveBegins == NewQueue \in Receiving
  BY DEF NewQueue, Receiving, RxState, RxQueue

\* What is received is a run through the frames.
LEMMA ReceiveRuns ==
  ASSUME NEW es \in Seq(RxDescriptor)
  PROVE  \E h : /\ h[0] = NewQueue /\ ReceiveAll(es) = h[Len(es)]
                /\ \A k \in 0 .. Len(es) : h[k] \in Receiving
                /\ \A k \in 1 .. Len(es) : h[k] = Receive(h[k - 1], es[k])
<1> DEFINE n == Len(es)
           base == NewQueue
           step == [p \in (1 .. n) \X Receiving |-> Receive(p[2], es[p[1]])]
           Body(f) == [U \in SUBSET (1 .. n) |->
                         IF U = {} THEN base ELSE Receive(f[U \ {Max(U)}], es[Max(U)])]
           it == CHOOSE f : f = Body(f)
           h == [k \in 0 .. n |-> it[1 .. k]]
<1>1. n \in Nat /\ DOMAIN es = 1 .. n /\ \A k \in 1 .. n : es[k] \in RxDescriptor
  OBVIOUS
<1>2. base \in Receiving /\ step \in [(1 .. n) \X Receiving -> Receiving]
  <2>1. ASSUME NEW p \in (1 .. n) \X Receiving PROVE Receive(p[2], es[p[1]]) \in Receiving
    <3>1. p[2] \in Receiving /\ es[p[1]] \in RxDescriptor
      BY <1>1
    <3> QED BY <3>1, ReceiveBegins, ReceiveIs
  <2>2. base \in Receiving
    BY ReceiveBegins, ReceiveIs
  <2> HIDE DEF base
  <2> QED BY <2>1, <2>2
<1>3. PICK f : IsFold(f, n, Receiving, base, step)
  <2> HIDE DEF step, base, n
  <2> QED BY <1>1, <1>2, FoldExists
<1>4. \A U \in SUBSET (1 .. n) : U # {} => Max(U) \in 1 .. n /\ U \ {Max(U)} \in SUBSET (1 .. n)
  BY <1>1, MaxIndex
<1>5. f \in [SUBSET (1 .. n) -> Receiving] /\ f = Body(f)
  <2>1. ASSUME NEW U \in SUBSET (1 .. n), U # {}
        PROVE  f[U] = Receive(f[U \ {Max(U)}], es[Max(U)])
    <3> DEFINE T == U \ {Max(U)}
               m == Max(U)
    <3>1. m \in 1 .. n /\ T \in SUBSET (1 .. n)
      BY <1>4, <2>1
    <3>2. f[T] \in Receiving /\ f[U] = step[<<m, f[T]>>]
      <4> HIDE DEF step, base
      <4> QED BY <1>3, <2>1, <3>1 DEF IsFold
    <3> HIDE DEF T, m, n, base
    <3>3. f[U] = Receive(f[T], es[m])
      BY <3>1, <3>2
    <3> QED BY <3>3 DEF T, m
  <2> HIDE DEF step, base
  <2>2. f \in [SUBSET (1 .. n) -> Receiving] /\ f[{}] = base
    BY <1>1, <1>3, Prefix DEF IsFold
  <2> HIDE DEF n
  <2> QED BY <2>1, <2>2
<1>6. it = Body(it)
  BY <1>5
<1>7. ReceiveAll(es) = it[1 .. n]
  BY <1>1 DEF ReceiveAll, FoldLeft, MapThenFoldSet
<1> HIDE DEF it, base, n, step
<1>8. h[0] = base
  BY <1>1, <1>6, Prefix
<1>9. ASSUME NEW k \in 1 .. n PROVE h[k] = Receive(h[k - 1], es[k])
  <2>1. k \in 0 .. n /\ k - 1 \in 0 .. n
    BY <1>1
  <2>2. it[1 .. k] = Receive(it[1 .. (k - 1)], es[k])
    <3>1. /\ 1 .. k \in SUBSET (1 .. n) /\ 1 .. k # {}
          /\ Max(1 .. k) = k /\ (1 .. k) \ {k} = 1 .. (k - 1)
      BY <1>1, Prefix
    <3>2. \A U \in SUBSET (1 .. n) :
            U # {} => it[U] = Receive(it[U \ {Max(U)}], es[Max(U)])
      BY <1>6
    <3>3. it[1 .. k] = Receive(it[(1 .. k) \ {Max(1 .. k)}], es[Max(1 .. k)])
      BY <3>1, <3>2
    <3> QED BY <3>1, <3>3
  <2>3. h[k] = it[1 .. k] /\ h[k - 1] = it[1 .. (k - 1)]
    BY <2>1
  <2> HIDE DEF h
  <2> QED BY <2>2, <2>3
<1>10. h[n] = it[1 .. n]
  BY <1>1
<1> HIDE DEF h
<1>11. \A k \in 0 .. n : h[k] \in Receiving
  <2> DEFINE W == [k \in 0 .. n |-> Receiving]
  <2>1. h[0] \in W[0]
    BY <1>1, <1>2, <1>8
  <2>2. ASSUME NEW k \in 1 .. n, h[k - 1] \in W[k - 1] PROVE h[k] \in W[k]
    <3>1. k \in 0 .. n /\ h[k - 1] \in Receiving /\ es[k] \in RxDescriptor
      BY <1>1, <2>2
    <3>2. Receive(h[k - 1], es[k]) \in Receiving
      BY <3>1, ReceiveBegins, ReceiveIs
    <3> QED BY <1>9, <3>1, <3>2
  <2>3. \A k \in 0 .. n : h[k] \in W[k]
    <3> HIDE DEF W
    <3> QED BY <1>1, <2>1, <2>2, Run
  <2> QED BY <2>3
<1> QED BY <1>7, <1>8, <1>9, <1>10, <1>11 DEF n, base

\* A sequence more in a sequence of sequences.
LEMMA FlattenMore ==
  ASSUME NEW V, NEW bs \in Seq(Seq(V)), NEW b \in Seq(V)
  PROVE  /\ FlattenSeq(bs) \in Seq(V)
         /\ FlattenSeq(Append(bs, b)) = FlattenSeq(bs) \o b
<1> DEFINE n == Len(bs)
           cs == Append(bs, b)
<1>1. /\ n \in Nat /\ bs \in [1 .. n -> Seq(V)]
      /\ cs \in [1 .. n + 1 -> Seq(V)] /\ cs[n + 1] = b /\ \A k \in 1 .. n : cs[k] = bs[k]
  <2> DEFINE S == Seq(V)
  <2>1. b \in S /\ bs \in Seq(S)
    OBVIOUS
  <2> HIDE DEF S
  <2>2. cs \in Seq(S) /\ Len(cs) = n + 1 /\ cs[n + 1] = b /\ \A k \in 1 .. n : cs[k] = bs[k]
    BY <2>1
  <2>3. n \in Nat /\ bs \in [1 .. n -> S]
    BY <2>1
  <2> HIDE DEF cs, n
  <2>4. cs \in [1 .. n + 1 -> S]
    BY <2>2, <2>3
  <2> QED BY <2>2, <2>3, <2>4 DEF S
<1> HIDE DEF n, cs
<1>2. PICK g : Pieces(g, bs, n, V)
  BY <1>1, Flattens
<1>3. PICK h : Pieces(h, cs, n + 1, V)
  BY <1>1, Flattens
<1>4. /\ g \in [0 .. n -> Seq(V)] /\ g[0] = <<>> /\ FlattenSeq(bs) = g[n]
      /\ \A k \in 1 .. n : g[k] = g[k - 1] \o bs[k]
      /\ h[0] = <<>> /\ FlattenSeq(cs) = h[n + 1]
      /\ \A k \in 1 .. n + 1 : h[k] = h[k - 1] \o cs[k]
  BY <1>2, <1>3 DEF Pieces
<1>5. h[n] = g[n]
  <2> DEFINE W == [k \in 0 .. n |-> {g[k]}]
  <2>1. h[0] \in W[0]
    BY <1>1, <1>4
  <2>2. ASSUME NEW k \in 1 .. n, h[k - 1] \in W[k - 1] PROVE h[k] \in W[k]
    <3>1. k \in 0 .. n /\ k \in 1 .. n + 1 /\ h[k - 1] = g[k - 1]
      BY <1>1, <2>2
    <3>2. h[k] = g[k]
      BY <1>1, <1>4, <3>1
    <3> QED BY <3>1, <3>2
  <2> HIDE DEF W
  <2>3. \A k \in 0 .. n : h[k] \in W[k]
    BY <1>1, <2>1, <2>2, Run
  <2> USE DEF W
  <2> QED BY <1>1, <2>3
<1>6. h[n + 1] = h[n] \o b
  <2>1. PICK m \in 1 .. n + 1 : m = n + 1 /\ m - 1 = n
    BY <1>1
  <2>2. h[m] = h[m - 1] \o cs[m]
    BY <1>4, <2>1
  <2> QED BY <1>1, <2>1, <2>2
<1>7. g[n] \in Seq(V)
  BY <1>1, <1>4
<1> QED BY <1>4, <1>5, <1>6, <1>7 DEF cs

LEMMA FlattenNone == ASSUME NEW V PROVE FlattenSeq(<<>>) = <<>> /\ <<>> \in Seq(V)
<1> DEFINE bs == <<>>
<1>1. bs \in [1 .. 0 -> Seq(V)]
  OBVIOUS
<1> HIDE DEF bs
<1>2. PICK g : Pieces(g, bs, 0, V)
  BY <1>1, Flattens
<1>3. FlattenSeq(bs) = <<>>
  BY <1>2 DEF Pieces
<1> QED BY <1>3 DEF bs

\* What is kept of the frames: the bursts, then what is gathered.
Kept(q) == FlattenSeq(q.out) \o q.head

\* Two sequences and one behind the other.
LEMMA Joining ==
  ASSUME NEW V, NEW s \in Seq(V), NEW t \in Seq(V)
  PROVE  /\ s \o t \in Seq(V) /\ Len(s \o t) = Len(s) + Len(t)
         /\ \A k \in 1 .. Len(s) : (s \o t)[k] = s[k]
         /\ \A k \in 1 .. Len(t) : (s \o t)[Len(s) + k] = t[k]
         /\ \A x \in V : s \o Append(t, x) = Append(s \o t, x)
         /\ (s \o t) \o <<>> = s \o t /\ s \o <<>> = s
<1>1. s \o t \in Seq(V) /\ Joined(s \o t, s, t)
  BY Concat
<1>2. \A x \in V : s \o Append(t, x) = Append(s \o t, x)
  OBVIOUS
<1>3. (s \o t) \o <<>> = s \o t /\ s \o <<>> = s
  OBVIOUS
<1> QED BY <1>1, <1>2, <1>3 DEF Joined

LEMMA KeptIs ==
  ASSUME NEW q \in RxQueue
  PROVE  LET a == FlattenSeq(q.out)
         IN /\ a \in Seq(RxFrames) /\ q.head \in Seq(RxFrames) /\ Kept(q) \in Seq(RxFrames)
            /\ Len(Kept(q)) = Len(a) + Len(q.head)
            /\ \A k \in 1 .. Len(a) : Kept(q)[k] = a[k]
            /\ \A k \in 1 .. Len(q.head) : Kept(q)[Len(a) + k] = q.head[k]
            /\ Kept(ReleaseAmsdu(q)) =
                 IF Len(q.head) > 1 /\ q.head[1].llc THEN a ELSE Kept(q)
            /\ \A s \in RxFrames : Kept(Gathers(q, s)) = Append(Kept(q), s)
<1> DEFINE a == FlattenSeq(q.out)
<1>1. q.head \in Seq(RxFrames) /\ q.out \in Seq(Seq(RxFrames))
  BY DEF RxQueue
<1>2. a \in Seq(RxFrames) /\ FlattenSeq(Append(q.out, q.head)) = a \o q.head
  BY <1>1, FlattenMore
<1> HIDE DEF a
<1>3. /\ a \o q.head \in Seq(RxFrames) /\ Len(a \o q.head) = Len(a) + Len(q.head)
      /\ \A k \in 1 .. Len(a) : (a \o q.head)[k] = a[k]
      /\ \A k \in 1 .. Len(q.head) : (a \o q.head)[Len(a) + k] = q.head[k]
      /\ \A x \in RxFrames : a \o Append(q.head, x) = Append(a \o q.head, x)
      /\ (a \o q.head) \o <<>> = a \o q.head /\ a \o <<>> = a
  BY <1>1, <1>2, Joining
<1>4. Kept(q) = a \o q.head
  BY DEF Kept, a
<1>5. Kept(ReleaseAmsdu(q)) = FlattenSeq(ReleasedOut(q)) \o <<>>
  BY ReleaseIs DEF Kept
<1>6. FlattenSeq(ReleasedOut(q)) =
        IF Len(q.head) > 1 /\ q.head[1].llc THEN a ELSE a \o q.head
  BY <1>2 DEF ReleasedOut, a
<1>7. Kept(ReleaseAmsdu(q)) = IF Len(q.head) > 1 /\ q.head[1].llc THEN a ELSE Kept(q)
  BY <1>3, <1>4, <1>5, <1>6
<1>8. ASSUME NEW s \in RxFrames PROVE Kept(Gathers(q, s)) = Append(Kept(q), s)
  <2>1. Kept(Gathers(q, s)) = a \o Append(q.head, s)
    BY DEF Kept, Gathers, a
  <2> QED BY <1>3, <1>4, <2>1
<1> QED BY <1>1, <1>2, <1>3, <1>4, <1>7, <1>8 DEF a

\* A run through the frames that were received.
RxHistory(fs, h) ==
  /\ h[0] = NewQueue /\ \A k \in 0 .. Len(fs) : h[k] \in Receiving
  /\ \A k \in 1 .. Len(fs) : h[k] = Receive(h[k - 1], fs[k])

\* What became of frame i, and of the frames up to k: each is handed on in its
\* turn, or was in error, or in an A-MSDU that was refused.
Handed(fs, h, k, s) ==
  s.id \in Good(fs) /\ s.id <= k /\ s = FillRx(h[s.id - 1].rx, fs[s.id])
Refused(fs, i) == \E j \in DOMAIN fs : j <= i /\ fs[j].llc /\ fs[j].amsdu # "no"
KeptInv(fs, h, k, kept) ==
  /\ \A n \in 1 .. Len(kept) : Handed(fs, h, k, kept[n])
  /\ \A m, n \in 1 .. Len(kept) : m < n => kept[m].id < kept[n].id
  /\ \A i \in Good(fs) : i <= k => (\E n \in 1 .. Len(kept) : kept[n].id = i) \/ Refused(fs, i)
QueueInv(fs, h, k, q) ==
  /\ q \in RxQueue /\ KeptInv(fs, h, k, Kept(q))
  /\ \A b \in 1 .. Len(q.out) : OneAmsdu(q.out[b])
  /\ OneAmsdu(q.head)

\* What is known of a frame that came.
LEMMA HandedIs ==
  ASSUME NEW fs \in RxInput, NEW h, RxHistory(fs, h), NEW k \in Nat, NEW s, Handed(fs, h, k, s)
  PROVE  /\ s.id \in 1 .. Len(fs) /\ s.id \in DOMAIN fs /\ s.id \in Nat /\ s.id <= k
         /\ fs[s.id] \in RxDescriptor /\ ~FillRxError(fs[s.id])
         /\ h[s.id - 1] \in Receiving /\ h[s.id - 1].rx \in RxState
         /\ FrameOf(h[s.id - 1].rx, fs[s.id], s)
<1>1. fs \in Seq(RxDescriptor) /\ \A i \in DOMAIN fs : fs[i].id = i
  BY DEF RxInput
<1>2. s.id \in DOMAIN fs /\ ~FillRxError(fs[s.id]) /\ s.id <= k
  BY DEF Handed, Good
<1>3. s.id \in 1 .. Len(fs) /\ fs[s.id] \in RxDescriptor /\ Len(fs) \in Nat
  BY <1>1, <1>2
<1>4. s.id - 1 \in 0 .. Len(fs)
  BY <1>3
<1>5. h[s.id - 1] \in Receiving /\ h[s.id - 1].rx \in RxState
  BY <1>4 DEF RxHistory, Receiving
<1>6. FrameOf(h[s.id - 1].rx, fs[s.id], s)
  BY <1>3, <1>5, FillsFrame DEF Handed
<1> QED BY <1>2, <1>3, <1>5, <1>6

\* What is gathered is released, or refused.
LEMMA ReleaseKeeps ==
  ASSUME NEW fs \in RxInput, NEW h, RxHistory(fs, h), NEW k \in Nat,
         NEW q, QueueInv(fs, h, k, q), q.head # <<>>
  PROVE  QueueInv(fs, h, k, ReleaseAmsdu(q))
<1> DEFINE a == FlattenSeq(q.out)
           kept == Kept(q)
           r == ReleaseAmsdu(q)
<1>1. q \in RxQueue /\ KeptInv(fs, h, k, kept)
  BY DEF QueueInv
<1>2. /\ a \in Seq(RxFrames) /\ q.head \in Seq(RxFrames) /\ kept \in Seq(RxFrames)
      /\ Len(kept) = Len(a) + Len(q.head)
      /\ \A n \in 1 .. Len(a) : kept[n] = a[n]
      /\ \A n \in 1 .. Len(q.head) : kept[Len(a) + n] = q.head[n]
      /\ Kept(r) = IF Len(q.head) > 1 /\ q.head[1].llc THEN a ELSE kept
  BY <1>1, KeptIs
<1>3. r \in RxQueue /\ r.head = <<>> /\ r.out = ReleasedOut(q)
  BY <1>1, ReleaseIs
<1> HIDE DEF a, kept, r
<1>4. /\ \A n \in 1 .. Len(kept) : Handed(fs, h, k, kept[n])
      /\ \A m, n \in 1 .. Len(kept) : m < n => kept[m].id < kept[n].id
      /\ \A i \in Good(fs) : i <= k => (\E n \in 1 .. Len(kept) : kept[n].id = i) \/ Refused(fs, i)
  BY <1>1 DEF KeptInv
<1>5. Len(a) \in Nat /\ Len(q.head) \in Nat /\ Len(q.head) > 0
  BY <1>2
<1>6. OneAmsdu(<<>>)
  BY DEF OneAmsdu
<1>7. \A b \in 1 .. Len(r.out) : OneAmsdu(r.out[b])
  <2>1. q.out \in Seq(Seq(RxFrames)) /\ OneAmsdu(q.head) /\ \A b \in 1 .. Len(q.out) : OneAmsdu(q.out[b])
    BY <1>1 DEF QueueInv, RxQueue
  <2>2. ASSUME NEW b \in 1 .. Len(Append(q.out, q.head)) PROVE OneAmsdu(Append(q.out, q.head)[b])
    <3>1. Append(q.out, q.head)[b] = IF b <= Len(q.out) THEN q.out[b] ELSE q.head
      BY <1>2, <2>1
    <3>2. b <= Len(q.out) => b \in 1 .. Len(q.out)
      BY <2>1
    <3> QED BY <2>1, <3>1, <3>2
  <2> QED BY <1>3, <2>1, <2>2 DEF ReleasedOut
<1>8. ASSUME ~(Len(q.head) > 1 /\ q.head[1].llc) PROVE QueueInv(fs, h, k, r)
  BY <1>1, <1>2, <1>3, <1>6, <1>7, <1>8 DEF QueueInv
<1>9. ASSUME Len(q.head) > 1 /\ q.head[1].llc PROVE QueueInv(fs, h, k, r)
  <2> DEFINE j == q.head[1].id
  <2>1. q.head[1] = kept[Len(a) + 1] /\ Len(a) + 1 \in 1 .. Len(kept)
    BY <1>2, <1>5
  <2>2. /\ j \in DOMAIN fs /\ j \in Nat /\ fs[j] \in RxDescriptor
        /\ FrameOf(h[j - 1].rx, fs[j], q.head[1])
    BY <1>4, <2>1, HandedIs
  <2>3. q.head[1].amsdu
    <3>1. DOMAIN q.head = 1 .. Len(q.head)
      BY <1>2
    <3>2. 1 \in DOMAIN q.head /\ Len(q.head) # 1
      <4>1. PICK m \in Nat : m = Len(q.head)
        BY <1>5
      <4>2. m > 1 /\ DOMAIN q.head = 1 .. m
        BY <1>9, <3>1, <4>1
      <4>3. 1 \in 1 .. m /\ m # 1
        BY <4>2
      <4> QED BY <4>1, <4>2, <4>3, Zenon
    <3>3. OneAmsdu(q.head)
      BY DEF QueueInv
    <3> QED BY <3>2, <3>3 DEF OneAmsdu
  <2>4. fs[j].llc /\ fs[j].amsdu # "no"
    BY <1>9, <2>2, <2>3 DEF FrameOf
  <2> HIDE DEF j
  <2>5. ASSUME NEW n \in 1 .. Len(kept), n > Len(a) PROVE Refused(fs, kept[n].id)
    <3>1. kept[n].id \in Nat /\ kept[Len(a) + 1].id = j
      BY <1>4, <2>1, HandedIs DEF j
    <3>2. n = Len(a) + 1 \/ kept[Len(a) + 1].id < kept[n].id
      BY <1>2, <1>4, <1>5, <2>1, <2>5
    <3>3. j <= kept[n].id
      BY <2>2, <3>1, <3>2
    <3> QED BY <2>2, <2>4, <3>3 DEF Refused
  <2>6. ASSUME NEW i \in Good(fs), i <= k
        PROVE  (\E n \in 1 .. Len(a) : a[n].id = i) \/ Refused(fs, i)
    <3>1. ASSUME NEW n \in 1 .. Len(kept), kept[n].id = i
          PROVE  (\E m \in 1 .. Len(a) : a[m].id = i) \/ Refused(fs, i)
      <4>1. CASE n > Len(a)
        BY <2>5, <3>1, <4>1
      <4>2. CASE ~(n > Len(a))
        <5>1. n \in 1 .. Len(a)
          BY <1>5, <4>2
        <5> QED BY <1>2, <3>1, <5>1
      <4> QED BY <4>1, <4>2
    <3> QED BY <1>4, <2>6, <3>1
  <2>7. \A n \in 1 .. Len(a) : n \in 1 .. Len(kept) /\ kept[n] = a[n]
    BY <1>2, <1>5
  <2>8. KeptInv(fs, h, k, a)
    BY <1>4, <2>6, <2>7 DEF KeptInv
  <2> QED BY <1>2, <1>3, <1>6, <1>7, <1>9, <2>8 DEF QueueInv
<1> QED BY <1>8, <1>9 DEF r

\* A frame joins what is gathered.
Joins(q, s) ==
  q.head = <<>> \/ /\ s.amsdu /\ ~s.first /\ s.seqno = q.head[1].seqno
                   /\ q.head[Len(q.head)].amsdu /\ ~q.head[Len(q.head)].last
LEMMA GatherKeeps ==
  ASSUME NEW fs \in RxInput, NEW h, RxHistory(fs, h), NEW k \in Nat,
         NEW q, QueueInv(fs, h, k, q), NEW s, Handed(fs, h, k + 1, s), s.id = k + 1, Joins(q, s)
  PROVE  QueueInv(fs, h, k + 1, Gathers(q, s))
<1> DEFINE kept == Kept(q)
           new == Append(kept, s)
           hd == q.head
<1>1. q \in RxQueue /\ KeptInv(fs, h, k, kept) /\ OneAmsdu(hd)
  BY DEF QueueInv
<1>2. s \in RxFrames
  BY HandedIs DEF FrameOf
<1>3. Gathers(q, s) \in RxQueue /\ Kept(Gathers(q, s)) = new /\ kept \in Seq(RxFrames)
      /\ hd \in Seq(RxFrames)
  <2>1. hd \in Seq(RxFrames) /\ q.out \in Seq(Seq(RxFrames))
    BY <1>1 DEF RxQueue
  <2>2. Append(hd, s) \in Seq(RxFrames)
    BY <1>2, <2>1
  <2>3. Gathers(q, s) \in RxQueue
    BY <2>1, <2>2 DEF RxQueue, Gathers
  <2> QED BY <1>1, <1>2, <2>1, <2>3, KeptIs
<1>4. /\ Len(new) = Len(kept) + 1 /\ Len(kept) \in Nat
      /\ \A n \in 1 .. Len(new) : new[n] = IF n <= Len(kept) THEN kept[n] ELSE s
  BY <1>2, <1>3
<1> HIDE DEF kept, new
<1>5. /\ \A n \in 1 .. Len(kept) : Handed(fs, h, k, kept[n])
      /\ \A m, n \in 1 .. Len(kept) : m < n => kept[m].id < kept[n].id
      /\ \A i \in Good(fs) : i <= k => (\E n \in 1 .. Len(kept) : kept[n].id = i) \/ Refused(fs, i)
  BY <1>1 DEF KeptInv
<1>6. \A n \in 1 .. Len(kept) : kept[n].id \in Nat /\ kept[n].id <= k
  BY <1>5, HandedIs
<1>7. KeptInv(fs, h, k + 1, new)
  <2>1. ASSUME NEW n \in 1 .. Len(new) PROVE Handed(fs, h, k + 1, new[n])
    <3>1. CASE n <= Len(kept)
      <4>1. Handed(fs, h, k, kept[n]) /\ new[n] = kept[n]
        BY <1>4, <1>5, <3>1
      <4> QED BY <1>4, <1>6, <3>1, <4>1 DEF Handed
    <3>2. CASE ~(n <= Len(kept))
      BY <1>4, <3>2
    <3> QED BY <3>1, <3>2
  <2>2. ASSUME NEW m \in 1 .. Len(new), NEW n \in 1 .. Len(new), m < n
        PROVE  new[m].id < new[n].id
    <3>1. m \in 1 .. Len(kept) /\ new[m] = kept[m]
      BY <1>4, <2>2
    <3>2. CASE n <= Len(kept)
      BY <1>4, <1>5, <2>2, <3>1, <3>2
    <3>3. CASE ~(n <= Len(kept))
      <4>1. new[n] = s
        BY <1>4, <3>3
      <4> QED BY <1>6, <3>1, <4>1
    <3> QED BY <3>2, <3>3
  <2>3. ASSUME NEW i \in Good(fs), i <= k + 1
        PROVE  (\E n \in 1 .. Len(new) : new[n].id = i) \/ Refused(fs, i)
    <3>1. CASE i = k + 1
      <4>1. Len(new) \in 1 .. Len(new) /\ new[Len(new)] = s
        BY <1>4
      <4> QED BY <3>1, <4>1
    <3>2. CASE i # k + 1
      <4>1. i \in DOMAIN fs /\ fs \in Seq(RxDescriptor)
        BY DEF Good, RxInput
      <4>2. i <= k
        BY <2>3, <3>2, <4>1
      <4>3. \A n \in 1 .. Len(kept) : n \in 1 .. Len(new) /\ new[n] = kept[n]
        BY <1>4
      <4> QED BY <1>5, <4>2, <4>3
    <3> QED BY <3>1, <3>2
  <2> QED BY <2>1, <2>2, <2>3 DEF KeptInv
<1>8. OneAmsdu(Append(hd, s))
  <2> DEFINE n == Len(hd)
             t == Append(hd, s)
  <2>1. /\ n \in Nat /\ Len(t) = n + 1 /\ DOMAIN t = 1 .. n + 1 /\ DOMAIN hd = 1 .. n
        /\ t[n + 1] = s /\ \A j \in 1 .. n : t[j] = hd[j]
    BY <1>2, <1>3
  <2>2. hd # <<>> => n > 0
    BY <1>3
  <2> HIDE DEF t
  <2>3. ASSUME NEW j \in 1 .. n + 1
        PROVE  /\ t[j].seqno = t[1].seqno /\ (t[j].first => j = 1)
               /\ (t[j].last => j = n + 1) /\ (~t[j].amsdu => n + 1 = 1)
    <3>1. CASE hd = <<>>
      <4>1. n = 0 /\ j = 1
        BY <2>1, <3>1
      <4> QED BY <2>1, <4>1
    <3>2. CASE hd # <<>> /\ j = n + 1
      <4>1. 1 \in 1 .. n /\ t[1] = hd[1]
        BY <2>1, <2>2, <3>2
      <4> QED BY <2>1, <3>2, <4>1 DEF Joins
    <3>3. CASE hd # <<>> /\ j # n + 1
      <4>1. j \in 1 .. n /\ 1 \in 1 .. n /\ t[j] = hd[j] /\ t[1] = hd[1]
        BY <2>1, <2>2, <3>3
      <4>2. /\ hd[j].seqno = hd[1].seqno /\ (hd[j].first => j = 1)
            /\ (hd[j].last => j = n) /\ (~hd[j].amsdu => n = 1)
        BY <1>1, <2>1, <4>1 DEF OneAmsdu
      <4>3. hd[n].amsdu /\ ~hd[n].last
        BY <3>3 DEF Joins
      <4>4. hd[j].amsdu
        BY <4>1, <4>2, <4>3
      <4> QED BY <4>1, <4>2, <4>3, <4>4
    <3> QED BY <3>1, <3>2, <3>3
  <2>4. OneAmsdu(t)
    BY <2>1, <2>3 DEF OneAmsdu
  <2> QED BY <2>4 DEF t
<1>9. Gathers(q, s).head = Append(hd, s) /\ Gathers(q, s).out = q.out
  BY DEF Gathers
<1> QED BY <1>3, <1>7, <1>8, <1>9 DEF QueueInv

\* What is gathered goes on: an A-MSDU that has not ended.
GoesOn(q) == q.head # <<>> => q.head[Len(q.head)].amsdu /\ ~q.head[Len(q.head)].last
\* An A-MSDU whose frames up to k have come is gathered; one that came whole
\* was released.
Spans(ss, j, k) == Len(ss) = k - j + 1 /\ \A n \in 1 .. k - j + 1 : ss[n].id = j + n - 1
Begun(fs, j, k) ==
  /\ j <= k /\ j .. k \subseteq Good(fs) /\ fs[j].amsdu = "first"
  /\ \A l \in j + 1 .. k : fs[l].amsdu = "mid"
  /\ \A l \in j .. k : KnownQos(fs[l]) /\ fs[l].seq = fs[j].seq
WholeInv(fs, k, q) ==
  /\ \A j \in DOMAIN fs : Begun(fs, j, k) => Spans(q.head, j, k)
  /\ \A j, m \in DOMAIN fs :
       WholeAmsdu(fs, j, m) /\ m <= k /\ ~fs[j].llc =>
         \E b \in 1 .. Len(q.out) : Spans(q.out[b], j, m)
RxInv(fs, h, k, q) == QueueInv(fs, h, k, q) /\ GoesOn(q) /\ WholeInv(fs, k, q)

\* The frames of a queue, in their places.
LEMMA InputIs ==
  ASSUME NEW fs \in RxInput
  PROVE  /\ fs \in Seq(RxDescriptor) /\ Len(fs) \in Nat /\ DOMAIN fs = 1 .. Len(fs)
         /\ \A i \in 1 .. Len(fs) : fs[i] \in RxDescriptor /\ fs[i].id = i
  BY DEF RxInput

\* What is gathered was handed on.
LEMMA HeadIsHanded ==
  ASSUME NEW fs, NEW h, NEW k, NEW q, QueueInv(fs, h, k, q)
  PROVE  /\ q \in RxQueue /\ q.head \in Seq(RxFrames) /\ q.out \in Seq(Seq(RxFrames))
         /\ \A n \in 1 .. Len(q.head) : Handed(fs, h, k, q.head[n])
<1>1. q \in RxQueue /\ KeptInv(fs, h, k, Kept(q))
  BY DEF QueueInv
<1>2. q.head \in Seq(RxFrames) /\ q.out \in Seq(Seq(RxFrames))
  BY <1>1 DEF RxQueue
<1>3. PICK a : /\ a \in Seq(RxFrames) /\ Len(Kept(q)) = Len(a) + Len(q.head)
               /\ \A n \in 1 .. Len(q.head) : Kept(q)[Len(a) + n] = q.head[n]
  BY <1>1, KeptIs
<1>4. ASSUME NEW n \in 1 .. Len(q.head) PROVE Handed(fs, h, k, q.head[n])
  <2>1. Len(a) + n \in 1 .. Len(Kept(q))
    BY <1>2, <1>3
  <2> QED BY <1>1, <1>3, <2>1 DEF KeptInv
<1> QED BY <1>1, <1>2, <1>4

\* A frame in error leaves all as it is.
LEMMA ErrorKeeps ==
  ASSUME NEW fs \in RxInput, NEW h, RxHistory(fs, h), NEW k \in Nat, k + 1 \in DOMAIN fs,
         NEW q, RxInv(fs, h, k, q), FillRxError(fs[k + 1])
  PROVE  RxInv(fs, h, k + 1, q)
<1>1. Len(fs) \in Nat /\ DOMAIN fs = 1 .. Len(fs)
  BY InputIs
<1>2. k + 1 \notin Good(fs) /\ Good(fs) \subseteq 1 .. Len(fs)
  BY <1>1 DEF Good
<1>3. KeptInv(fs, h, k, Kept(q)) /\ q \in RxQueue
  BY DEF RxInv, QueueInv
<1>4. KeptInv(fs, h, k + 1, Kept(q))
  <2>1. ASSUME NEW n \in 1 .. Len(Kept(q)) PROVE Handed(fs, h, k + 1, Kept(q)[n])
    <3>1. Handed(fs, h, k, Kept(q)[n])
      BY <1>3 DEF KeptInv
    <3>2. Kept(q)[n].id \in Nat /\ Kept(q)[n].id <= k
      BY <3>1, HandedIs
    <3> QED BY <3>1, <3>2 DEF Handed
  <2>2. ASSUME NEW i \in Good(fs), i <= k + 1 PROVE i <= k
    BY <1>1, <1>2, <2>2
  <2> QED BY <1>3, <2>1, <2>2 DEF KeptInv
<1>5. WholeInv(fs, k + 1, q)
  <2>1. ASSUME NEW j \in DOMAIN fs PROVE ~Begun(fs, j, k + 1)
    <3>1. ASSUME Begun(fs, j, k + 1) PROVE k + 1 \in Good(fs)
      <4>1. j <= k + 1 /\ j \in Nat
        BY <1>1, <3>1 DEF Begun
      <4>2. k + 1 \in j .. k + 1
        BY <4>1
      <4> QED BY <3>1, <4>2 DEF Begun
    <3> QED BY <1>2, <3>1
  <2>2. ASSUME NEW j \in DOMAIN fs, NEW m \in DOMAIN fs, WholeAmsdu(fs, j, m), m <= k + 1
        PROVE  m <= k
    <3>1. m \in j .. m
      BY <1>1, <2>2 DEF WholeAmsdu
    <3>2. m \in Good(fs)
      BY <2>2, <3>1 DEF WholeAmsdu
    <3> QED BY <1>1, <1>2, <2>2, <3>2
  <2>3. \A j, m \in DOMAIN fs :
          WholeAmsdu(fs, j, m) /\ m <= k /\ ~fs[j].llc =>
            \E b \in 1 .. Len(q.out) : Spans(q.out[b], j, m)
    BY DEF RxInv, WholeInv
  <2> QED BY <2>1, <2>2, <2>3 DEF WholeInv
<1> QED BY <1>3, <1>4, <1>5 DEF RxInv, QueueInv

\* What one more frame makes of the queue.
LEMMA BurstKeeps ==
  ASSUME NEW fs \in RxInput, NEW h, RxHistory(fs, h), NEW k \in Nat, k + 1 \in DOMAIN fs,
         NEW q, QueueInv(fs, h, k, q), GoesOn(q),
         NEW s, Handed(fs, h, k + 1, s), s.id = k + 1
  PROVE  LET b == Before1(q, s)
             g == Gathers(b, s)
         IN /\ QueueInv(fs, h, k + 1, g) /\ g.head # <<>> /\ g.head[Len(g.head)] = s
            /\ QueueInv(fs, h, k + 1, ReleaseBurst(q, s)) /\ GoesOn(ReleaseBurst(q, s))
<1> DEFINE b == Before1(q, s)
           g == Gathers(b, s)
<1>1. q \in RxQueue /\ s \in RxFrames
  BY HandedIs DEF QueueInv, FrameOf
<1>2. QueueInv(fs, h, k, b) /\ Joins(b, s)
  <2>1. CASE StartsAnew(q, s)
    <3>1. b = ReleaseAmsdu(q) /\ q.head # <<>>
      BY <2>1 DEF Before1, StartsAnew
    <3>2. QueueInv(fs, h, k, ReleaseAmsdu(q))
      BY <3>1, ReleaseKeeps
    <3>3. ReleaseAmsdu(q).head = <<>>
      BY <1>1, ReleaseIs
    <3> HIDE DEF b
    <3> QED BY <3>1, <3>2, <3>3 DEF Joins
  <2>2. CASE ~StartsAnew(q, s)
    <3>1. b = q
      BY <2>2 DEF Before1
    <3>2. Joins(q, s)
      BY <2>2, Zenon DEF Joins, StartsAnew, GoesOn
    <3> HIDE DEF b
    <3> QED BY <3>1, <3>2
  <2> QED BY <2>1, <2>2
<1>3. b \in RxQueue /\ g \in RxQueue
      /\ ReleaseBurst(q, s) = IF ~s.amsdu \/ s.last THEN ReleaseAmsdu(g) ELSE g
  BY <1>1, BurstIs
<1> HIDE DEF b
<1>4. QueueInv(fs, h, k + 1, g)
  BY <1>2, GatherKeeps
<1>5. g.head = Append(b.head, s) /\ b.head \in Seq(RxFrames)
  BY <1>3 DEF Gathers, RxQueue
<1>6. g.head # <<>> /\ g.head[Len(g.head)] = s
  BY <1>1, <1>5
<1> HIDE DEF g
<1>7. QueueInv(fs, h, k + 1, ReleaseAmsdu(g))
  BY <1>4, <1>6, ReleaseKeeps
<1>8. ReleaseAmsdu(g).head = <<>>
  BY <1>3, ReleaseIs
<1>9. CASE ~s.amsdu \/ s.last
  <2>1. ReleaseBurst(q, s) = ReleaseAmsdu(g)
    BY <1>3, <1>9
  <2> QED BY <1>4, <1>6, <1>7, <1>8, <2>1 DEF GoesOn, b, g
<1>10. CASE ~(~s.amsdu \/ s.last)
  <2>1. ReleaseBurst(q, s) = g
    BY <1>3, <1>10
  <2> QED BY <1>4, <1>6, <1>10, <2>1 DEF GoesOn, b, g
<1> QED BY <1>9, <1>10

\* The bursts released stay released.
Longer(out, new) == Len(out) <= Len(new) /\ \A b \in 1 .. Len(out) : new[b] = out[b]
LEMMA OutGrows ==
  ASSUME NEW q \in RxQueue, NEW s \in RxFrames
  PROVE  /\ Len(q.out) \in Nat /\ Longer(q.out, ReleasedOut(q))
         /\ Longer(q.out, Before1(q, s).out)
         /\ Longer(q.out, ReleaseBurst(q, s).out)
<1>1. ASSUME NEW p \in RxQueue PROVE Len(p.out) \in Nat /\ Longer(p.out, ReleasedOut(p))
  <2>1. p.out \in Seq(Seq(RxFrames)) /\ p.head \in Seq(RxFrames)
    BY DEF RxQueue
  <2> DEFINE S == Seq(RxFrames)
             o == p.out
             x == p.head
  <2>2. o \in Seq(S) /\ x \in S
    BY <2>1
  <2> HIDE DEF S, o, x
  <2>3. Len(o) \in Nat /\ Longer(o, o) /\ Longer(o, Append(o, x))
    BY <2>2 DEF Longer
  <2> QED BY <2>3 DEF ReleasedOut, o, x
<1> DEFINE b == Before1(q, s)
           g == Gathers(b, s)
<1>2. /\ b \in RxQueue /\ g \in RxQueue /\ g.out = b.out
      /\ ReleaseBurst(q, s) = IF ~s.amsdu \/ s.last THEN ReleaseAmsdu(g) ELSE g
  BY BurstIs DEF Gathers
<1>3. Longer(q.out, b.out) /\ Len(b.out) \in Nat /\ Len(q.out) \in Nat
  <2>1. b = q \/ b = ReleaseAmsdu(q)
    BY DEF Before1
  <2>2. ReleaseAmsdu(q).out = ReleasedOut(q)
    BY ReleaseIs
  <2>3. Longer(q.out, q.out) /\ Longer(q.out, ReleasedOut(q))
    BY <1>1 DEF Longer
  <2> HIDE DEF b
  <2> QED BY <1>1, <1>2, <2>1, <2>2, <2>3
<1>4. Longer(b.out, ReleaseBurst(q, s).out)
  <2>1. ReleaseAmsdu(g).out = ReleasedOut(g)
    BY <1>2, ReleaseIs
  <2>2. Longer(g.out, ReleasedOut(g)) /\ Longer(g.out, g.out)
    BY <1>1, <1>2 DEF Longer
  <2> HIDE DEF b, g
  <2> QED BY <1>2, <2>1, <2>2
<1>5. Longer(q.out, ReleaseBurst(q, s).out)
  <2> HIDE DEF b
  <2> DEFINE new == ReleaseBurst(q, s).out
  <2> HIDE DEF new
  <2>1. Longer(b.out, new)
    BY <1>4 DEF new
  <2>2. Longer(q.out, new)
    BY <1>3, <2>1 DEF Longer
  <2> QED BY <2>2 DEF new
<1> QED BY <1>1, <1>3, <1>5

\* An A-MSDU that goes on is joined by its next frame.
LEMMA NextJoins ==
  ASSUME NEW fs \in RxInput, NEW h, RxHistory(fs, h), NEW k \in Nat, k + 1 \in DOMAIN fs,
         NEW q, QueueInv(fs, h, k, q), NEW j \in DOMAIN fs, Begun(fs, j, k), Spans(q.head, j, k),
         NEW s, Handed(fs, h, k + 1, s), s.id = k + 1,
         fs[k + 1].amsdu \in {"mid", "last"}, KnownQos(fs[k + 1]), fs[k + 1].seq = fs[j].seq
  PROVE  LET g == Gathers(q, s)
         IN /\ Before1(q, s) = q /\ Spans(g.head, j, k + 1)
            /\ g.head[1].llc <=> fs[j].llc
            /\ ReleaseBurst(q, s) = IF fs[k + 1].amsdu = "last" THEN ReleaseAmsdu(g) ELSE g
<1> DEFINE g == Gathers(q, s)
           x == q.head[1]
<1>1. /\ q \in RxQueue /\ q.head \in Seq(RxFrames)
      /\ \A n \in 1 .. Len(q.head) : Handed(fs, h, k, q.head[n])
  BY HeadIsHanded
<1>2. j <= k /\ j \in Nat /\ Len(q.head) = k - j + 1 /\ Len(q.head) > 0
  BY InputIs DEF Begun, Spans
<1>3. /\ Handed(fs, h, k, x) /\ x.id = j
  <2>1. 1 \in 1 .. Len(q.head) /\ 1 \in 1 .. k - j + 1
    BY <1>2
  <2>2. q.head[1].id = j + 1 - 1
    BY <2>1 DEF Spans
  <2> QED BY <1>1, <1>2, <2>1, <2>2
<1>4. x \in RxFrames /\ (x.llc <=> fs[j].llc) /\ x.seqno = fs[j].seq
  <2>1. FrameOf(h[j - 1].rx, fs[j], x)
    BY <1>3, HandedIs
  <2>2. KnownQos(fs[j])
    BY <1>2 DEF Begun
  <2> QED BY <2>1, <2>2 DEF FrameOf
<1>5. s \in RxFrames /\ s.amsdu /\ ~s.first /\ (s.last <=> fs[k + 1].amsdu = "last")
      /\ s.seqno = fs[j].seq
  <2>1. FrameOf(h[k].rx, fs[k + 1], s)
    <3>1. PICK i : i = s.id - 1
      OBVIOUS
    <3>5. PICK m \in Nat : m = k + 1
      OBVIOUS
    <3>6. Handed(fs, h, m, s)
      BY <3>5, Zenon
    <3>4. FrameOf(h[s.id - 1].rx, fs[s.id], s)
      BY <3>6, HandedIs, Zenon
    <3>2. FrameOf(h[i].rx, fs[s.id], s)
      BY <3>1, <3>4
    <3>3. i = k
      BY <3>1
    <3> QED BY <3>2, <3>3
  <2>2. fs[k + 1].amsdu # "no" /\ fs[k + 1].amsdu # "first"
    OBVIOUS
  <2> QED BY <2>1, <2>2 DEF FrameOf
<1>6. Before1(q, s) = q
  <2>1. ~StartsAnew(q, s)
    BY <1>4, <1>5 DEF StartsAnew
  <2> QED BY <2>1 DEF Before1
<1>7. g.head = Append(q.head, s)
  BY DEF Gathers
<1>8. Spans(g.head, j, k + 1)
  <2> DEFINE hd == q.head
             t == Append(hd, s)
             n == k - j + 1
  <2>1. /\ n \in Nat /\ Len(t) = n + 1 /\ t[n + 1] = s /\ \A i \in 1 .. n : t[i] = hd[i]
    BY <1>1, <1>2, <1>5
  <2>2. \A i \in 1 .. n : hd[i].id = j + i - 1
    BY DEF Spans
  <2>3. ASSUME NEW i \in 1 .. n + 1 PROVE t[i].id = j + i - 1
    <3>1. CASE i = n + 1
      BY <1>2, <2>1, <3>1
    <3>2. CASE i # n + 1
      <4>1. i \in 1 .. n
        BY <2>1, <3>2
      <4> QED BY <2>1, <2>2, <4>1
    <3> QED BY <3>1, <3>2
  <2>4. (k + 1) - j + 1 = n + 1
    BY <1>2
  <2> HIDE DEF t, n
  <2>5. Spans(t, j, k + 1)
    BY <2>1, <2>3, <2>4 DEF Spans
  <2> QED BY <1>7, <2>5 DEF t
<1>9. g.head[1].llc <=> fs[j].llc
  <2>1. Append(q.head, s)[1] = x
    BY <1>1, <1>2, <1>5
  <2> QED BY <1>4, <1>7, <2>1
<1>10. ReleaseBurst(q, s) = IF ~s.amsdu \/ s.last THEN ReleaseAmsdu(g) ELSE g
  BY <1>1, <1>5, <1>6, BurstIs
<1>11. ReleaseBurst(q, s) = IF fs[k + 1].amsdu = "last" THEN ReleaseAmsdu(g) ELSE g
  <2> HIDE DEF g
  <2> QED BY <1>5, <1>10
<1> QED BY <1>6, <1>8, <1>9, <1>11

\* What was released with an A-MSDU that has come whole.
LEMMA WholeKeeps ==
  ASSUME NEW fs \in RxInput, NEW h, RxHistory(fs, h), NEW k \in Nat, k + 1 \in DOMAIN fs,
         NEW q, RxInv(fs, h, k, q), NEW s, Handed(fs, h, k + 1, s), s.id = k + 1
  PROVE  WholeInv(fs, k + 1, ReleaseBurst(q, s))
<1> DEFINE r == ReleaseBurst(q, s)
           b == Before1(q, s)
<1>1. q \in RxQueue /\ QueueInv(fs, h, k, q) /\ WholeInv(fs, k, q)
  BY DEF RxInv, QueueInv
<1>2. /\ s \in RxFrames
      /\ s.amsdu <=> fs[k + 1].amsdu # "no"
      /\ s.first <=> fs[k + 1].amsdu = "first"
      /\ s.last <=> fs[k + 1].amsdu = "last"
  <2>1. FrameOf(h[s.id - 1].rx, fs[s.id], s)
    BY HandedIs
  <2> QED BY <2>1 DEF FrameOf
<1>3. Len(fs) \in Nat /\ DOMAIN fs = 1 .. Len(fs)
  BY InputIs
<1>4. Len(q.out) \in Nat /\ Longer(q.out, r.out)
  BY <1>1, <1>2, OutGrows
<1>5. ASSUME NEW j \in DOMAIN fs, Begun(fs, j, k + 1) PROVE Spans(r.head, j, k + 1)
  <2>1. CASE j = k + 1
    <3>1. fs[k + 1].amsdu = "first"
      BY <1>5, <2>1 DEF Begun
    <3>2. s.amsdu /\ s.first /\ ~s.last
      BY <1>2, <3>1
    <3>3. b.head = <<>>
      <4>1. q.head # <<>> => b = ReleaseAmsdu(q)
        BY <3>2 DEF StartsAnew, Before1
      <4>2. q.head = <<>> => b = q
        BY DEF StartsAnew, Before1
      <4>3. ReleaseAmsdu(q).head = <<>>
        BY <1>1, ReleaseIs
      <4> HIDE DEF b
      <4> QED BY <4>1, <4>2, <4>3
    <3>4. r = Gathers(b, s)
      BY <1>1, <1>2, <3>2, BurstIs
    <3>5. r.head = Append(<<>>, s)
      BY <3>3, <3>4 DEF Gathers
    <3> HIDE DEF r, b
    <3>6. Len(r.head) = 1 /\ r.head[1] = s
      BY <1>2, <3>5
    <3>7. \A n \in 1 .. (k + 1) - j + 1 : n = 1 /\ j + n - 1 = k + 1
      BY <2>1
    <3>8. Len(r.head) = (k + 1) - j + 1
      BY <2>1, <3>6
    <3> QED BY <3>6, <3>7, <3>8 DEF Spans
  <2>2. CASE j # k + 1
    <3>1. /\ j <= k /\ j \in Nat /\ j .. k \subseteq j .. k + 1 /\ k + 1 \in j .. k + 1
          /\ j + 1 .. k \subseteq j + 1 .. k + 1 /\ k + 1 \in j + 1 .. k + 1
      BY <1>3, <1>5, <2>2 DEF Begun
    <3>2. Begun(fs, j, k) /\ fs[k + 1].amsdu = "mid" /\ KnownQos(fs[k + 1])
          /\ fs[k + 1].seq = fs[j].seq
      BY <1>5, <3>1 DEF Begun
    <3>3. Spans(q.head, j, k)
      BY <1>1, <3>2 DEF WholeInv
    <3>4. fs[k + 1].amsdu \in {"mid", "last"}
      BY <3>2
    <3>5. /\ Spans(Gathers(q, s).head, j, k + 1)
          /\ r = IF fs[k + 1].amsdu = "last" THEN ReleaseAmsdu(Gathers(q, s)) ELSE Gathers(q, s)
      BY <1>1, <3>2, <3>3, <3>4, NextJoins
    <3> HIDE DEF r
    <3> QED BY <3>2, <3>5
  <2> QED BY <2>1, <2>2
<1>6. ASSUME NEW j \in DOMAIN fs, NEW m \in DOMAIN fs,
             WholeAmsdu(fs, j, m), m <= k + 1, ~fs[j].llc
      PROVE  \E i \in 1 .. Len(r.out) : Spans(r.out[i], j, m)
  <2>1. CASE m <= k
    <3>1. PICK i \in 1 .. Len(q.out) : Spans(q.out[i], j, m)
      BY <1>1, <1>6, <2>1 DEF WholeInv
    <3> HIDE DEF r
    <3>2. r.out[i] = q.out[i] /\ Len(q.out) <= Len(r.out)
      BY <1>4 DEF Longer
    <3>4. PICK l : l = Len(r.out)
      OBVIOUS
    <3>3. i \in 1 .. Len(r.out)
      BY <1>4, <3>2
    <3> QED BY <3>1, <3>2, <3>3
  <2>2. CASE m = k + 1
    <3>1. /\ j <= k /\ j \in Nat /\ j .. k \subseteq j .. m /\ k + 1 \in j .. m
          /\ j + 1 .. k = j + 1 .. m - 1
      BY <1>3, <1>6, <2>2 DEF WholeAmsdu
    <3>2. Begun(fs, j, k) /\ fs[k + 1].amsdu = "last" /\ KnownQos(fs[k + 1])
          /\ fs[k + 1].seq = fs[j].seq
      BY <1>6, <2>2, <3>1 DEF Begun, WholeAmsdu
    <3>3. Spans(q.head, j, k)
      BY <1>1, <3>2 DEF WholeInv
    <3>4. fs[k + 1].amsdu \in {"mid", "last"}
      BY <3>2
    <3> DEFINE g == Gathers(q, s)
    <3>5. /\ Spans(g.head, j, k + 1) /\ b = q
          /\ g.head[1].llc <=> fs[j].llc
          /\ r = ReleaseAmsdu(g)
      BY <1>1, <3>2, <3>3, <3>4, NextJoins
    <3>6. g \in RxQueue
      BY <1>1, <1>2, <3>5, BurstIs
    <3> HIDE DEF g, r
    <3>7. r.out = Append(g.out, g.head)
      <4>1. r.out = ReleasedOut(g)
        BY <3>5, <3>6, ReleaseIs
      <4> QED BY <1>6, <3>5, <4>1 DEF ReleasedOut
    <3>8. Len(r.out) \in 1 .. Len(r.out) /\ r.out[Len(r.out)] = g.head
      <4> DEFINE S == Seq(RxFrames)
                 o == g.out
                 x == g.head
      <4>1. o \in Seq(S) /\ x \in S
        BY <3>6 DEF RxQueue
      <4> HIDE DEF S, o, x
      <4>2. Len(Append(o, x)) \in 1 .. Len(Append(o, x)) /\ Append(o, x)[Len(Append(o, x))] = x
        BY <4>1
      <4> QED BY <3>7, <4>2 DEF o, x
    <3> QED BY <2>2, <3>5, <3>8
  <2>3. m <= k \/ m = k + 1
    BY <1>3, <1>6
  <2> QED BY <2>1, <2>2, <2>3
<1>7. \A j, m \in DOMAIN fs :
        WholeAmsdu(fs, j, m) /\ m <= k + 1 /\ ~fs[j].llc =>
          \E i \in 1 .. Len(r.out) : Spans(r.out[i], j, m)
  BY <1>6
<1> HIDE DEF r
<1>8. WholeInv(fs, k + 1, r)
  BY <1>5, <1>7 DEF WholeInv
<1> QED BY <1>8 DEF r

\* One frame.
LEMMA ReceiveKeeps ==
  ASSUME NEW fs \in RxInput, NEW h, RxHistory(fs, h), NEW k \in 1 .. Len(fs),
         RxInv(fs, h, k - 1, h[k - 1].q)
  PROVE  RxInv(fs, h, k, h[k].q)
<1> DEFINE m == k - 1
           q == h[k - 1].q
           s == FillRx(h[k - 1].rx, fs[k])
<1>1. /\ m \in Nat /\ m + 1 = k /\ k \in Nat /\ k \in DOMAIN fs /\ fs[k] \in RxDescriptor
      /\ fs[k].id = k /\ m \in 0 .. Len(fs)
  BY InputIs
<1>2. /\ h[m] \in Receiving /\ h[k] = Receive(h[m], fs[k]) /\ h[m].rx \in RxState
      /\ h[m].q \in RxQueue
  BY <1>1 DEF RxHistory, Receiving
<1>3. /\ FillRxError(fs[k]) => h[k].q = q
      /\ ~FillRxError(fs[k]) => h[k].q = ReleaseBurst(q, s)
  BY <1>1, <1>2, ReceiveIs
<1>4. CASE FillRxError(fs[k])
  <2>1. RxInv(fs, h, m, q)
    OBVIOUS
  <2> HIDE DEF q, m
  <2>2. RxInv(fs, h, m + 1, q)
    BY <1>1, <1>4, <2>1, ErrorKeeps
  <2> QED BY <1>1, <1>3, <1>4, <2>2
<1>5. CASE ~FillRxError(fs[k])
  <2>1. s \in RxFrames /\ s.id = k
    BY <1>1, <1>2, FillsFrame DEF FrameOf
  <2>2. Handed(fs, h, k, s)
    <3>1. k \in Good(fs)
      BY <1>1, <1>5 DEF Good
    <3>2. s = FillRx(h[s.id - 1].rx, fs[s.id])
      BY <2>1
    <3> HIDE DEF s
    <3> QED BY <1>1, <2>1, <3>1, <3>2 DEF Handed
  <2>3. RxInv(fs, h, m, q)
    OBVIOUS
  <2> HIDE DEF q, m, s
  <2>4. Handed(fs, h, m + 1, s) /\ s.id = m + 1 /\ m + 1 \in DOMAIN fs
    BY <1>1, <2>1, <2>2
  <2>5. QueueInv(fs, h, m + 1, ReleaseBurst(q, s)) /\ GoesOn(ReleaseBurst(q, s))
    BY <1>1, <2>3, <2>4, BurstKeeps DEF RxInv
  <2>6. WholeInv(fs, m + 1, ReleaseBurst(q, s))
    BY <1>1, <2>3, <2>4, WholeKeeps
  <2> QED BY <1>1, <1>3, <1>5, <2>5, <2>6 DEF RxInv
<1> QED BY <1>4, <1>5

\* All of the frames.
LEMMA ReceiveHolds ==
  ASSUME NEW fs \in RxInput, NEW h, RxHistory(fs, h)
  PROVE  \A k \in 0 .. Len(fs) : RxInv(fs, h, k, h[k].q)
<1> DEFINE n == Len(fs)
           W == [k \in 0 .. n |-> {x \in {h[k]} : RxInv(fs, h, k, x.q)}]
<1>1. n \in Nat /\ DOMAIN fs = 1 .. n
  BY InputIs
<1>2. RxInv(fs, h, 0, h[0].q)
  <2> DEFINE q == h[0].q
  <2>1. q.head = <<>> /\ q.out = <<>> /\ q = [head |-> <<>>, out |-> <<>>]
    BY DEF RxHistory, NewQueue
  <2> HIDE DEF q
  <2>2. q \in RxQueue
    BY <2>1 DEF RxQueue
  <2>3. Kept(q) = <<>>
    BY <2>1, FlattenNone DEF Kept
  <2>4. \A i \in Good(fs) : ~(i <= 0)
    BY <1>1 DEF Good
  <2>5. KeptInv(fs, h, 0, Kept(q))
    BY <2>3, <2>4 DEF KeptInv
  <2>6. OneAmsdu(q.head) /\ GoesOn(q)
    BY <2>1 DEF OneAmsdu, GoesOn
  <2>7. \A j \in DOMAIN fs : ~Begun(fs, j, 0) /\ ~(j <= 0)
    BY <1>1 DEF Begun
  <2>8. WholeInv(fs, 0, q)
    BY <2>7 DEF WholeInv
  <2>9. \A b \in 1 .. Len(q.out) : OneAmsdu(q.out[b])
    BY <2>1
  <2>10. QueueInv(fs, h, 0, q)
    BY <2>2, <2>5, <2>6, <2>9 DEF QueueInv
  <2>11. RxInv(fs, h, 0, q)
    BY <2>6, <2>8, <2>10 DEF RxInv
  <2> QED BY <2>11 DEF q
<1>3. h[0] \in W[0]
  BY <1>1, <1>2
<1>4. ASSUME NEW k \in 1 .. n, h[k - 1] \in W[k - 1] PROVE h[k] \in W[k]
  <2>1. k \in 0 .. n /\ k - 1 \in 0 .. n
    BY <1>1
  <2>2. RxInv(fs, h, k - 1, h[k - 1].q)
    BY <1>4, <2>1
  <2>3. RxInv(fs, h, k, h[k].q)
    BY <2>2, ReceiveKeeps
  <2> QED BY <2>1, <2>3
<1> HIDE DEF W, n
<1>5. \A k \in 0 .. n : h[k] \in W[k]
  BY <1>1, <1>3, <1>4, Run
<1> QED BY <1>5 DEF W, n

-----------------------------------------------------------------------------
(* rx_complete: the bursts one behind the other, their packet numbers      *)
(* compared.                                                               *)
RxDone == RxFramesOf(BOOLEAN)
Pns == [{"sta"} -> [0 .. 16 -> Nat]]
Bursts == Seq(RxFrames) \ {<<>>}
Completing == [pn : Pns, list : Seq(RxDone)]
Stays(t, s) ==
  /\ t.id = s.id /\ t.mgmt = s.mgmt /\ t.toDs = s.toDs /\ t.tid = s.tid /\ t.iv = s.iv /\ t.start = s.start
  /\ t.ref = s.ref

\* A packet number counts once it is above the last one.
LEMMA CheckIs ==
  ASSUME NEW pn \in Pns, NEW s \in RxFrames
  PROVE  LET c == CheckCcmpPn(pn, s)
         IN /\ c.pn \in Pns /\ c.s \in RxDone /\ Stays(c.s, s) /\ PnIndex(s) \in 0 .. 16
            /\ \A t \in 0 .. 16 : pn["sta"][t] <= c.pn["sta"][t]
            /\ c.s.validated => /\ pn["sta"][PnIndex(s)] < s.iv
                                /\ c.pn["sta"][PnIndex(s)] = s.iv
<1> DEFINE c == CheckCcmpPn(pn, s)
           i == PnIndex(s)
           past == \/ ~s.decrypted \/ s.monitor \/ s.wcid \notin DOMAIN pn
                   \/ ~s.e8023 /\ ~s.stripped /\ s.later
           told == [s EXCEPT !.monitor = TRUE]
           valid == [s EXCEPT !.validated = s.stripped]
<1>1. i \in 0 .. 16 /\ s.iv \in Nat /\ s.stripped \in BOOLEAN /\ ~s.validated
  <2>1. /\ s.tid \in 0 .. 15 /\ s.iv \in Nat /\ s.stripped \in BOOLEAN /\ s.mgmt \in BOOLEAN
        /\ s.validated \in {FALSE}
    BY DEF RxFrames, RxFramesOf
  <2>2. i \in 0 .. 16
    BY <2>1 DEF PnIndex
  <2> HIDE DEF i
  <2> QED BY <2>1, <2>2
<1>2. s \in RxDone /\ Stays(s, s)
  BY DEF RxDone, RxFrames, RxFramesOf, Stays
<1>3. told \in RxDone /\ Stays(told, s) /\ ~told.validated
  BY <1>1 DEF RxDone, RxFrames, RxFramesOf, Stays
<1>4. valid \in RxDone /\ Stays(valid, s)
  BY <1>1 DEF RxDone, RxFrames, RxFramesOf, Stays
<1>5. pn["sta"] \in [0 .. 16 -> Nat] /\ \A t \in 0 .. 16 : pn["sta"][t] \in Nat
  BY DEF Pns
<1>6. CASE past
  <2>1. c = [pn |-> pn, s |-> s]
    BY <1>6, Zenon DEF CheckCcmpPn
  <2> HIDE DEF c, i
  <2>2. \A t \in 0 .. 16 : pn["sta"][t] <= c.pn["sta"][t]
    BY <1>5, <2>1
  <2>3. c.pn = pn /\ c.s = s
    BY <2>1
  <2>4. c.pn \in Pns /\ c.s \in RxDone /\ Stays(c.s, s) /\ ~c.s.validated
    BY <1>1, <1>2, <2>3
  <2> QED BY <1>1, <2>2, <2>4 DEF c, i
<1>7. CASE ~past /\ s.iv <= pn[s.wcid][i]
  <2>1. c = [pn |-> pn, s |-> told]
    BY <1>7, Zenon DEF CheckCcmpPn
  <2> HIDE DEF c, i, told
  <2>2. \A t \in 0 .. 16 : pn["sta"][t] <= c.pn["sta"][t]
    BY <1>5, <2>1
  <2>3. c.pn = pn /\ c.s = told
    BY <2>1
  <2>4. c.pn \in Pns /\ c.s \in RxDone /\ Stays(c.s, s) /\ ~c.s.validated
    BY <1>3, <2>3
  <2> QED BY <1>1, <2>2, <2>4 DEF c, i
<1>8. CASE ~past /\ ~(s.iv <= pn[s.wcid][i])
  <2> DEFINE new == [pn EXCEPT ![s.wcid][i] = s.iv]
  <2>1. c = [pn |-> new, s |-> valid]
    BY <1>8, Zenon DEF CheckCcmpPn
  <2>2. s.wcid = "sta" /\ DOMAIN pn = {"sta"}
    BY <1>8 DEF Pns
  <2> HIDE DEF c, i, valid
  <2>3. new["sta"] = [pn["sta"] EXCEPT ![i] = s.iv] /\ new \in Pns
    <3> DEFINE f == [pn["sta"] EXCEPT ![i] = s.iv]
    <3>1. f \in [0 .. 16 -> Nat]
      BY <1>1, <1>5
    <3>2. new = [pn EXCEPT !["sta"] = f]
      BY <2>2
    <3> HIDE DEF f, new
    <3>3. new["sta"] = f /\ new \in Pns
      BY <2>2, <3>1, <3>2 DEF Pns
    <3> QED BY <3>3 DEF f
  <2> HIDE DEF new
  <2>4. /\ pn["sta"][i] < s.iv /\ new["sta"][i] = s.iv
        /\ \A t \in 0 .. 16 : pn["sta"][t] <= new["sta"][t]
    BY <1>1, <1>5, <1>8, <2>2, <2>3
  <2>5. c.pn = new /\ c.s = valid
    BY <2>1
  <2> QED BY <1>1, <1>4, <2>3, <2>4, <2>5 DEF c, i
<1> QED BY <1>6, <1>7, <1>8

\* One burst behind the others.
LEMMA CompleteIs ==
  ASSUME NEW st \in Completing, NEW burst \in Bursts
  PROVE  LET new == CompleteBurst(st, burst)
             c == CheckCcmpPn(st.pn, burst[1])
             n == Len(st.list)
         IN /\ new \in Completing /\ new.pn = c.pn /\ Len(new.list) = n + Len(burst)
            /\ \A k \in 1 .. n : new.list[k] = st.list[k]
            /\ new.list[n + 1] = c.s
            /\ \A k \in 2 .. Len(burst) : new.list[n + k] = burst[k]
            /\ Len(burst) \in Nat \ {0} /\ n \in Nat
<1> DEFINE c == CheckCcmpPn(st.pn, burst[1])
           one == <<c.s>>
           tail == Tail(burst)
           n == Len(st.list)
           new == CompleteBurst(st, burst)
<1>1. st.pn \in Pns /\ st.list \in Seq(RxDone) /\ burst \in Seq(RxFrames) /\ burst # <<>>
  BY DEF Completing, Bursts
<1>2. c.pn \in Pns /\ c.s \in RxDone
  BY <1>1, CheckIs
<1>3. /\ Len(burst) \in Nat \ {0} /\ n \in Nat
      /\ tail \in Seq(RxFrames) /\ Len(tail) = Len(burst) - 1
      /\ \A k \in 2 .. Len(burst) : tail[k - 1] = burst[k] /\ k - 1 \in 1 .. Len(tail)
  <2>1. \A k \in 1 .. Len(burst) - 1 : Tail(burst)[k] = burst[k + 1]
    BY <1>1
  <2>2. Len(burst) \in Nat \ {0} /\ n \in Nat /\ tail \in Seq(RxFrames) /\ Len(tail) = Len(burst) - 1
    BY <1>1
  <2>3. ASSUME NEW k \in 2 .. Len(burst)
        PROVE  tail[k - 1] = burst[k] /\ k - 1 \in 1 .. Len(tail)
    <3>1. k - 1 \in 1 .. Len(burst) - 1 /\ (k - 1) + 1 = k
      BY <2>2
    <3> QED BY <2>1, <2>2, <3>1
  <2> QED BY <2>2, <2>3
<1>4. RxFrames \subseteq RxDone
  BY DEF RxFrames, RxDone, RxFramesOf
<1>5. tail \in Seq(RxDone) /\ one \in Seq(RxDone) /\ Len(one) = 1 /\ one[1] = c.s
  <2>1. tail \in Seq(RxDone)
    BY <1>3, <1>4
  <2> HIDE DEF c
  <2> QED BY <1>2, <2>1
<1>6. new = [pn |-> c.pn, list |-> (st.list \o one) \o tail]
  BY Zenon DEF CompleteBurst
<1> HIDE DEF c, one, tail
<1>7. st.list \o one \in Seq(RxDone) /\ Joined(st.list \o one, st.list, one)
  BY <1>1, <1>5, Concat
<1> DEFINE mid == st.list \o one
<1>8. mid \o tail \in Seq(RxDone) /\ Joined(mid \o tail, mid, tail)
  BY <1>5, <1>7, Concat
<1>9. new \in Completing /\ new.pn = c.pn /\ new.list = mid \o tail
  BY <1>2, <1>6, <1>8 DEF Completing
<1> HIDE DEF mid, new, n
<1>10. Joined(mid, st.list, one)
  BY <1>7 DEF mid
<1>11. /\ Len(mid) = n + 1 /\ mid[n + 1] = c.s /\ \A k \in 1 .. n : mid[k] = st.list[k]
  <2>1. 1 \in 1 .. Len(one)
    BY <1>5
  <2> QED BY <1>3, <1>5, <1>10, <2>1 DEF Joined, n
<1>12. /\ Len(new.list) = n + Len(burst)
       /\ \A k \in 1 .. n + 1 : new.list[k] = mid[k]
       /\ \A k \in 1 .. Len(tail) : new.list[n + 1 + k] = tail[k]
  <2>1. Joined(new.list, mid, tail)
    BY <1>8, <1>9
  <2>2. /\ Len(new.list) = n + 1 + Len(tail)
        /\ \A k \in 1 .. n + 1 : new.list[k] = mid[k]
        /\ \A k \in 1 .. Len(tail) : new.list[n + 1 + k] = tail[k]
    BY <1>11, <2>1 DEF Joined
  <2> QED BY <1>3, <2>2
<1>13. ASSUME NEW k \in 2 .. Len(burst) PROVE new.list[n + k] = burst[k]
  <2>1. n + 1 + (k - 1) = n + k
    BY <1>3
  <2>2. new.list[n + 1 + (k - 1)] = tail[k - 1]
    BY <1>3, <1>12
  <2> QED BY <1>3, <2>1, <2>2
<1>14. /\ \A k \in 1 .. n : new.list[k] = st.list[k]
       /\ new.list[n + 1] = c.s
  BY <1>3, <1>11, <1>12
<1> QED BY <1>3, <1>9, <1>12, <1>13, <1>14 DEF c, n, new

LEMMA CompleteBegins == \A pn \in Pns : [pn |-> pn, list |-> <<>>] \in Completing
  BY DEF Completing

\* What is completed is a run through the bursts.
LEMMA CompleteRuns ==
  ASSUME NEW pn \in Pns, NEW es \in Seq(Bursts)
  PROVE  \E h : /\ h[0] = [pn |-> pn, list |-> <<>>] /\ RxComplete(pn, es) = h[Len(es)]
                /\ \A k \in 0 .. Len(es) : h[k] \in Completing
                /\ \A k \in 1 .. Len(es) : h[k] = CompleteBurst(h[k - 1], es[k])
<1> DEFINE n == Len(es)
           base == [pn |-> pn, list |-> <<>>]
           step == [p \in (1 .. n) \X Completing |-> CompleteBurst(p[2], es[p[1]])]
           Body(f) == [U \in SUBSET (1 .. n) |->
                         IF U = {} THEN base ELSE CompleteBurst(f[U \ {Max(U)}], es[Max(U)])]
           it == CHOOSE f : f = Body(f)
           h == [k \in 0 .. n |-> it[1 .. k]]
<1>1. n \in Nat /\ DOMAIN es = 1 .. n /\ \A k \in 1 .. n : es[k] \in Bursts
  OBVIOUS
<1>2. base \in Completing /\ step \in [(1 .. n) \X Completing -> Completing]
  <2>1. ASSUME NEW p \in (1 .. n) \X Completing PROVE CompleteBurst(p[2], es[p[1]]) \in Completing
    <3>1. p[2] \in Completing /\ es[p[1]] \in Bursts
      BY <1>1
    <3> QED BY <3>1, CompleteBegins, CompleteIs
  <2>2. base \in Completing
    BY CompleteBegins, CompleteIs
  <2> HIDE DEF base
  <2> QED BY <2>1, <2>2
<1>3. PICK f : IsFold(f, n, Completing, base, step)
  <2> HIDE DEF step, base, n
  <2> QED BY <1>1, <1>2, FoldExists
<1>4. \A U \in SUBSET (1 .. n) : U # {} => Max(U) \in 1 .. n /\ U \ {Max(U)} \in SUBSET (1 .. n)
  BY <1>1, MaxIndex
<1>5. f \in [SUBSET (1 .. n) -> Completing] /\ f = Body(f)
  <2>1. ASSUME NEW U \in SUBSET (1 .. n), U # {}
        PROVE  f[U] = CompleteBurst(f[U \ {Max(U)}], es[Max(U)])
    <3> DEFINE T == U \ {Max(U)}
               m == Max(U)
    <3>1. m \in 1 .. n /\ T \in SUBSET (1 .. n)
      BY <1>4, <2>1
    <3>2. f[T] \in Completing /\ f[U] = step[<<m, f[T]>>]
      <4> HIDE DEF step, base
      <4> QED BY <1>3, <2>1, <3>1 DEF IsFold
    <3> HIDE DEF T, m, n, base
    <3>3. f[U] = CompleteBurst(f[T], es[m])
      BY <3>1, <3>2
    <3> QED BY <3>3 DEF T, m
  <2> HIDE DEF step, base
  <2>2. f \in [SUBSET (1 .. n) -> Completing] /\ f[{}] = base
    BY <1>1, <1>3, Prefix DEF IsFold
  <2> HIDE DEF n
  <2> QED BY <2>1, <2>2
<1>6. it = Body(it)
  BY <1>5
<1>7. RxComplete(pn, es) = it[1 .. n]
  BY <1>1 DEF RxComplete, FoldLeft, MapThenFoldSet
<1> HIDE DEF it, base, n, step
<1>8. h[0] = base
  BY <1>1, <1>6, Prefix
<1>9. ASSUME NEW k \in 1 .. n PROVE h[k] = CompleteBurst(h[k - 1], es[k])
  <2>1. k \in 0 .. n /\ k - 1 \in 0 .. n
    BY <1>1
  <2>2. it[1 .. k] = CompleteBurst(it[1 .. (k - 1)], es[k])
    <3>1. /\ 1 .. k \in SUBSET (1 .. n) /\ 1 .. k # {}
          /\ Max(1 .. k) = k /\ (1 .. k) \ {k} = 1 .. (k - 1)
      BY <1>1, Prefix
    <3>2. \A U \in SUBSET (1 .. n) :
            U # {} => it[U] = CompleteBurst(it[U \ {Max(U)}], es[Max(U)])
      BY <1>6
    <3>3. it[1 .. k] = CompleteBurst(it[(1 .. k) \ {Max(1 .. k)}], es[Max(1 .. k)])
      BY <3>1, <3>2
    <3> QED BY <3>1, <3>3
  <2>3. h[k] = it[1 .. k] /\ h[k - 1] = it[1 .. (k - 1)]
    BY <2>1
  <2> HIDE DEF h
  <2> QED BY <2>2, <2>3
<1>10. h[n] = it[1 .. n]
  BY <1>1
<1> HIDE DEF h
<1>11. \A k \in 0 .. n : h[k] \in Completing
  <2> DEFINE W == [k \in 0 .. n |-> Completing]
  <2>1. h[0] \in W[0]
    BY <1>1, <1>2, <1>8
  <2>2. ASSUME NEW k \in 1 .. n, h[k - 1] \in W[k - 1] PROVE h[k] \in W[k]
    <3>1. k \in 0 .. n /\ h[k - 1] \in Completing /\ es[k] \in Bursts
      BY <1>1, <2>2
    <3>2. CompleteBurst(h[k - 1], es[k]) \in Completing
      BY <3>1, CompleteBegins, CompleteIs
    <3> QED BY <1>9, <3>1, <3>2
  <2>3. \A k \in 0 .. n : h[k] \in W[k]
    <3> HIDE DEF W
    <3> QED BY <1>1, <2>1, <2>2, Run
  <2> QED BY <2>3
<1> QED BY <1>7, <1>8, <1>9, <1>10, <1>11 DEF n, base

\* The frames of the bursts one behind the other, their validated packet
\* numbers growing.
Grows(list) ==
  \A j, k \in 1 .. Len(list) :
    j < k /\ list[j].validated /\ list[k].validated /\ PnIndex(list[j]) = PnIndex(list[k])
      => list[j].iv < list[k].iv
Completed(st, a) ==
  /\ Len(st.list) = Len(a) /\ \A n \in 1 .. Len(a) : Stays(st.list[n], a[n])
  /\ \A n \in 1 .. Len(a) :
       st.list[n].validated => st.list[n].iv <= st.pn["sta"][PnIndex(st.list[n])]
  /\ Grows(st.list)

LEMMA CompleteKeeps ==
  ASSUME NEW st \in Completing, NEW a \in Seq(RxFrames), NEW burst \in Bursts, Completed(st, a)
  PROVE  Completed(CompleteBurst(st, burst), a \o burst)
<1> DEFINE new == CompleteBurst(st, burst)
           c == CheckCcmpPn(st.pn, burst[1])
           n == Len(st.list)
           l == new.list
           b == a \o burst
           m == Len(burst)
<1>1. /\ new \in Completing /\ new.pn = c.pn /\ Len(l) = n + m
      /\ \A k \in 1 .. n : l[k] = st.list[k]
      /\ l[n + 1] = c.s
      /\ \A k \in 2 .. m : l[n + k] = burst[k]
      /\ m \in Nat \ {0} /\ n \in Nat
  BY CompleteIs
<1>2. /\ st.pn \in Pns /\ burst \in Seq(RxFrames) /\ burst[1] \in RxFrames
  BY DEF Completing, Bursts
<1>3. /\ c.pn \in Pns /\ Stays(c.s, burst[1]) /\ PnIndex(burst[1]) \in 0 .. 16
      /\ \A t \in 0 .. 16 : st.pn["sta"][t] <= c.pn["sta"][t]
      /\ c.s.validated => /\ st.pn["sta"][PnIndex(burst[1])] < burst[1].iv
                          /\ c.pn["sta"][PnIndex(burst[1])] = burst[1].iv
      /\ c.s \in RxDone
  BY <1>2, CheckIs
<1>4. /\ Len(b) = n + m
      /\ \A k \in 1 .. n : b[k] = a[k]
      /\ \A k \in 1 .. m : b[n + k] = burst[k]
  BY <1>2, Concat DEF Completed, Joined
<1>5. /\ n = Len(a)
      /\ \A k \in 1 .. n : Stays(st.list[k], a[k])
      /\ \A k \in 1 .. n :
           st.list[k].validated => st.list[k].iv <= st.pn["sta"][PnIndex(st.list[k])]
      /\ \A j, k \in 1 .. n :
           j < k /\ st.list[j].validated /\ st.list[k].validated
             /\ PnIndex(st.list[j]) = PnIndex(st.list[k]) => st.list[j].iv < st.list[k].iv
  BY DEF Completed, Grows
<1>6. \A k \in 1 .. m : burst[k] \in RxFrames /\ ~burst[k].validated
  <2>1. \A k \in 1 .. m : burst[k] \in RxFrames
    BY <1>2
  <2>2. \A s \in RxFrames : ~s.validated
    <3> TAKE s \in RxFrames
    <3>1. s.validated \in {FALSE}
      BY DEF RxFrames, RxFramesOf
    <3> QED BY <3>1
  <2> QED BY <2>1, <2>2
<1>7. PnIndex(c.s) = PnIndex(burst[1]) /\ c.s.iv = burst[1].iv
  BY <1>3 DEF Stays, PnIndex
<1>8. \A k \in 1 .. n : /\ PnIndex(st.list[k]) \in 0 .. 16 /\ st.list[k].iv \in Nat
                        /\ st.pn["sta"][PnIndex(st.list[k])] \in Nat
                        /\ c.pn["sta"][PnIndex(st.list[k])] \in Nat
  <2>1. ASSUME NEW k \in 1 .. n
        PROVE  PnIndex(st.list[k]) \in 0 .. 16 /\ st.list[k].iv \in Nat
    <3>1. a[k] \in RxFrames /\ Stays(st.list[k], a[k])
      BY <1>5
    <3>2. PnIndex(a[k]) \in 0 .. 16 /\ a[k].iv \in Nat
      <4>1. a[k].tid \in 0 .. 15 /\ a[k].iv \in Nat
        BY <3>1 DEF RxFrames, RxFramesOf
      <4> QED BY <4>1 DEF PnIndex
    <3> QED BY <3>1, <3>2 DEF Stays, PnIndex
  <2>2. \A t \in 0 .. 16 : st.pn["sta"][t] \in Nat /\ c.pn["sta"][t] \in Nat
    BY <1>2, <1>3 DEF Pns
  <2> QED BY <2>1, <2>2
<1>9. burst[1].iv \in Nat /\ st.pn["sta"][PnIndex(burst[1])] \in Nat
  BY <1>2, <1>3 DEF Pns, RxFrames, RxFramesOf
<1> HIDE DEF new, c, n, l, b, m
<1>10. ASSUME NEW k \in 1 .. n + m
       PROVE  \/ k \in 1 .. n
              \/ k = n + 1 /\ l[k] = c.s /\ b[k] = burst[1]
              \/ k > n + 1 /\ ~l[k].validated /\ l[k] = b[k]
  <2>1. CASE k > n + 1
    <3>1. PICK i \in 2 .. m : k = n + i
      <4>1. k - n \in 2 .. m /\ k = n + (k - n)
        BY <1>1, <2>1
      <4> QED BY <4>1
    <3>2. i \in 1 .. m /\ l[k] = burst[i] /\ b[k] = burst[i]
      BY <1>1, <1>4, <3>1
    <3> QED BY <1>6, <2>1, <3>2
  <2>2. CASE k = n + 1
    <3>1. 1 \in 1 .. m
      BY <1>1
    <3> QED BY <1>1, <1>4, <2>2, <3>1
  <2>3. CASE k <= n
    BY <1>1, <2>3
  <2> QED BY <1>1, <2>1, <2>2, <2>3
<1>11. ASSUME NEW k \in 1 .. n + m PROVE Stays(l[k], b[k])
  <2>1. CASE k \in 1 .. n
    BY <1>1, <1>4, <1>5, <2>1
  <2>2. CASE k = n + 1 /\ l[k] = c.s /\ b[k] = burst[1]
    BY <1>3, <2>2
  <2>3. CASE l[k] = b[k]
    BY <2>3 DEF Stays
  <2> QED BY <1>10, <2>1, <2>2, <2>3
<1>12. ASSUME NEW k \in 1 .. n + m, l[k].validated PROVE l[k].iv <= c.pn["sta"][PnIndex(l[k])]
  <2>1. CASE k \in 1 .. n
    <3>1. /\ l[k] = st.list[k] /\ st.list[k].iv <= st.pn["sta"][PnIndex(st.list[k])]
          /\ st.pn["sta"][PnIndex(st.list[k])] <= c.pn["sta"][PnIndex(st.list[k])]
      BY <1>1, <1>3, <1>5, <1>8, <1>12, <2>1
    <3> QED BY <1>8, <2>1, <3>1
  <2>2. CASE k = n + 1 /\ l[k] = c.s
    <3>1. PnIndex(l[k]) = PnIndex(burst[1]) /\ l[k].iv = burst[1].iv /\ c.s.validated
      BY <1>7, <1>12, <2>2
    <3>2. c.pn["sta"][PnIndex(burst[1])] = burst[1].iv
      BY <1>3, <3>1
    <3> QED BY <1>9, <3>1, <3>2
  <2> QED BY <1>10, <1>12, <2>1, <2>2
<1>13. ASSUME NEW j \in 1 .. n + m, NEW k \in 1 .. n + m, j < k, l[j].validated, l[k].validated,
              PnIndex(l[j]) = PnIndex(l[k])
       PROVE  l[j].iv < l[k].iv
  <2>1. CASE k \in 1 .. n
    <3>1. j \in 1 .. n
      BY <1>1, <1>13, <2>1
    <3> QED BY <1>1, <1>5, <1>13, <2>1, <3>1
  <2>2. CASE k = n + 1 /\ l[k] = c.s
    <3>1. j \in 1 .. n
      BY <1>1, <1>13, <2>2
    <3>2. l[j] = st.list[j] /\ st.list[j].iv <= st.pn["sta"][PnIndex(st.list[j])]
      BY <1>1, <1>5, <1>13, <3>1
    <3>3. PnIndex(st.list[j]) = PnIndex(burst[1]) /\ l[k].iv = burst[1].iv
      BY <1>7, <1>13, <2>2, <3>2
    <3>4. st.pn["sta"][PnIndex(burst[1])] < burst[1].iv
      BY <1>3, <1>13, <2>2
    <3> QED BY <1>8, <1>9, <3>1, <3>2, <3>3, <3>4
  <2> QED BY <1>10, <1>13, <2>1, <2>2
<1>14. Grows(l)
  BY <1>1, <1>13 DEF Grows
<1>15. Completed(new, b)
  BY <1>1, <1>4, <1>11, <1>12, <1>14 DEF Completed, l
<1> QED BY <1>15 DEF new, b

\* The list.
LEMMA CompleteHolds ==
  ASSUME NEW pn \in Pns, NEW bs \in Seq(Bursts)
  PROVE  /\ RxComplete(pn, bs) \in Completing
         /\ FlattenSeq(bs) \in Seq(RxFrames)
         /\ Completed(RxComplete(pn, bs), FlattenSeq(bs))
<1> DEFINE n == Len(bs)
<1>1. n \in Nat /\ bs \in [1 .. n -> Seq(RxFrames)] /\ \A k \in 1 .. n : bs[k] \in Bursts
  BY DEF Bursts
<1>2. PICK h : /\ h[0] = [pn |-> pn, list |-> <<>>] /\ RxComplete(pn, bs) = h[n]
               /\ \A k \in 0 .. n : h[k] \in Completing
               /\ \A k \in 1 .. n : h[k] = CompleteBurst(h[k - 1], bs[k])
  BY CompleteRuns
<1> HIDE DEF n
<1>3. PICK g : Pieces(g, bs, n, RxFrames)
  BY <1>1, Flattens
<1>4. /\ g \in [0 .. n -> Seq(RxFrames)] /\ g[0] = <<>> /\ FlattenSeq(bs) = g[n]
      /\ \A k \in 1 .. n : g[k] = g[k - 1] \o bs[k]
  BY <1>3 DEF Pieces
<1> DEFINE W == [k \in 0 .. n |-> {x \in {h[k]} : Completed(x, g[k])}]
<1>5. h[0] \in W[0]
  <2>1. Completed(h[0], g[0])
    BY <1>2, <1>4 DEF Completed, Grows
  <2> QED BY <1>1, <2>1
<1>6. ASSUME NEW k \in 1 .. n, h[k - 1] \in W[k - 1] PROVE h[k] \in W[k]
  <2>1. k \in 0 .. n /\ k - 1 \in 0 .. n
    BY <1>1
  <2>2. Completed(h[k - 1], g[k - 1])
    BY <1>6, <2>1
  <2>3. h[k - 1] \in Completing /\ g[k - 1] \in Seq(RxFrames) /\ bs[k] \in Bursts
    BY <1>1, <1>2, <1>4, <2>1
  <2>4. Completed(CompleteBurst(h[k - 1], bs[k]), g[k - 1] \o bs[k])
    BY <2>2, <2>3, CompleteKeeps
  <2>5. Completed(h[k], g[k])
    BY <1>2, <1>4, <2>4
  <2> QED BY <2>1, <2>5
<1> HIDE DEF W
<1>7. \A k \in 0 .. n : h[k] \in W[k]
  BY <1>1, <1>5, <1>6, Run
<1>8. Completed(h[n], g[n]) /\ h[n] \in Completing /\ g[n] \in Seq(RxFrames)
  BY <1>1, <1>2, <1>4, <1>7 DEF W
<1> QED BY <1>2, <1>4, <1>8

\* No burst is empty.
Full(q) == \A b \in 1 .. Len(q.out) : q.out[b] # <<>>
LEMMA FullKeeps ==
  ASSUME NEW q \in RxQueue, NEW s \in RxFrames, Full(q)
  PROVE  Full(ReleaseBurst(q, s))
<1>1. ASSUME NEW p \in RxQueue, p.head # <<>>, Full(p) PROVE Full(ReleaseAmsdu(p))
  <2> DEFINE S == Seq(RxFrames)
             o == p.out
             x == p.head
             e == <<>>
  <2>1. o \in Seq(S) /\ x \in S
    BY DEF RxQueue
  <2>2. (\A b \in 1 .. Len(o) : o[b] # e) /\ x # e
    BY <1>1 DEF Full
  <2>3. ReleaseAmsdu(p).out = IF Len(x) > 1 /\ x[1].llc THEN o ELSE Append(o, x)
    BY ReleaseIs DEF ReleasedOut
  <2> HIDE DEF S, o, x, e
  <2>4. \A b \in 1 .. Len(Append(o, x)) : Append(o, x)[b] # e
    BY <2>1, <2>2
  <2>5. \A b \in 1 .. Len(ReleaseAmsdu(p).out) : ReleaseAmsdu(p).out[b] # e
    BY <2>2, <2>3, <2>4
  <2> QED BY <2>5 DEF Full, e
<1> DEFINE b == Before1(q, s)
           g == Gathers(b, s)
<1>2. b \in RxQueue /\ g \in RxQueue
      /\ ReleaseBurst(q, s) = IF ~s.amsdu \/ s.last THEN ReleaseAmsdu(g) ELSE g
  BY BurstIs
<1>3. Full(b)
  BY <1>1 DEF Before1, StartsAnew
<1> HIDE DEF b
<1>4. g.out = b.out /\ g.head = Append(b.head, s) /\ b.head \in Seq(RxFrames)
  BY <1>2 DEF Gathers, RxQueue
<1>5. Full(g) /\ g.head # <<>>
  <2>1. Append(b.head, s) # <<>>
    <3>1. Len(Append(b.head, s)) = Len(b.head) + 1 /\ Len(b.head) \in Nat
      BY <1>4
    <3>2. PICK t : t = Append(b.head, s)
      OBVIOUS
    <3>3. Len(t) # 0
      BY <3>1, <3>2
    <3>4. t # <<>>
      BY <3>3
    <3> QED BY <3>2, <3>4
  <2> QED BY <1>3, <1>4, <2>1 DEF Full
<1> HIDE DEF g
<1>6. Full(ReleaseAmsdu(g))
  BY <1>1, <1>2, <1>5
<1> QED BY <1>2, <1>5, <1>6

\* The references of the A-MPDUs and the bursts, all along.
LEMMA HistoryHolds ==
  ASSUME NEW fs \in RxInput, NEW h, RxHistory(fs, h)
  PROVE  \A k \in 0 .. Len(fs) : Full(h[k].q) /\ (h[k].rx.ts # 0 => h[k].rx.ref # 0)
<1> DEFINE n == Len(fs)
           P(x) == Full(x.q) /\ (x.rx.ts # 0 => x.rx.ref # 0)
           W == [k \in 0 .. n |-> {x \in {h[k]} : P(x)}]
<1>1. n \in Nat
  BY InputIs
<1>2. P(h[0])
  BY DEF RxHistory, NewQueue, Full
<1>3. h[0] \in W[0]
  BY <1>1, <1>2
<1>4. ASSUME NEW k \in 1 .. n, h[k - 1] \in W[k - 1] PROVE h[k] \in W[k]
  <2>1. k \in 0 .. n /\ k - 1 \in 0 .. n
    BY <1>1
  <2> DEFINE st == h[k - 1]
             f == fs[k]
  <2>2. P(st) /\ st \in Receiving /\ f \in RxDescriptor /\ h[k] = Receive(st, f)
        /\ st.rx \in RxState /\ st.q \in RxQueue
    BY <1>4, <2>1, InputIs DEF RxHistory, Receiving
  <2> HIDE DEF st, f, P
  <2>3. Full(st.q) /\ (st.rx.ts # 0 => st.rx.ref # 0)
    BY <2>2 DEF P
  <2>4. FillRx(st.rx, f) \in RxFrames
    BY <2>2, FillsFrame DEF FrameOf
  <2>5. Full(ReleaseBurst(st.q, FillRx(st.rx, f)))
    BY <2>2, <2>3, <2>4, FullKeeps
  <2>6. Full(Receive(st, f).q)
    BY <2>2, <2>3, <2>5, ReceiveIs
  <2>7. Receive(st, f).rx.ts # 0 => Receive(st, f).rx.ref # 0
    BY <2>2, <2>3, References, ReceiveIs
  <2>8. P(h[k])
    BY <2>2, <2>6, <2>7 DEF P
  <2> QED BY <2>1, <2>8
<1> HIDE DEF W, n, P
<1>5. \A k \in 0 .. n : h[k] \in W[k]
  BY <1>1, <1>3, <1>4, Run
<1> QED BY <1>5 DEF W, n, P

\* The references of two frames of which one came right after the other.
LEMMA ReferencesAgree ==
  ASSUME NEW fs \in RxInput, NEW h, RxHistory(fs, h), NEW k \in Nat, NEW s, Handed(fs, h, k, s)
  PROVE  LET f == fs[s.id]
         IN /\ s.start <= 4 * f.words
            /\ s.ref # 0 => InAmpdu(f)
            /\ InAmpdu(f) /\ f.ts # 0 => s.ref # 0
            /\ InAmpdu(f) => s.ref = h[s.id].rx.ref /\ h[s.id].rx.ts = f.ts
            /\ InAmpdu(f) => (s.ref = h[s.id - 1].rx.ref <=> h[s.id - 1].rx.ts = f.ts)
<1> DEFINE i == s.id
           f == fs[s.id]
           st == h[s.id - 1]
           new == AmpduStep(st.rx, f)
<1>1. /\ i \in 1 .. Len(fs) /\ f \in RxDescriptor /\ ~FillRxError(f) /\ st \in Receiving
      /\ st.rx \in RxState /\ FrameOf(st.rx, f, s)
  BY HandedIs
<1>2. h[i].rx = new
  <2>1. h[i] = Receive(st, f)
    BY <1>1 DEF RxHistory
  <2> QED BY <1>1, <2>1, ReceiveIs
<1>3. st.rx.ts # 0 => st.rx.ref # 0
  <2>1. i - 1 \in 0 .. Len(fs)
    BY <1>1, InputIs
  <2> QED BY <2>1, HistoryHolds
<1>4. /\ new.ts # 0 => new.ref # 0
      /\ InAmpdu(f) => /\ new.ts = f.ts
                       /\ new.ref = st.rx.ref <=> st.rx.ts = f.ts
  BY <1>1, <1>3, References
<1>5. ~Truncated(f)
  BY <1>1 DEF FillRxError
<1>6. s.start <= 4 * f.words /\ s.ref = (IF InAmpdu(f) THEN new.ref ELSE 0)
  BY <1>1, <1>5 DEF FrameOf
<1> HIDE DEF new, st, f, i
<1>7. /\ s.ref # 0 => InAmpdu(f)
      /\ InAmpdu(f) /\ f.ts # 0 => s.ref # 0
      /\ InAmpdu(f) => s.ref = h[i].rx.ref /\ h[i].rx.ts = f.ts
      /\ InAmpdu(f) => (s.ref = st.rx.ref <=> st.rx.ts = f.ts)
  BY <1>2, <1>4, <1>6
<1> QED BY <1>6, <1>7 DEF i, f, st

\* The frames of a queue, from the bus to the list.
LEMMA ReceivedWhole ==
  ASSUME NEW fs \in RxInput, NEW q, q = ReceiveAll(fs).q,
         NEW list, list = RxComplete(KeySetup(<<>>, "sta", 0), q.out).list
  PROVE  /\ KeepsOrder(fs, q) /\ AmsdusAreWhole(fs, q)
         /\ IdsOf(list) = IdsOf(FlattenSeq(q.out)) /\ PnsGrow(list) /\ AmpdusAgree(fs, list)
<1> DEFINE n == Len(fs)
           a == FlattenSeq(q.out)
           kept == Kept(q)
           pn == KeySetup(<<>>, "sta", 0)
<1>1. fs \in Seq(RxDescriptor) /\ n \in Nat /\ DOMAIN fs = 1 .. n
      /\ \A i \in 1 .. n : fs[i] \in RxDescriptor /\ fs[i].id = i
  BY InputIs
<1>2. PICK h : /\ h[0] = NewQueue /\ ReceiveAll(fs) = h[n]
               /\ \A k \in 0 .. n : h[k] \in Receiving
               /\ \A k \in 1 .. n : h[k] = Receive(h[k - 1], fs[k])
  BY <1>1, ReceiveRuns
<1>3. RxHistory(fs, h)
  BY <1>2 DEF RxHistory
<1>4. RxInv(fs, h, n, q) /\ Full(q)
  <2>1. n \in 0 .. n /\ q = h[n].q
    BY <1>1, <1>2
  <2> QED BY <1>3, <2>1, ReceiveHolds, HistoryHolds
<1>5. /\ q \in RxQueue /\ KeptInv(fs, h, n, kept) /\ WholeInv(fs, n, q)
      /\ \A b \in 1 .. Len(q.out) : OneAmsdu(q.out[b])
      /\ OneAmsdu(q.head)
  BY <1>4 DEF RxInv, QueueInv
<1>6. /\ a \in Seq(RxFrames) /\ q.head \in Seq(RxFrames) /\ kept \in Seq(RxFrames)
      /\ Len(kept) = Len(a) + Len(q.head)
      /\ \A k \in 1 .. Len(a) : kept[k] = a[k]
  BY <1>5, KeptIs
<1>7. kept = FlattenSeq(q.out) \o q.head
  BY DEF Kept
<1> HIDE DEF n, a, kept, pn
<1>8. /\ \A k \in 1 .. Len(kept) : Handed(fs, h, n, kept[k])
      /\ \A j, k \in 1 .. Len(kept) : j < k => kept[j].id < kept[k].id
      /\ \A i \in Good(fs) : i <= n => (\E k \in 1 .. Len(kept) : kept[k].id = i) \/ Refused(fs, i)
  BY <1>5 DEF KeptInv
<1>9. DOMAIN kept = 1 .. Len(kept) /\ Len(kept) \in Nat /\ Good(fs) \subseteq 1 .. n
  BY <1>1, <1>6 DEF Good
<1>10. KeepsOrder(fs, q)
  <2> DEFINE ids == IdsOf(kept)
  <2>1. DOMAIN ids = 1 .. Len(kept) /\ \A k \in 1 .. Len(kept) : ids[k] = kept[k].id
    BY <1>9 DEF IdsOf
  <2> HIDE DEF ids
  <2>2. Ascending(ids)
    BY <1>8, <2>1 DEF Ascending
  <2>3. \A k \in DOMAIN ids : ids[k] \in Good(fs)
    BY <1>8, <2>1 DEF Handed
  <2>4. ASSUME NEW k \in Good(fs)
        PROVE  k \in {ids[i] : i \in DOMAIN ids} \/ Refused(fs, k)
    <3>1. k <= n
      BY <1>1, <1>9
    <3> QED BY <1>8, <2>1, <3>1
  <2>5. ids = IdsOf(FlattenSeq(q.out) \o q.head)
    BY <1>7 DEF ids
  <2> QED BY <2>2, <2>3, <2>4, <2>5, Zenon DEF KeepsOrder, Refused
<1>11. DOMAIN q.out = 1 .. Len(q.out) /\ q.out \in Seq(Seq(RxFrames))
       /\ \A b \in 1 .. Len(q.out) : q.out[b] \in Seq(RxFrames) /\ q.out[b] # <<>>
  <2> DEFINE S == Seq(RxFrames)
             o == q.out
  <2>1. o \in Seq(S) /\ \A b \in 1 .. Len(o) : o[b] # <<>>
    BY <1>4, <1>5 DEF RxQueue, Full
  <2> HIDE DEF S, o
  <2>2. DOMAIN o = 1 .. Len(o) /\ \A b \in 1 .. Len(o) : o[b] \in S
    BY <2>1
  <2> QED BY <2>1, <2>2 DEF S, o
<1>12. AmsdusAreWhole(fs, q)
  <2>1. ASSUME NEW j \in DOMAIN fs, NEW k \in DOMAIN fs, WholeAmsdu(fs, j, k), ~fs[j].llc
        PROVE  \E b \in DOMAIN q.out : IdsOf(q.out[b]) = [m \in 1 .. k - j + 1 |-> j + m - 1]
    <3>1. k <= n
      BY <1>1
    <3>2. PICK b \in 1 .. Len(q.out) : Spans(q.out[b], j, k)
      BY <1>5, <2>1, <3>1 DEF WholeInv
    <3> DEFINE ss == q.out[b]
    <3>3. ss \in Seq(RxFrames) /\ Len(ss) = k - j + 1
          /\ \A m \in 1 .. k - j + 1 : ss[m].id = j + m - 1
      BY <1>11, <3>2 DEF Spans
    <3> HIDE DEF ss
    <3>4. DOMAIN ss = 1 .. k - j + 1
      BY <3>3
    <3>5. IdsOf(ss) = [m \in 1 .. k - j + 1 |-> j + m - 1]
      BY <3>3, <3>4 DEF IdsOf
    <3> QED BY <1>11, <3>5 DEF ss
  <2> QED BY <1>5, <1>11, <2>1 DEF AmsdusAreWhole
<1>13. pn \in Pns
  <2>1. pn = [w \in {"sta"} |-> [t \in 0 .. 16 |-> 0]]
    <3>1. DOMAIN <<>> \cup {"sta"} = {"sta"}
      OBVIOUS
    <3> QED BY <3>1, Zenon DEF pn, KeySetup
  <2> QED BY <2>1 DEF Pns
<1>14. q.out \in Seq(Bursts)
  <2> DEFINE o == q.out
  <2>1. o \in [1 .. Len(o) -> Bursts] /\ Len(o) \in Nat
    <3> DEFINE S == Seq(RxFrames)
    <3>1. o \in Seq(S) /\ \A b \in 1 .. Len(o) : o[b] \in Bursts
      BY <1>11 DEF Bursts
    <3> HIDE DEF S, o
    <3> QED BY <3>1
  <2> HIDE DEF o
  <2>2. o \in Seq(Bursts)
    BY <2>1
  <2> QED BY <2>2 DEF o
<1>15. /\ RxComplete(pn, q.out) \in Completing /\ Completed(RxComplete(pn, q.out), a)
  BY <1>13, <1>14, CompleteHolds DEF a
<1>16. /\ list \in Seq(RxDone) /\ Len(list) = Len(a) /\ Grows(list)
       /\ \A k \in 1 .. Len(a) : Stays(list[k], a[k])
  BY <1>15 DEF Completing, Completed, pn
<1>17. DOMAIN list = 1 .. Len(a) /\ DOMAIN a = 1 .. Len(a) /\ Len(a) \in Nat
  BY <1>6, <1>16
<1>18. IdsOf(list) = IdsOf(FlattenSeq(q.out))
  <2>1. \A k \in 1 .. Len(a) : list[k].id = a[k].id
    BY <1>16 DEF Stays
  <2>2. IdsOf(list) = IdsOf(a)
    BY <1>17, <2>1 DEF IdsOf
  <2> QED BY <2>2 DEF a
<1>19. PnsGrow(list)
  BY <1>16, <1>17 DEF PnsGrow, Grows
<1>20. ASSUME NEW k \in 1 .. Len(a)
       PROVE  /\ Handed(fs, h, n, a[k]) /\ list[k].id = a[k].id /\ list[k].start = a[k].start
              /\ list[k].ref = a[k].ref /\ a[k].id \in 1 .. n
  <2>1. k \in 1 .. Len(kept) /\ kept[k] = a[k]
    BY <1>6, <1>17
  <2>2. Handed(fs, h, n, a[k])
    BY <1>8, <2>1
  <2>3. a[k].id \in 1 .. n
    BY <1>1, <1>3, <2>2, HandedIs DEF n
  <2> QED BY <1>16, <2>2, <2>3 DEF Stays
<1>21. ASSUME NEW j \in DOMAIN list
       PROVE  LET f == fs[list[j].id]
              IN /\ list[j].start <= 4 * f.words
                 /\ list[j].ref # 0 => InAmpdu(f)
                 /\ InAmpdu(f) /\ f.ts # 0 => list[j].ref # 0
  <2> DEFINE s == a[j]
             f == fs[s.id]
  <2>1. /\ Handed(fs, h, n, s) /\ list[j].id = s.id /\ list[j].start = s.start
        /\ list[j].ref = s.ref
    BY <1>17, <1>20
  <2> HIDE DEF s
  <2>2. /\ s.start <= 4 * f.words
        /\ s.ref # 0 => InAmpdu(f)
        /\ InAmpdu(f) /\ f.ts # 0 => s.ref # 0
    BY <1>1, <1>3, <2>1, ReferencesAgree
  <2> HIDE DEF f
  <2>3. fs[list[j].id] = f
    BY <2>1 DEF f
  <2> QED BY <2>1, <2>2, <2>3
<1>22. ASSUME NEW j \in 1 .. Len(list) - 1
       PROVE  LET f == fs[list[j].id]
                  g == fs[list[j + 1].id]
              IN InAmpdu(f) /\ InAmpdu(g) /\ g.id = f.id + 1
                   => (f.ts = g.ts <=> list[j].ref = list[j + 1].ref)
  <2> DEFINE s == a[j]
             t == a[j + 1]
             f == fs[s.id]
             g == fs[t.id]
  <2>1. j \in 1 .. Len(a) /\ j + 1 \in 1 .. Len(a)
    BY <1>16, <1>17
  <2>2. /\ Handed(fs, h, n, s) /\ Handed(fs, h, n, t) /\ s.id \in 1 .. n /\ t.id \in 1 .. n
        /\ list[j].id = s.id /\ list[j + 1].id = t.id
        /\ list[j].ref = s.ref /\ list[j + 1].ref = t.ref
    BY <1>20, <2>1
  <2> HIDE DEF s, t
  <2>3. f.id = s.id /\ g.id = t.id
    BY <1>1, <2>2
  <2>4. /\ InAmpdu(f) => s.ref = h[s.id].rx.ref /\ h[s.id].rx.ts = f.ts
        /\ InAmpdu(g) => (t.ref = h[t.id - 1].rx.ref <=> h[t.id - 1].rx.ts = g.ts)
    BY <1>1, <1>3, <2>2, ReferencesAgree
  <2>5. ASSUME g.id = f.id + 1 PROVE t.id - 1 = s.id
    BY <1>1, <2>2, <2>3, <2>5
  <2>6. InAmpdu(f) /\ InAmpdu(g) /\ g.id = f.id + 1
           => (f.ts = g.ts <=> s.ref = t.ref)
    BY <2>4, <2>5
  <2> QED BY <2>2, <2>6
<1>23. AmpdusAgree(fs, list)
  BY <1>21, <1>22 DEF AmpdusAgree
<1> QED BY <1>10, <1>12, <1>18, <1>19, <1>23

-----------------------------------------------------------------------------
(* Transfers: the pieces of a frame, one buffer after the other.           *)
Runs == [seg : Nat, at : Nat, n : Nat]
Building == [left : Nat, frags : Seq(Runs)]
Lengths(ps) == [k \in DOMAIN ps |-> ps[k].n]

LEMMA FewerIs ==
  ASSUME NEW a \in Nat, NEW b \in Nat
  PROVE  Fewer(a, b) \in Nat /\ Fewer(a, b) <= a /\ Fewer(a, b) <= b /\ Fewer(a, b) \in {a, b}
  BY DEF Fewer

\* One segment more.
LEMMA FragIs ==
  ASSUME NEW b \in Building, NEW seg \in Nat \ {0}
  PROVE  LET m == Fewer(b.left, seg)
             new == [left |-> b.left - m,
                     frags |-> Append(b.frags, Piece(Len(b.frags) + 2, 0, m))]
         IN /\ AddRxFrag(b, seg) \in Building /\ new \in Building
            /\ AddRxFrag(b, seg) = IF b.left = 0 THEN b ELSE new
<1> DEFINE m == Fewer(b.left, seg)
           p == Piece(Len(b.frags) + 2, 0, m)
           new == [left |-> b.left - m, frags |-> Append(b.frags, p)]
<1>1. b.left \in Nat /\ b.frags \in Seq(Runs) /\ Len(b.frags) \in Nat
  BY DEF Building
<1>2. m \in Nat /\ b.left - m \in Nat
  <2>1. m \in Nat /\ m <= b.left
    BY <1>1, FewerIs
  <2> HIDE DEF m
  <2> QED BY <1>1, <2>1
<1> HIDE DEF m
<1>3. p \in Runs
  BY <1>1, <1>2 DEF Piece, Runs
<1> HIDE DEF p
<1>4. new \in Building
  BY <1>1, <1>2, <1>3 DEF Building
<1>5. AddRxFrag(b, seg) = IF b.left = 0 THEN b ELSE new
  BY Zenon DEF AddRxFrag, m, p
<1> QED BY <1>4, <1>5 DEF m, p

LEMMA FragBegins == \A n \in Nat : [left |-> n, frags |-> <<>>] \in Building
  BY DEF Building

\* The further buffers are a run through the segments.
LEMMA FragRuns ==
  ASSUME NEW len \in Nat, NEW es \in Seq(Nat \ {0})
  PROVE  \E h : /\ h[0] = [left |-> len, frags |-> <<>>] /\ FoldLeft(AddRxFrag, [left |-> len, frags |-> <<>>], es) = h[Len(es)]
                /\ \A k \in 0 .. Len(es) : h[k] \in Building
                /\ \A k \in 1 .. Len(es) : h[k] = AddRxFrag(h[k - 1], es[k])
<1> DEFINE n == Len(es)
           base == [left |-> len, frags |-> <<>>]
           step == [p \in (1 .. n) \X Building |-> AddRxFrag(p[2], es[p[1]])]
           Body(f) == [U \in SUBSET (1 .. n) |->
                         IF U = {} THEN base ELSE AddRxFrag(f[U \ {Max(U)}], es[Max(U)])]
           it == CHOOSE f : f = Body(f)
           h == [k \in 0 .. n |-> it[1 .. k]]
<1>1. n \in Nat /\ DOMAIN es = 1 .. n /\ \A k \in 1 .. n : es[k] \in Nat \ {0}
  OBVIOUS
<1>2. base \in Building /\ step \in [(1 .. n) \X Building -> Building]
  <2>1. ASSUME NEW p \in (1 .. n) \X Building PROVE AddRxFrag(p[2], es[p[1]]) \in Building
    <3>1. p[2] \in Building /\ es[p[1]] \in Nat \ {0}
      BY <1>1
    <3> QED BY <3>1, FragBegins, FragIs
  <2>2. base \in Building
    BY FragBegins, FragIs
  <2> HIDE DEF base
  <2> QED BY <2>1, <2>2
<1>3. PICK f : IsFold(f, n, Building, base, step)
  <2> HIDE DEF step, base, n
  <2> QED BY <1>1, <1>2, FoldExists
<1>4. \A U \in SUBSET (1 .. n) : U # {} => Max(U) \in 1 .. n /\ U \ {Max(U)} \in SUBSET (1 .. n)
  BY <1>1, MaxIndex
<1>5. f \in [SUBSET (1 .. n) -> Building] /\ f = Body(f)
  <2>1. ASSUME NEW U \in SUBSET (1 .. n), U # {}
        PROVE  f[U] = AddRxFrag(f[U \ {Max(U)}], es[Max(U)])
    <3> DEFINE T == U \ {Max(U)}
               m == Max(U)
    <3>1. m \in 1 .. n /\ T \in SUBSET (1 .. n)
      BY <1>4, <2>1
    <3>2. f[T] \in Building /\ f[U] = step[<<m, f[T]>>]
      <4> HIDE DEF step, base
      <4> QED BY <1>3, <2>1, <3>1 DEF IsFold
    <3> HIDE DEF T, m, n, base
    <3>3. f[U] = AddRxFrag(f[T], es[m])
      BY <3>1, <3>2
    <3> QED BY <3>3 DEF T, m
  <2> HIDE DEF step, base
  <2>2. f \in [SUBSET (1 .. n) -> Building] /\ f[{}] = base
    BY <1>1, <1>3, Prefix DEF IsFold
  <2> HIDE DEF n
  <2> QED BY <2>1, <2>2
<1>6. it = Body(it)
  BY <1>5
<1>7. FoldLeft(AddRxFrag, [left |-> len, frags |-> <<>>], es) = it[1 .. n]
  BY <1>1 DEF FoldLeft, MapThenFoldSet
<1> HIDE DEF it, base, n, step
<1>8. h[0] = base
  BY <1>1, <1>6, Prefix
<1>9. ASSUME NEW k \in 1 .. n PROVE h[k] = AddRxFrag(h[k - 1], es[k])
  <2>1. k \in 0 .. n /\ k - 1 \in 0 .. n
    BY <1>1
  <2>2. it[1 .. k] = AddRxFrag(it[1 .. (k - 1)], es[k])
    <3>1. /\ 1 .. k \in SUBSET (1 .. n) /\ 1 .. k # {}
          /\ Max(1 .. k) = k /\ (1 .. k) \ {k} = 1 .. (k - 1)
      BY <1>1, Prefix
    <3>2. \A U \in SUBSET (1 .. n) :
            U # {} => it[U] = AddRxFrag(it[U \ {Max(U)}], es[Max(U)])
      BY <1>6
    <3>3. it[1 .. k] = AddRxFrag(it[(1 .. k) \ {Max(1 .. k)}], es[Max(1 .. k)])
      BY <3>1, <3>2
    <3> QED BY <3>1, <3>3
  <2>3. h[k] = it[1 .. k] /\ h[k - 1] = it[1 .. (k - 1)]
    BY <2>1
  <2> HIDE DEF h
  <2> QED BY <2>2, <2>3
<1>10. h[n] = it[1 .. n]
  BY <1>1
<1> HIDE DEF h
<1>11. \A k \in 0 .. n : h[k] \in Building
  <2> DEFINE W == [k \in 0 .. n |-> Building]
  <2>1. h[0] \in W[0]
    BY <1>1, <1>2, <1>8
  <2>2. ASSUME NEW k \in 1 .. n, h[k - 1] \in W[k - 1] PROVE h[k] \in W[k]
    <3>1. k \in 0 .. n /\ h[k - 1] \in Building /\ es[k] \in Nat \ {0}
      BY <1>1, <2>2
    <3>2. AddRxFrag(h[k - 1], es[k]) \in Building
      BY <3>1, FragBegins, FragIs
    <3> QED BY <1>9, <3>1, <3>2
  <2>3. \A k \in 0 .. n : h[k] \in W[k]
    <3> HIDE DEF W
    <3> QED BY <1>1, <2>1, <2>2, Run
  <2> QED BY <2>3
<1> QED BY <1>7, <1>8, <1>9, <1>10, <1>11 DEF n, base

\* What was taken of the segments so far.
TakenOf(b, len, sum) ==
  /\ b \in Building /\ b.left = (IF len > sum THEN len - sum ELSE 0)
  /\ Total(Lengths(b.frags)) + b.left = len
  /\ \A j \in 1 .. Len(b.frags) : b.frags[j].seg = j + 1 /\ b.frags[j].at = 0 /\ b.frags[j].n > 0

\* The lengths of pieces one behind the other add up.
LEMMA LengthsAre ==
  ASSUME NEW ps \in Seq(Runs)
  PROVE  /\ Lengths(ps) \in Seq(Nat) /\ Len(Lengths(ps)) = Len(ps) /\ Len(ps) \in Nat
         /\ \A k \in 1 .. Len(ps) : Lengths(ps)[k] = ps[k].n /\ ps[k] \in Runs
         /\ Total(Lengths(ps)) \in Nat
<1> DEFINE n == Len(ps)
           l == Lengths(ps)
<1>1. n \in Nat /\ DOMAIN ps = 1 .. n /\ \A k \in 1 .. n : ps[k] \in Runs
  OBVIOUS
<1>2. \A k \in 1 .. n : ps[k].n \in Nat
  BY <1>1 DEF Runs
<1>3. l = [k \in 1 .. n |-> ps[k].n]
  BY <1>1 DEF Lengths
<1> HIDE DEF l, n
<1>4. l \in [1 .. n -> Nat] /\ \A k \in 1 .. n : l[k] = ps[k].n
  BY <1>2, <1>3
<1>5. l \in Seq(Nat) /\ Len(l) = n
  BY <1>1, <1>4
<1>6. Total(l) \in Nat
  <2>1. PICK h : Sums(h, l, n) /\ Total(l) = h[n]
    BY <1>1, <1>4, TotalRuns
  <2> QED BY <1>1, <2>1 DEF Sums
<1> QED BY <1>1, <1>4, <1>5, <1>6 DEF l, n

LEMMA LengthsJoin ==
  ASSUME NEW ps \in Seq(Runs), NEW qs \in Seq(Runs)
  PROVE  Total(Lengths(ps \o qs)) = Total(Lengths(ps)) + Total(Lengths(qs))
<1> DEFINE rs == ps \o qs
<1>1. rs \in Seq(Runs) /\ Joined(rs, ps, qs)
  BY Concat
<1> HIDE DEF rs
<1>2. /\ Lengths(ps) \in Seq(Nat) /\ Len(Lengths(ps)) = Len(ps) /\ Len(ps) \in Nat
      /\ \A k \in 1 .. Len(ps) : Lengths(ps)[k] = ps[k].n
      /\ Lengths(qs) \in Seq(Nat) /\ Len(Lengths(qs)) = Len(qs) /\ Len(qs) \in Nat
      /\ \A k \in 1 .. Len(qs) : Lengths(qs)[k] = qs[k].n
      /\ Lengths(rs) \in Seq(Nat) /\ Len(Lengths(rs)) = Len(rs)
      /\ \A k \in 1 .. Len(rs) : Lengths(rs)[k] = rs[k].n
  BY <1>1, LengthsAre
<1>3. Joined(Lengths(rs), Lengths(ps), Lengths(qs))
  <2>1. ASSUME NEW k \in 1 .. Len(ps) PROVE Lengths(rs)[k] = Lengths(ps)[k]
    <3>1. k \in 1 .. Len(rs) /\ rs[k] = ps[k]
      BY <1>1, <1>2 DEF Joined
    <3> QED BY <1>2, <3>1
  <2>2. ASSUME NEW k \in 1 .. Len(qs) PROVE Lengths(rs)[Len(ps) + k] = Lengths(qs)[k]
    <3>1. Len(ps) + k \in 1 .. Len(rs) /\ rs[Len(ps) + k] = qs[k]
      BY <1>1, <1>2 DEF Joined
    <3> QED BY <1>2, <3>1
  <2>3. Len(Lengths(rs)) = Len(Lengths(ps)) + Len(Lengths(qs))
    BY <1>1, <1>2 DEF Joined
  <2> QED BY <1>2, <2>1, <2>2, <2>3 DEF Joined
<1>4. Total(Lengths(rs)) = Total(Lengths(ps)) + Total(Lengths(qs))
  BY <1>2, <1>3, TotalJoins
<1> QED BY <1>4 DEF rs

LEMMA LengthsOne ==
  ASSUME NEW p \in Runs
  PROVE  <<p>> \in Seq(Runs) /\ Total(Lengths(<<p>>)) = p.n
<1>1. p.n \in Nat
  BY DEF Runs
<1>2. Lengths(<<p>>) = <<p.n>>
  BY DEF Lengths
<1> QED BY <1>1, <1>2, TotalOne

LEMMA TakesMore ==
  ASSUME NEW b, NEW len \in Nat, NEW sum \in Nat, TakenOf(b, len, sum), NEW seg \in Nat \ {0}
  PROVE  TakenOf(AddRxFrag(b, seg), len, sum + seg)
<1> DEFINE m == Fewer(b.left, seg)
           p == Piece(Len(b.frags) + 2, 0, m)
           new == [left |-> b.left - m, frags |-> Append(b.frags, p)]
<1>1. /\ b \in Building /\ b.left \in Nat /\ b.frags \in Seq(Runs)
      /\ b.left = (IF len > sum THEN len - sum ELSE 0)
      /\ Total(Lengths(b.frags)) + b.left = len
  BY DEF TakenOf, Building
<1>2. /\ new \in Building /\ AddRxFrag(b, seg) = IF b.left = 0 THEN b ELSE new
  BY <1>1, FragIs
<1>3. CASE b.left = 0
  <2>1. len <= sum
    BY <1>1, <1>3
  <2>2. ~(len > sum + seg)
    BY <2>1
  <2>3. AddRxFrag(b, seg) = b
    BY <1>2, <1>3
  <2> QED BY <1>3, <2>2, <2>3 DEF TakenOf
<1>4. CASE b.left # 0
  <2>1. m \in Nat /\ m > 0 /\ m <= b.left /\ m <= seg /\ m \in {b.left, seg}
    <3>1. m \in Nat /\ m <= b.left /\ m <= seg /\ m \in {b.left, seg}
      BY <1>1, FewerIs
    <3> HIDE DEF m
    <3> QED BY <1>1, <1>4, <3>1
  <2> HIDE DEF m
  <2>2. b.left - m = (IF len > sum + seg THEN len - (sum + seg) ELSE 0)
    <3>1. b.left = len - sum /\ len > sum
      BY <1>1, <1>4
    <3>2. CASE m = seg
      BY <1>1, <2>1, <3>1, <3>2
    <3>3. CASE m = b.left
      BY <1>1, <2>1, <3>1, <3>3
    <3> QED BY <2>1, <3>2, <3>3
  <2>3. p \in Runs /\ p.n = m /\ p.seg = Len(b.frags) + 2 /\ p.at = 0
    BY <1>1, <2>1 DEF Piece, Runs
  <2> HIDE DEF p
  <2>4. new.left = b.left - m /\ new.frags = Append(b.frags, p)
    OBVIOUS
  <2>5. AddRxFrag(b, seg) = new
    BY <1>2, <1>4
  <2> HIDE DEF new
  <2>6. Append(b.frags, p) = b.frags \o <<p>>
    BY <1>1, <2>3
  <2>7. Total(Lengths(new.frags)) = Total(Lengths(b.frags)) + m
    BY <1>1, <2>3, <2>4, <2>6, LengthsJoin, LengthsOne
  <2>8. Total(Lengths(b.frags)) \in Nat
    BY <1>1, LengthsAre
  <2>9. Total(Lengths(new.frags)) + new.left = len
    BY <1>1, <2>1, <2>4, <2>7, <2>8
  <2>10. ASSUME NEW j \in 1 .. Len(new.frags)
         PROVE  new.frags[j].seg = j + 1 /\ new.frags[j].at = 0 /\ new.frags[j].n > 0
    <3> DEFINE f == b.frags
    <3>1. /\ Len(new.frags) = Len(f) + 1 /\ Len(f) \in Nat
          /\ new.frags[j] = IF j <= Len(f) THEN f[j] ELSE p
      BY <1>1, <2>3, <2>4
    <3>2. CASE j <= Len(f)
      <4>1. j \in 1 .. Len(f) /\ new.frags[j] = f[j]
        BY <3>1, <3>2
      <4> QED BY <4>1 DEF TakenOf
    <3>3. CASE ~(j <= Len(f))
      <4>1. j = Len(f) + 1 /\ new.frags[j] = p
        BY <3>1, <3>3
      <4> QED BY <2>1, <2>3, <3>1, <4>1
    <3> QED BY <3>2, <3>3
  <2> QED BY <1>2, <2>2, <2>4, <2>5, <2>9, <2>10 DEF TakenOf
<1> QED BY <1>3, <1>4

\* All segments.
LEMMA TakesAll ==
  ASSUME NEW len \in Nat, NEW es \in Seq(Nat \ {0})
  PROVE  LET b == FoldLeft(AddRxFrag, [left |-> len, frags |-> <<>>], es)
         IN Total(es) \in Nat /\ TakenOf(b, len, Total(es))
<1> DEFINE n == Len(es)
<1>1. n \in Nat /\ es \in [1 .. n -> Nat] /\ \A k \in 1 .. n : es[k] \in Nat \ {0}
  OBVIOUS
<1>2. PICK h : /\ h[0] = [left |-> len, frags |-> <<>>]
               /\ FoldLeft(AddRxFrag, [left |-> len, frags |-> <<>>], es) = h[n]
               /\ \A k \in 0 .. n : h[k] \in Building
               /\ \A k \in 1 .. n : h[k] = AddRxFrag(h[k - 1], es[k])
  BY FragRuns
<1> HIDE DEF n
<1>3. PICK g : Sums(g, es, n) /\ Total(es) = g[n]
  BY <1>1, TotalRuns
<1>4. /\ g \in [0 .. n -> Nat] /\ g[0] = 0
      /\ \A k \in 1 .. n : g[k] = g[k - 1] + es[k]
  BY <1>3 DEF Sums
<1> DEFINE W == [k \in 0 .. n |-> {x \in {h[k]} : TakenOf(x, len, g[k])}]
<1>5. h[0] \in W[0]
  <2> DEFINE b == h[0]
  <2>1. b.left = len /\ b.frags = <<>> /\ b \in Building
    BY <1>1, <1>2
  <2> HIDE DEF b
  <2>2. Total(Lengths(b.frags)) = 0
    <3>1. <<>> \in [1 .. 0 -> Nat]
      OBVIOUS
    <3>2. Lengths(b.frags) = <<>>
      BY <2>1 DEF Lengths
    <3>3. PICK f : Sums(f, <<>>, 0) /\ Total(<<>>) = f[0]
      BY <3>1, TotalRuns
    <3> QED BY <3>2, <3>3 DEF Sums
  <2>3. TakenOf(b, len, 0)
    BY <2>1, <2>2 DEF TakenOf
  <2> QED BY <1>1, <1>4, <2>3 DEF b
<1>6. ASSUME NEW k \in 1 .. n, h[k - 1] \in W[k - 1] PROVE h[k] \in W[k]
  <2>1. k \in 0 .. n /\ k - 1 \in 0 .. n
    BY <1>1
  <2>2. TakenOf(h[k - 1], len, g[k - 1])
    BY <1>6, <2>1
  <2>3. TakenOf(AddRxFrag(h[k - 1], es[k]), len, g[k - 1] + es[k])
    BY <1>1, <1>4, <2>1, <2>2, TakesMore
  <2>4. TakenOf(h[k], len, g[k])
    BY <1>2, <1>4, <2>3
  <2> QED BY <2>1, <2>4
<1> HIDE DEF W
<1>7. \A k \in 0 .. n : h[k] \in W[k]
  BY <1>1, <1>5, <1>6, Run
<1>8. TakenOf(h[n], len, g[n]) /\ g[n] \in Nat
  BY <1>1, <1>4, <1>7 DEF W
<1> QED BY <1>2, <1>3, <1>8

\* The first buffer: its head apart if the bytes fill it too far.
LEMMA FirstPieces ==
  ASSUME NEW n \in Nat, NEW size \in Nat, size >= HeadLen + Overhead
  PROVE  LET ps == BuildRxSkb(n, size)
         IN /\ ps \in Seq(Runs) /\ Total(Lengths(ps)) = n /\ Len(ps) \in {1, 2}
            /\ \A j \in 1 .. Len(ps) : ps[j].seg = 1 /\ (ps[j].n = 0 => j = 1 /\ n = 0)
            /\ Len(ps) = 2 => ps[1].at + ps[1].n = ps[2].at
<1> DEFINE ps == BuildRxSkb(n, size)
<1>1. HeadLen \in Nat \ {0} /\ Overhead \in Nat
  BY EventsAssumption
<1>2. CASE size - Overhead < n
  <2> DEFINE p == Piece(1, 0, HeadLen)
             r == Piece(1, HeadLen, n - HeadLen)
  <2>1. n - HeadLen \in Nat /\ n - HeadLen # 0
    BY <1>1, <1>2
  <2>2. /\ p \in Runs /\ r \in Runs /\ p.n = HeadLen /\ r.n = n - HeadLen
        /\ p.seg = 1 /\ r.seg = 1 /\ p.at = 0 /\ r.at = HeadLen
    BY <1>1, <2>1 DEF Piece, Runs
  <2>3. ps = <<p, r>>
    BY <1>2 DEF BuildRxSkb
  <2> HIDE DEF p, r, ps
  <2>10. <<p, r>> \in Seq(Runs)
    BY <2>2
  <2>11. <<p, r>> = <<p>> \o <<r>>
    <3>1. <<p>> \o <<r>> \in Seq(Runs) /\ Joined(<<p>> \o <<r>>, <<p>>, <<r>>)
      BY <2>2, LengthsOne, Concat
    <3> DEFINE s == <<p>> \o <<r>>
               a == <<p>>
               c == <<r>>
    <3>2. Len(a) = 1 /\ a[1] = p /\ Len(c) = 1 /\ c[1] = r
      OBVIOUS
    <3>3. s \in Seq(Runs) /\ Joined(s, a, c)
      BY <3>1
    <3> HIDE DEF s, a, c
    <3>4. Len(s) = 2 /\ s[1] = p /\ s[1 + 1] = r
      BY <3>2, <3>3 DEF Joined
    <3>5. s = <<p, r>>
      BY <3>3, <3>4
    <3> QED BY <3>5 DEF s
  <2>4. <<p, r>> = <<p>> \o <<r>> /\ <<p, r>> \in Seq(Runs)
    BY <2>10, <2>11
  <2>5. Total(Lengths(<<p, r>>)) = HeadLen + (n - HeadLen)
    BY <2>2, <2>4, LengthsOne, LengthsJoin
  <2>6. Len(ps) = 2 /\ ps[1] = p /\ ps[2] = r
    BY <2>3
  <2>7. Total(Lengths(ps)) = n
    BY <1>1, <2>1, <2>3, <2>5
  <2>8. \A j \in 1 .. 2 : ps[j].seg = 1 /\ ps[j].n # 0
    <3> TAKE j \in 1 .. 2
    <3>1. j = 1 \/ j = 2
      OBVIOUS
    <3> QED BY <1>1, <2>1, <2>2, <2>6, <3>1
  <2>9. ps[1].at + ps[1].n = ps[2].at
    BY <1>1, <2>2, <2>6
  <2> QED BY <2>3, <2>4, <2>6, <2>7, <2>8, <2>9 DEF ps
<1>3. CASE ~(size - Overhead < n)
  <2> DEFINE p == Piece(1, 0, n)
  <2>1. p \in Runs /\ p.n = n /\ p.seg = 1
    BY DEF Piece, Runs
  <2>2. ps = <<p>>
    BY <1>3 DEF BuildRxSkb
  <2> HIDE DEF p, ps
  <2>3. ps \in Seq(Runs) /\ Total(Lengths(ps)) = n
    BY <2>1, <2>2, LengthsOne
  <2>4. Len(ps) = 1 /\ ps[1] = p
    BY <2>2
  <2>5. \A j \in 1 .. 1 : j = 1
    OBVIOUS
  <2> QED BY <2>1, <2>3, <2>4, <2>5 DEF ps
<1> QED BY <1>2, <1>3

\* The bytes of the buffers, the first and the others.
LEMMA BytesOfAll ==
  ASSUME NEW u \in TransferInput
  PROVE  LET es == SubSeq(u.segs, 2, Len(u.segs))
         IN /\ es \in Seq(Nat \ {0}) /\ FirstLen(u) \in Nat /\ InFirst(u) \in Nat
            /\ u.len \in Nat /\ InFirst(u) <= u.len /\ Total(es) \in Nat
            /\ InFirst(u) = 0 => u.len = 0 \/ FirstLen(u) = 0
            /\ Fewer(u.len, IF u.segs = <<>> THEN u.actual ELSE Total(u.segs))
                 = InFirst(u) + Fewer(u.len - InFirst(u), Total(es))
<1> DEFINE segs == u.segs
           es == SubSeq(segs, 2, Len(segs))
           first == FirstLen(u)
           total == IF segs = <<>> THEN u.actual ELSE Total(segs)
           len == u.len
<1>1. segs \in Seq(Nat \ {0}) /\ u.actual \in Nat /\ len \in Nat /\ Len(segs) \in Nat
  BY DEF TransferInput
<1>2. CASE segs = <<>>
  <2>1. Len(segs) = 0
    BY <1>2
  <2>2. es = <<>> /\ first = u.actual /\ total = u.actual
    BY <1>2, <2>1 DEF FirstLen
  <2>3. <<>> \in Seq(Nat \ {0}) /\ Total(<<>>) = 0
    <3>1. <<>> \in [1 .. 0 -> Nat] /\ <<>> \in Seq(Nat \ {0})
      OBVIOUS
    <3>2. PICK f : Sums(f, <<>>, 0) /\ Total(<<>>) = f[0]
      BY <3>1, TotalRuns
    <3> QED BY <3>1, <3>2 DEF Sums
  <2> HIDE DEF es, total, first
  <2>4. InFirst(u) = Fewer(len, first)
    BY DEF InFirst, first
  <2>5. Fewer(len, first) \in Nat /\ Fewer(len, first) <= len /\ first \in Nat
        /\ (Fewer(len, first) = 0 => len = 0 \/ first = 0)
    BY <1>1, <2>2 DEF Fewer
  <2>6. es \in Seq(Nat \ {0}) /\ Total(es) = 0
    BY <2>2, <2>3
  <2>7. Fewer(len, total) = Fewer(len, first) + Fewer(len - Fewer(len, first), Total(es))
    BY <1>1, <2>2, <2>6 DEF Fewer
  <2> HIDE DEF len, segs
  <2> QED BY <1>1, <2>4, <2>5, <2>6, <2>7 DEF es, total, first, len, segs
<1>3. CASE segs # <<>>
  <2>1. /\ Len(segs) >= 1 /\ segs[1] \in Nat \ {0} /\ first = segs[1] /\ total = Total(segs)
    BY <1>1, <1>3 DEF FirstLen
  <2>2. /\ es \in Seq(Nat \ {0}) /\ Len(es) = Len(segs) - 1
        /\ \A k \in 1 .. Len(es) : es[k] = segs[k + 1]
    BY <1>1, <2>1
  <2>3. es \in Seq(Nat) /\ segs \in Seq(Nat) /\ <<segs[1]>> \in Seq(Nat)
    <3> HIDE DEF es
    <3>1. \A k \in 1 .. Len(es) : es[k] \in Nat
      BY <2>2
    <3>2. \A k \in 1 .. Len(segs) : segs[k] \in Nat
      BY <1>1
    <3>3. es \in [1 .. Len(es) -> Nat] /\ Len(es) \in Nat
      BY <2>2, <3>1
    <3>4. segs \in [1 .. Len(segs) -> Nat]
      <4> HIDE DEF segs
      <4>1. DOMAIN segs = 1 .. Len(segs)
        BY <1>1
      <4>2. segs = [k \in 1 .. Len(segs) |-> segs[k]]
        BY <1>1
      <4> QED BY <3>2, <4>2
    <3>5. es \in Seq(Nat)
      BY <3>3
    <3>6. <<segs[1]>> \in Seq(Nat)
      BY <2>1
    <3> HIDE DEF segs
    <3>7. segs \in Seq(Nat)
      BY <1>1, <3>4
    <3> QED BY <3>5, <3>6, <3>7
  <2> HIDE DEF es, first, total
  <2>4. Joined(segs, <<segs[1]>>, es)
    <3> DEFINE one == <<segs[1]>>
    <3>1. Len(one) = 1 /\ one[1] = segs[1]
      OBVIOUS
    <3>2. \A k \in 1 .. Len(one) : segs[k] = one[k]
      BY <3>1
    <3> HIDE DEF one
    <3>3. \A k \in 1 .. Len(es) : segs[Len(one) + k] = es[k]
      BY <2>2, <3>1
    <3>4. Len(segs) = Len(one) + Len(es)
      BY <1>1, <2>2, <3>1
    <3> QED BY <3>2, <3>3, <3>4 DEF Joined, one
  <2>5. Total(es) \in Nat /\ Total(segs) = Total(<<segs[1]>>) + Total(es)
    BY <2>3, <2>4, TotalJoins
  <2>6. Total(segs) = segs[1] + Total(es)
    BY <2>1, <2>5, TotalOne
  <2> HIDE DEF segs
  <2>7. Fewer(len, first + Total(es)) = Fewer(len, first) + Fewer(len - Fewer(len, first), Total(es))
    BY <1>1, <2>1, <2>5 DEF Fewer
  <2>8. Fewer(len, first) \in Nat /\ Fewer(len, first) <= len
        /\ (Fewer(len, first) = 0 => len = 0 \/ first = 0)
    BY <1>1, <2>1 DEF Fewer
  <2>9. InFirst(u) = Fewer(len, first)
    BY DEF InFirst, first
  <2> HIDE DEF len
  <2> QED BY <1>1, <2>1, <2>2, <2>5, <2>6, <2>7, <2>8, <2>9 DEF total, first, es, segs, len
<1> QED BY <1>2, <1>3

LEMMA TransferFits ==
  ASSUME NEW u \in TransferInput, ProcessRxEntry(u).buffers # 0
  PROVE  PiecesFit(u, ProcessRxEntry(u))
<1> DEFINE out == ProcessRxEntry(u)
           ps == out.pieces
           es == SubSeq(u.segs, 2, Len(u.segs))
           more == u.len - InFirst(u)
           b == FoldLeft(AddRxFrag, [left |-> more, frags |-> <<>>], es)
           f == Further(u)
           p == BuildRxSkb(InFirst(u), u.size)
           n == Len(p)
<1>1. /\ es \in Seq(Nat \ {0}) /\ FirstLen(u) \in Nat /\ InFirst(u) \in Nat
      /\ u.len \in Nat /\ InFirst(u) <= u.len /\ Total(es) \in Nat
      /\ InFirst(u) = 0 => u.len = 0 \/ FirstLen(u) = 0
      /\ Fewer(u.len, IF u.segs = <<>> THEN u.actual ELSE Total(u.segs))
           = InFirst(u) + Fewer(more, Total(es))
  BY BytesOfAll
<1>2. u.size \in Nat /\ u.size >= HeadLen + Overhead
  BY DEF TransferInput
<1>3. ps = p \o f /\ out.buffers = 1 + Len(f)
  BY DEF ProcessRxEntry
<1>4. /\ p \in Seq(Runs) /\ Total(Lengths(p)) = InFirst(u) /\ n \in {1, 2}
      /\ \A j \in 1 .. n : p[j].seg = 1 /\ (p[j].n = 0 => j = 1 /\ InFirst(u) = 0)
      /\ n = 2 => p[1].at + p[1].n = p[2].at
  BY <1>1, <1>2, FirstPieces
<1>5. f = b.frags
  BY DEF Further
<1>6. more \in Nat
  BY <1>1
<1> HIDE DEF more, es
<1>7. TakenOf(b, more, Total(es))
  BY <1>1, <1>6, TakesAll
<1> HIDE DEF b, p, f, n
<1>8. /\ f \in Seq(Runs) /\ b.left = (IF more > Total(es) THEN more - Total(es) ELSE 0)
      /\ Total(Lengths(f)) + b.left = more
      /\ \A j \in 1 .. Len(f) : f[j].seg = j + 1 /\ f[j].at = 0 /\ f[j].n > 0
  BY <1>5, <1>7 DEF TakenOf, Building
<1>9. /\ Total(Lengths(f)) \in Nat /\ Len(f) \in Nat
      /\ \A j \in 1 .. Len(f) : f[j].n \in Nat /\ f[j] \in Runs
      /\ \A j \in 1 .. n : p[j].n \in Nat
  BY <1>4, <1>8, LengthsAre DEF Runs, n
<1>10. Total(Lengths(f)) = Fewer(more, Total(es))
  BY <1>1, <1>6, <1>8, <1>9 DEF Fewer
<1>11. ps \in Seq(Runs) /\ Joined(ps, p, f)
  BY <1>3, <1>4, <1>8, Concat
<1>12. Total(Lengths(ps)) = InFirst(u) + Fewer(more, Total(es))
  BY <1>3, <1>4, <1>8, <1>10, LengthsJoin
<1> HIDE DEF ps, out
<1>13. /\ Len(ps) = n + Len(f) /\ DOMAIN ps = 1 .. Len(ps)
       /\ \A j \in 1 .. n : ps[j] = p[j]
       /\ \A j \in 1 .. Len(f) : ps[n + j] = f[j]
  BY <1>11 DEF Joined, n
<1>14. ASSUME NEW j \in 1 .. Len(ps)
       PROVE  \/ j \in 1 .. n /\ ps[j] = p[j]
              \/ j > n /\ j - n \in 1 .. Len(f) /\ ps[j] = f[j - n]
  <2>1. CASE j <= n
    BY <1>4, <1>13, <2>1
  <2>2. CASE j > n
    <3>1. j - n \in 1 .. Len(f) /\ n + (j - n) = j
      BY <1>4, <1>9, <1>13, <2>2
    <3>2. ps[n + (j - n)] = f[j - n]
      BY <1>13, <3>1
    <3> QED BY <2>2, <3>1, <3>2
  <2> QED BY <1>4, <2>1, <2>2
<1>15. ASSUME NEW j \in 1 .. Len(ps), NEW k \in 1 .. Len(ps), j < k, ps[j].seg = ps[k].seg
       PROVE  ps[j].at + ps[j].n = ps[k].at
  <2>1. CASE k \in 1 .. n /\ ps[k] = p[k]
    <3>1. n = 2 /\ j = 1 /\ k = 2 /\ 1 \in 1 .. n
      BY <1>4, <1>15, <2>1
    <3>2. ps[1] = p[1] /\ ps[2] = p[2]
      BY <1>13, <2>1, <3>1
    <3> QED BY <1>4, <3>1, <3>2
  <2>2. CASE k > n /\ k - n \in 1 .. Len(f) /\ ps[k] = f[k - n]
    <3>1. ps[k].seg = (k - n) + 1
      BY <1>8, <2>2
    <3>2. CASE j \in 1 .. n /\ ps[j] = p[j]
      BY <1>4, <1>15, <2>2, <3>1, <3>2
    <3>3. CASE j > n /\ j - n \in 1 .. Len(f) /\ ps[j] = f[j - n]
      <4>1. ps[j].seg = (j - n) + 1
        BY <1>8, <3>3
      <4> QED BY <1>4, <1>15, <3>1, <4>1
    <3> QED BY <1>14, <3>2, <3>3
  <2> QED BY <1>14, <2>1, <2>2
<1>16. ASSUME NEW j \in 1 .. Len(ps)
       PROVE  /\ ps[j].seg <= out.buffers
              /\ ps[j].n = 0 => j = 1 /\ (u.len = 0 \/ FirstLen(u) = 0)
  <2>1. CASE j \in 1 .. n /\ ps[j] = p[j]
    <3>1. ps[j].seg = 1 /\ (ps[j].n = 0 => j = 1 /\ InFirst(u) = 0)
      BY <1>4, <2>1
    <3>2. out.buffers = 1 + Len(f)
      BY <1>3
    <3> QED BY <1>1, <1>9, <3>1, <3>2
  <2>2. CASE j > n /\ j - n \in 1 .. Len(f) /\ ps[j] = f[j - n]
    <3>1. ps[j].seg = (j - n) + 1 /\ ps[j].n > 0
      BY <1>8, <2>2
    <3> QED BY <1>3, <1>9, <2>2, <3>1
  <2> QED BY <1>14, <2>1, <2>2
<1>17. Lengths(ps) = [k \in DOMAIN ps |-> ps[k].n]
  BY DEF Lengths
<1>18. /\ Total([k \in DOMAIN ps |-> ps[k].n])
            = Fewer(u.len, IF u.segs = <<>> THEN u.actual ELSE Total(u.segs))
       /\ \A j, k \in DOMAIN ps : j < k /\ ps[j].seg = ps[k].seg => ps[j].at + ps[j].n = ps[k].at
       /\ \A j \in DOMAIN ps : ps[j].seg <= out.buffers
       /\ \A j \in DOMAIN ps : ps[j].n = 0 => j = 1 /\ (u.len = 0 \/ FirstLen(u) = 0)
  BY <1>1, <1>12, <1>13, <1>15, <1>16, <1>17
<1> QED BY <1>18, Zenon DEF PiecesFit, ps, out

-----------------------------------------------------------------------------
(* A dump: the parts that fit.                                             *)
Part == [id : Nat, len : Nat]
Dumping == [len : Nat, parts : Seq(Part)]

LEMMA PutIs ==
  ASSUME NEW d \in Dumping, NEW part \in Part
  PROVE  LET new == [len |-> d.len + part.len, parts |-> Append(d.parts, part)]
         IN /\ PutPart(d, part) \in Dumping /\ new \in Dumping
            /\ PutPart(d, part) = IF d.len + part.len > DumpSize THEN d ELSE new
<1> DEFINE new == [len |-> d.len + part.len, parts |-> Append(d.parts, part)]
<1>1. d.len \in Nat /\ d.parts \in Seq(Part) /\ part.len \in Nat
  BY DEF Dumping, Part
<1>2. new \in Dumping
  BY <1>1 DEF Dumping
<1>3. PutPart(d, part) = IF d.len + part.len > DumpSize THEN d ELSE new
  BY Zenon DEF PutPart
<1> QED BY <1>2, <1>3

LEMMA PutBegins == [len |-> 0, parts |-> <<>>] \in Dumping
  BY DEF Dumping

\* A dump is a run through the parts.
LEMMA DumpRuns ==
  ASSUME NEW es \in Seq(Part)
  PROVE  \E h : /\ h[0] = [len |-> 0, parts |-> <<>>] /\ Coredump(es) = h[Len(es)]
                /\ \A k \in 0 .. Len(es) : h[k] \in Dumping
                /\ \A k \in 1 .. Len(es) : h[k] = PutPart(h[k - 1], es[k])
<1> DEFINE n == Len(es)
           base == [len |-> 0, parts |-> <<>>]
           step == [p \in (1 .. n) \X Dumping |-> PutPart(p[2], es[p[1]])]
           Body(f) == [U \in SUBSET (1 .. n) |->
                         IF U = {} THEN base ELSE PutPart(f[U \ {Max(U)}], es[Max(U)])]
           it == CHOOSE f : f = Body(f)
           h == [k \in 0 .. n |-> it[1 .. k]]
<1>1. n \in Nat /\ DOMAIN es = 1 .. n /\ \A k \in 1 .. n : es[k] \in Part
  OBVIOUS
<1>2. base \in Dumping /\ step \in [(1 .. n) \X Dumping -> Dumping]
  <2>1. ASSUME NEW p \in (1 .. n) \X Dumping PROVE PutPart(p[2], es[p[1]]) \in Dumping
    <3>1. p[2] \in Dumping /\ es[p[1]] \in Part
      BY <1>1
    <3> QED BY <3>1, PutBegins, PutIs
  <2>2. base \in Dumping
    BY PutBegins, PutIs
  <2> HIDE DEF base
  <2> QED BY <2>1, <2>2
<1>3. PICK f : IsFold(f, n, Dumping, base, step)
  <2> HIDE DEF step, base, n
  <2> QED BY <1>1, <1>2, FoldExists
<1>4. \A U \in SUBSET (1 .. n) : U # {} => Max(U) \in 1 .. n /\ U \ {Max(U)} \in SUBSET (1 .. n)
  BY <1>1, MaxIndex
<1>5. f \in [SUBSET (1 .. n) -> Dumping] /\ f = Body(f)
  <2>1. ASSUME NEW U \in SUBSET (1 .. n), U # {}
        PROVE  f[U] = PutPart(f[U \ {Max(U)}], es[Max(U)])
    <3> DEFINE T == U \ {Max(U)}
               m == Max(U)
    <3>1. m \in 1 .. n /\ T \in SUBSET (1 .. n)
      BY <1>4, <2>1
    <3>2. f[T] \in Dumping /\ f[U] = step[<<m, f[T]>>]
      <4> HIDE DEF step, base
      <4> QED BY <1>3, <2>1, <3>1 DEF IsFold
    <3> HIDE DEF T, m, n, base
    <3>3. f[U] = PutPart(f[T], es[m])
      BY <3>1, <3>2
    <3> QED BY <3>3 DEF T, m
  <2> HIDE DEF step, base
  <2>2. f \in [SUBSET (1 .. n) -> Dumping] /\ f[{}] = base
    BY <1>1, <1>3, Prefix DEF IsFold
  <2> HIDE DEF n
  <2> QED BY <2>1, <2>2
<1>6. it = Body(it)
  BY <1>5
<1>7. Coredump(es) = it[1 .. n]
  BY <1>1 DEF Coredump, FoldLeft, MapThenFoldSet
<1> HIDE DEF it, base, n, step
<1>8. h[0] = base
  BY <1>1, <1>6, Prefix
<1>9. ASSUME NEW k \in 1 .. n PROVE h[k] = PutPart(h[k - 1], es[k])
  <2>1. k \in 0 .. n /\ k - 1 \in 0 .. n
    BY <1>1
  <2>2. it[1 .. k] = PutPart(it[1 .. (k - 1)], es[k])
    <3>1. /\ 1 .. k \in SUBSET (1 .. n) /\ 1 .. k # {}
          /\ Max(1 .. k) = k /\ (1 .. k) \ {k} = 1 .. (k - 1)
      BY <1>1, Prefix
    <3>2. \A U \in SUBSET (1 .. n) :
            U # {} => it[U] = PutPart(it[U \ {Max(U)}], es[Max(U)])
      BY <1>6
    <3>3. it[1 .. k] = PutPart(it[(1 .. k) \ {Max(1 .. k)}], es[Max(1 .. k)])
      BY <3>1, <3>2
    <3> QED BY <3>1, <3>3
  <2>3. h[k] = it[1 .. k] /\ h[k - 1] = it[1 .. (k - 1)]
    BY <2>1
  <2> HIDE DEF h
  <2> QED BY <2>2, <2>3
<1>10. h[n] = it[1 .. n]
  BY <1>1
<1> HIDE DEF h
<1>11. \A k \in 0 .. n : h[k] \in Dumping
  <2> DEFINE W == [k \in 0 .. n |-> Dumping]
  <2>1. h[0] \in W[0]
    BY <1>1, <1>2, <1>8
  <2>2. ASSUME NEW k \in 1 .. n, h[k - 1] \in W[k - 1] PROVE h[k] \in W[k]
    <3>1. k \in 0 .. n /\ h[k - 1] \in Dumping /\ es[k] \in Part
      BY <1>1, <2>2
    <3>2. PutPart(h[k - 1], es[k]) \in Dumping
      BY <3>1, PutBegins, PutIs
    <3> QED BY <1>9, <3>1, <3>2
  <2>3. \A k \in 0 .. n : h[k] \in W[k]
    <3> HIDE DEF W
    <3> QED BY <1>1, <2>1, <2>2, Run
  <2> QED BY <2>3
<1> QED BY <1>7, <1>8, <1>9, <1>10, <1>11 DEF n, base

\* What of the parts up to k is in the dump.
HasRoom(ps, h, i) == h[i - 1].len + ps[i].len <= DumpSize
Gathered(ps, h, k, d) ==
  /\ d \in Dumping /\ d.len <= DumpSize
  /\ \A j \in 1 .. Len(d.parts) : /\ d.parts[j].id \in 1 .. k
                                  /\ d.parts[j] = ps[d.parts[j].id]
                                  /\ HasRoom(ps, h, d.parts[j].id)
  /\ \A i, j \in 1 .. Len(d.parts) : i < j => d.parts[i].id < d.parts[j].id
  /\ \A i \in 1 .. k : HasRoom(ps, h, i) => \E j \in 1 .. Len(d.parts) : d.parts[j] = ps[i]

LEMMA PutKeeps ==
  ASSUME NEW ps \in PartsInput, NEW h, NEW k \in 1 .. Len(ps), Gathered(ps, h, k - 1, h[k - 1]),
         h[k] = PutPart(h[k - 1], ps[k])
  PROVE  /\ Gathered(ps, h, k, h[k])
         /\ h[k].len = h[k - 1].len + (IF HasRoom(ps, h, k) THEN ps[k].len ELSE 0)
<1> DEFINE d == h[k - 1]
           p == ps[k]
           new == [len |-> d.len + p.len, parts |-> Append(d.parts, p)]
           n == Len(d.parts)
<1>1. /\ d \in Dumping /\ d.len \in Nat /\ d.parts \in Seq(Part) /\ n \in Nat
      /\ p \in Part /\ p.id = k /\ p.len \in Nat /\ k \in Nat /\ DumpSize \in Nat
      /\ DOMAIN ps = 1 .. Len(ps)
  <2>1. ps \in Seq(Part) /\ \A i \in DOMAIN ps : ps[i].id = i
    BY DEF PartsInput, Part
  <2>2. p \in Part /\ p.id = k
    BY <2>1
  <2> QED BY <2>1, <2>2, EventsAssumption DEF Gathered, Dumping, Part
<1>2. /\ d.len <= DumpSize
      /\ \A j \in 1 .. n : /\ d.parts[j].id \in 1 .. k - 1
                           /\ d.parts[j] = ps[d.parts[j].id]
                           /\ HasRoom(ps, h, d.parts[j].id)
      /\ \A i, j \in 1 .. n : i < j => d.parts[i].id < d.parts[j].id
      /\ \A i \in 1 .. k - 1 : HasRoom(ps, h, i) => \E j \in 1 .. n : d.parts[j] = ps[i]
  BY DEF Gathered
<1>3. h[k] \in Dumping /\ h[k] = IF d.len + p.len > DumpSize THEN d ELSE new
  BY <1>1, PutIs
<1>4. HasRoom(ps, h, k) <=> d.len + p.len <= DumpSize
  BY DEF HasRoom
<1> HIDE DEF d, p, n
<1>5. CASE d.len + p.len > DumpSize
  <2>1. h[k] = d /\ ~HasRoom(ps, h, k)
    BY <1>1, <1>3, <1>4, <1>5
  <2>2. \A j \in 1 .. n : d.parts[j].id \in 1 .. k
    BY <1>1, <1>2
  <2>3. \A i \in 1 .. k : HasRoom(ps, h, i) => \E j \in 1 .. n : d.parts[j] = ps[i]
    <3> TAKE i \in 1 .. k
    <3>1. i = k \/ i \in 1 .. k - 1
      BY <1>1
    <3> QED BY <1>2, <2>1, <3>1
  <2>4. Gathered(ps, h, k, d)
    BY <1>1, <1>2, <2>2, <2>3 DEF Gathered, n
  <2> QED BY <1>1, <2>1, <2>4 DEF d
<1>6. CASE ~(d.len + p.len > DumpSize)
  <2>1. h[k] = new /\ HasRoom(ps, h, k) /\ new.len = d.len + p.len
    BY <1>1, <1>3, <1>4, <1>6
  <2> DEFINE qs == new.parts
  <2>2. /\ Len(qs) = n + 1 /\ qs[n + 1] = p /\ \A j \in 1 .. n : qs[j] = d.parts[j]
    BY <1>1 DEF n
  <2> HIDE DEF qs
  <2>3. ASSUME NEW j \in 1 .. n + 1
        PROVE  qs[j].id \in 1 .. k /\ qs[j] = ps[qs[j].id] /\ HasRoom(ps, h, qs[j].id)
    <3>1. CASE j = n + 1
      <4>1. qs[j] = p /\ p.id = k /\ ps[k] = p
        BY <1>1, <2>2, <3>1 DEF p
      <4> QED BY <1>1, <2>1, <4>1
    <3>2. CASE j # n + 1
      <4>1. j \in 1 .. n /\ qs[j] = d.parts[j]
        BY <1>1, <2>2, <3>2
      <4>2. \A i \in 1 .. k - 1 : i \in 1 .. k
        BY <1>1
      <4> QED BY <1>2, <4>1, <4>2
    <3> QED BY <3>1, <3>2
  <2>4. ASSUME NEW i \in 1 .. n + 1, NEW j \in 1 .. n + 1, i < j PROVE qs[i].id < qs[j].id
    <3>1. i \in 1 .. n /\ qs[i] = d.parts[i] /\ d.parts[i].id \in 1 .. k - 1
      BY <1>1, <1>2, <2>2, <2>4
    <3>2. CASE j = n + 1
      BY <1>1, <2>2, <3>1, <3>2
    <3>3. CASE j # n + 1
      <4>1. j \in 1 .. n /\ qs[j] = d.parts[j]
        BY <1>1, <2>2, <3>3
      <4> QED BY <1>2, <2>4, <3>1, <4>1
    <3> QED BY <3>2, <3>3
  <2>5. ASSUME NEW i \in 1 .. k, HasRoom(ps, h, i) PROVE \E j \in 1 .. n + 1 : qs[j] = ps[i]
    <3>1. CASE i = k
      <4>1. n + 1 \in 1 .. n + 1 /\ qs[n + 1] = ps[i]
        BY <1>1, <2>2, <3>1 DEF p
      <4> QED BY <4>1
    <3>2. CASE i # k
      <4>1. i \in 1 .. k - 1
        BY <1>1, <3>2
      <4>2. PICK j \in 1 .. n : d.parts[j] = ps[i]
        BY <1>2, <2>5, <4>1
      <4>3. j \in 1 .. n + 1 /\ qs[j] = ps[i]
        BY <1>1, <2>2, <4>2
      <4> QED BY <4>3
    <3> QED BY <3>1, <3>2
  <2>6. new.len <= DumpSize /\ new \in Dumping
    BY <1>1, <1>3, <1>6, <2>1
  <2>7. Gathered(ps, h, k, new)
    BY <2>2, <2>3, <2>4, <2>5, <2>6 DEF Gathered, qs
  <2> HIDE DEF new
  <2> QED BY <1>1, <2>1, <2>7 DEF d, p
<1> QED BY <1>1, <1>5, <1>6

\* The length of a dump is that of the parts put in it.
LEMMA DumpFits == ASSUME NEW ps \in PartsInput PROVE PartsFit(ps, Coredump(ps))
<1> DEFINE n == Len(ps)
           d == Coredump(ps)
           put(k) == \E j \in DOMAIN d.parts : d.parts[j] = ps[k]
           Body(f) == [k \in 0 .. n |-> IF k = 0 THEN 0
                                        ELSE f[k - 1] + (IF put(k) THEN ps[k].len ELSE 0)]
           upto == CHOOSE f : f = Body(f)
<1>1. ps \in Seq(Part) /\ n \in Nat /\ \A k \in 1 .. n : ps[k] \in Part /\ ps[k].id = k
  <2>1. ps \in Seq(Part) /\ \A i \in DOMAIN ps : ps[i].id = i
    BY DEF PartsInput, Part
  <2> QED BY <2>1
<1>2. PICK h : /\ h[0] = [len |-> 0, parts |-> <<>>] /\ d = h[n]
               /\ \A k \in 0 .. n : h[k] \in Dumping
               /\ \A k \in 1 .. n : h[k] = PutPart(h[k - 1], ps[k])
  BY <1>1, DumpRuns
<1> HIDE DEF n, d
<1> DEFINE W == [k \in 0 .. n |-> {x \in {h[k]} : Gathered(ps, h, k, x)}]
<1>3. h[0] \in W[0]
  <2> DEFINE e == h[0]
  <2>1. e.len = 0 /\ e.parts = <<>> /\ e \in Dumping /\ DumpSize \in Nat
    BY <1>1, <1>2, EventsAssumption
  <2> HIDE DEF e
  <2>2. Gathered(ps, h, 0, e)
    BY <2>1 DEF Gathered
  <2> QED BY <1>1, <2>2 DEF e
<1>4. ASSUME NEW k \in 1 .. n, h[k - 1] \in W[k - 1] PROVE h[k] \in W[k]
  <2>1. k \in 0 .. n /\ k - 1 \in 0 .. n
    BY <1>1
  <2>2. Gathered(ps, h, k - 1, h[k - 1])
    BY <1>4, <2>1
  <2>3. Gathered(ps, h, k, h[k])
    BY <1>2, <2>2, PutKeeps DEF n
  <2> QED BY <2>1, <2>3
<1> HIDE DEF W
<1>5. \A k \in 0 .. n : h[k] \in W[k]
  BY <1>1, <1>3, <1>4, Run
<1>6. \A k \in 0 .. n : Gathered(ps, h, k, h[k])
  BY <1>5 DEF W
<1>7. ASSUME NEW k \in 1 .. n
      PROVE  h[k].len = h[k - 1].len + (IF HasRoom(ps, h, k) THEN ps[k].len ELSE 0)
  <2>1. k - 1 \in 0 .. n
    BY <1>1
  <2> QED BY <1>2, <1>6, <2>1, PutKeeps DEF n
<1>8. Gathered(ps, h, n, d) /\ DOMAIN d.parts = 1 .. Len(d.parts) /\ Len(d.parts) \in Nat
  <2>1. n \in 0 .. n
    BY <1>1
  <2>2. Gathered(ps, h, n, d)
    BY <1>2, <1>6, <2>1
  <2>3. d.parts \in Seq(Part)
    BY <2>2 DEF Gathered, Dumping
  <2> QED BY <2>2, <2>3
<1>9. ASSUME NEW k \in 1 .. n PROVE put(k) <=> HasRoom(ps, h, k)
  <2>1. ASSUME NEW j \in 1 .. Len(d.parts), d.parts[j] = ps[k] PROVE HasRoom(ps, h, k)
    <3>1. d.parts[j].id = k
      BY <1>1, <2>1
    <3> QED BY <1>8, <3>1 DEF Gathered
  <2>2. HasRoom(ps, h, k) => \E j \in 1 .. Len(d.parts) : d.parts[j] = ps[k]
    BY <1>8 DEF Gathered
  <2> QED BY <1>8, <2>1, <2>2
<1> HIDE DEF put
<1> DEFINE g == [k \in 0 .. n |-> h[k].len]
<1>10. g = Body(g)
  <2>1. ASSUME NEW k \in 0 .. n
        PROVE  g[k] = IF k = 0 THEN 0 ELSE g[k - 1] + (IF put(k) THEN ps[k].len ELSE 0)
    <3>1. CASE k = 0
      BY <1>2, <3>1
    <3>2. CASE k # 0
      <4>1. k \in 1 .. n /\ k - 1 \in 0 .. n
        BY <1>1, <3>2
      <4>2. h[k].len = h[k - 1].len + (IF put(k) THEN ps[k].len ELSE 0)
        BY <1>7, <1>9, <4>1
      <4>3. g[k] = h[k].len /\ g[k - 1] = h[k - 1].len
        BY <4>1
      <4> HIDE DEF g
      <4> QED BY <3>2, <4>2, <4>3
    <3> QED BY <3>1, <3>2
  <2> QED BY <2>1
<1>11. upto = Body(upto)
  BY <1>10
<1> HIDE DEF upto, g
<1>12. ASSUME NEW k \in 1 .. n
       PROVE  upto[k] = upto[k - 1] + (IF put(k) THEN ps[k].len ELSE 0)
  <2>1. k \in 0 .. n /\ k # 0
    BY <1>1
  <2> QED BY <1>11, <2>1
<1>13. upto[0] = 0
  BY <1>1, <1>11
<1>14. \A k \in 0 .. n : upto[k] = h[k].len
  <2> DEFINE V == [k \in 0 .. n |-> {h[k].len}]
  <2>1. upto[0] \in V[0]
    BY <1>1, <1>2, <1>13
  <2>2. ASSUME NEW k \in 1 .. n, upto[k - 1] \in V[k - 1] PROVE upto[k] \in V[k]
    <3>1. k \in 0 .. n /\ k - 1 \in 0 .. n
      BY <1>1
    <3>2. upto[k - 1] = h[k - 1].len
      BY <2>2, <3>1
    <3>3. upto[k] = h[k].len
      BY <1>7, <1>9, <1>12, <3>2
    <3> QED BY <3>1, <3>3
  <2> HIDE DEF V
  <2>3. \A k \in 0 .. n : upto[k] \in V[k]
    BY <1>1, <2>1, <2>2, Run
  <2> QED BY <2>3 DEF V
<1>15. d.len = upto[n] /\ d.len <= DumpSize
  <2>1. n \in 0 .. n
    BY <1>1
  <2> QED BY <1>2, <1>8, <1>14, <2>1 DEF Gathered
<1>16. DOMAIN ps = 1 .. n
  BY <1>1 DEF n
<1>17. \A j \in DOMAIN d.parts : \E k \in DOMAIN ps : d.parts[j] = ps[k]
  BY <1>8, <1>16 DEF Gathered
<1>18. Ascending(IdsOf(d.parts))
  BY <1>8 DEF Ascending, IdsOf, Gathered
<1>19. \A k \in DOMAIN ps : put(k) <=> upto[k - 1] + ps[k].len <= DumpSize
  <2> TAKE k \in DOMAIN ps
  <2>1. k \in 1 .. n /\ k - 1 \in 0 .. n
    BY <1>1, <1>16
  <2> QED BY <1>9, <1>14, <2>1 DEF HasRoom
<1> QED BY <1>15, <1>17, <1>18, <1>19, Zenon DEF PartsFit, put, upto, d, n

-----------------------------------------------------------------------------
(* The signal of the chains, the reader of a packet, events of an          *)
(* interface, and what is known of every message.                          *)
LEMMA LevelsAre == \A x \in Levels : x \in Int /\ x >= -110 /\ x <= 17
  BY DEF Levels
LEMMA SignalIs ==
  /\ \A signal \in Int, cur \in Levels : AddSignal(signal, cur) \in Int
  /\ -128 \in Int
<1>1. ASSUME NEW signal \in Int, NEW cur \in Int PROVE AddSignal(signal, cur) \in Int
  BY DEF AddSignal
<1> QED BY <1>1, LevelsAre

\* A signal is a run through the chains.
LEMMA SignalRuns ==
  ASSUME NEW es \in Seq(Levels)
  PROVE  \E h : /\ h[0] = -128 /\ RxSignal(es) = h[Len(es)]
                /\ \A k \in 0 .. Len(es) : h[k] \in Int
                /\ \A k \in 1 .. Len(es) : h[k] = AddSignal(h[k - 1], es[k])
<1> DEFINE n == Len(es)
           base == -128
           step == [p \in (1 .. n) \X Int |-> AddSignal(p[2], es[p[1]])]
           Body(f) == [U \in SUBSET (1 .. n) |->
                         IF U = {} THEN base ELSE AddSignal(f[U \ {Max(U)}], es[Max(U)])]
           it == CHOOSE f : f = Body(f)
           h == [k \in 0 .. n |-> it[1 .. k]]
<1>1. n \in Nat /\ DOMAIN es = 1 .. n /\ \A k \in 1 .. n : es[k] \in Levels
  OBVIOUS
<1>2. base \in Int /\ step \in [(1 .. n) \X Int -> Int]
  <2>1. ASSUME NEW p \in (1 .. n) \X Int PROVE AddSignal(p[2], es[p[1]]) \in Int
    <3>1. p[2] \in Int /\ es[p[1]] \in Levels
      BY <1>1
    <3> QED BY <3>1, SignalIs
  <2>2. base \in Int
    BY SignalIs
  <2> HIDE DEF base
  <2> QED BY <2>1, <2>2
<1>3. PICK f : IsFold(f, n, Int, base, step)
  <2> HIDE DEF step, base, n
  <2> QED BY <1>1, <1>2, FoldExists
<1>4. \A U \in SUBSET (1 .. n) : U # {} => Max(U) \in 1 .. n /\ U \ {Max(U)} \in SUBSET (1 .. n)
  BY <1>1, MaxIndex
<1>5. f \in [SUBSET (1 .. n) -> Int] /\ f = Body(f)
  <2>1. ASSUME NEW U \in SUBSET (1 .. n), U # {}
        PROVE  f[U] = AddSignal(f[U \ {Max(U)}], es[Max(U)])
    <3> DEFINE T == U \ {Max(U)}
               m == Max(U)
    <3>1. m \in 1 .. n /\ T \in SUBSET (1 .. n)
      BY <1>4, <2>1
    <3>2. f[T] \in Int /\ f[U] = step[<<m, f[T]>>]
      <4> HIDE DEF step, base
      <4> QED BY <1>3, <2>1, <3>1 DEF IsFold
    <3> HIDE DEF T, m, n, base
    <3>3. f[U] = AddSignal(f[T], es[m])
      BY <3>1, <3>2
    <3> QED BY <3>3 DEF T, m
  <2> HIDE DEF step, base
  <2>2. f \in [SUBSET (1 .. n) -> Int] /\ f[{}] = base
    BY <1>1, <1>3, Prefix DEF IsFold
  <2> HIDE DEF n
  <2> QED BY <2>1, <2>2
<1>6. it = Body(it)
  BY <1>5
<1>7. RxSignal(es) = it[1 .. n]
  BY <1>1 DEF RxSignal, FoldLeft, MapThenFoldSet
<1> HIDE DEF it, base, n, step
<1>8. h[0] = base
  BY <1>1, <1>6, Prefix
<1>9. ASSUME NEW k \in 1 .. n PROVE h[k] = AddSignal(h[k - 1], es[k])
  <2>1. k \in 0 .. n /\ k - 1 \in 0 .. n
    BY <1>1
  <2>2. it[1 .. k] = AddSignal(it[1 .. (k - 1)], es[k])
    <3>1. /\ 1 .. k \in SUBSET (1 .. n) /\ 1 .. k # {}
          /\ Max(1 .. k) = k /\ (1 .. k) \ {k} = 1 .. (k - 1)
      BY <1>1, Prefix
    <3>2. \A U \in SUBSET (1 .. n) :
            U # {} => it[U] = AddSignal(it[U \ {Max(U)}], es[Max(U)])
      BY <1>6
    <3>3. it[1 .. k] = AddSignal(it[(1 .. k) \ {Max(1 .. k)}], es[Max(1 .. k)])
      BY <3>1, <3>2
    <3> QED BY <3>1, <3>3
  <2>3. h[k] = it[1 .. k] /\ h[k - 1] = it[1 .. (k - 1)]
    BY <2>1
  <2> HIDE DEF h
  <2> QED BY <2>2, <2>3
<1>10. h[n] = it[1 .. n]
  BY <1>1
<1> HIDE DEF h
<1>11. \A k \in 0 .. n : h[k] \in Int
  <2> DEFINE W == [k \in 0 .. n |-> Int]
  <2>1. h[0] \in W[0]
    BY <1>1, <1>2, <1>8
  <2>2. ASSUME NEW k \in 1 .. n, h[k - 1] \in W[k - 1] PROVE h[k] \in W[k]
    <3>1. k \in 0 .. n /\ h[k - 1] \in Int /\ es[k] \in Levels
      BY <1>1, <2>2
    <3>2. AddSignal(h[k - 1], es[k]) \in Int
      BY <3>1, SignalIs
    <3> QED BY <1>9, <3>1, <3>2
  <2>3. \A k \in 0 .. n : h[k] \in W[k]
    <3> HIDE DEF W
    <3> QED BY <1>1, <2>1, <2>2, Run
  <2> QED BY <2>3
<1> QED BY <1>7, <1>8, <1>9, <1>10, <1>11 DEF n, base

HeardOf(chains, k) == {i \in 1 .. k : chains[i] <= 0}
SignalOf(chains, k, signal) ==
  /\ IsFiniteSet(HeardOf(chains, k)) /\ signal \in Int
  /\ IF HeardOf(chains, k) = {} THEN signal = -128
     ELSE /\ \A i \in HeardOf(chains, k) : signal >= chains[i]
          /\ \E i \in HeardOf(chains, k) :
               signal <= chains[i] + 3 * (Cardinality(HeardOf(chains, k)) - 1)
LEMMA SignalKeeps ==
  ASSUME NEW chains \in Seq(Levels), NEW k \in 1 .. Len(chains), NEW signal,
         SignalOf(chains, k - 1, signal)
  PROVE  SignalOf(chains, k, AddSignal(signal, chains[k]))
<1> DEFINE cur == chains[k]
           new == AddSignal(signal, cur)
           H == HeardOf(chains, k - 1)
           G == HeardOf(chains, k)
<1>0. k \in Nat /\ \A i \in 1 .. k : chains[i] \in Levels /\ chains[i] \in Int
  <2>1. k \in Nat /\ \A i \in 1 .. k : chains[i] \in Levels
    OBVIOUS
  <2> QED BY <2>1, LevelsAre
<1>1. /\ cur \in Int /\ cur >= -110 /\ signal \in Int /\ new \in Int /\ k \in Nat
  <2>1. cur \in Levels /\ signal \in Int
    BY <1>0 DEF SignalOf
  <2> HIDE DEF cur
  <2> QED BY <1>0, <2>1, SignalIs, LevelsAre
<1>2. /\ \A i \in H : i \in 1 .. k - 1 /\ chains[i] \in Int
      /\ IsFiniteSet(H) /\ k \notin H
  <2>1. \A i \in 1 .. k - 1 : i \in 1 .. k /\ i # k
    BY <1>0
  <2> QED BY <1>0, <2>1 DEF HeardOf, SignalOf
<1>3. G = IF cur <= 0 THEN H \cup {k} ELSE H
  <2>1. 1 .. k = (1 .. k - 1) \cup {k}
    BY <1>0
  <2> QED BY <2>1, Zenon DEF HeardOf
<1>4. IF H = {} THEN signal = -128
      ELSE /\ \A i \in H : signal >= chains[i]
           /\ \E i \in H : signal <= chains[i] + 3 * (Cardinality(H) - 1)
  BY DEF SignalOf
<1> HIDE DEF H, G, cur, new
<1> DEFINE Told == /\ IsFiniteSet(G) /\ new \in Int
                   /\ IF G = {} THEN new = -128
                      ELSE /\ \A i \in G : new >= chains[i]
                           /\ \E i \in G : new <= chains[i] + 3 * (Cardinality(G) - 1)
<1>5. ASSUME cur > 0 PROVE Told
  <2>1. new = signal
    BY <1>1, <1>5 DEF AddSignal, new
  <2>2. G = H
    BY <1>1, <1>3, <1>5
  <2>3. IsFiniteSet(H) /\ signal \in Int
    BY <1>1, <1>2
  <2> QED BY <1>4, <2>1, <2>2, <2>3, Zenon
<1>6. ASSUME cur <= 0 PROVE Told
  <2>1. G = H \cup {k} /\ G # {} /\ k \in G
    BY <1>3, <1>6
  <2>2. IsFiniteSet(G) /\ Cardinality(G) = Cardinality(H) + 1 /\ Cardinality(H) \in Nat
    BY <1>2, <2>1, FS_AddElement, FS_CardinalityType
  <2>3. ASSUME H = {} PROVE Told
    <3>1. signal = -128
      BY <1>4, <2>3
    <3>2. new = cur
      BY <1>1, <1>6, <3>1 DEF AddSignal, new
    <3>3. G = {k} /\ Cardinality(G) = 1
      BY <2>1, <2>2, <2>3, FS_EmptySet
    <3>4. /\ \A i \in G : new >= chains[i]
          /\ \E i \in G : new <= chains[i] + 3 * (Cardinality(G) - 1)
      BY <1>1, <3>2, <3>3 DEF cur
    <3> QED BY <1>1, <2>1, <2>2, <3>4
  <2>4. ASSUME H # {} PROVE Told
    <3>1. PICK i \in H : signal <= chains[i] + 3 * (Cardinality(H) - 1)
      BY <1>4, <2>4
    <3>2. Cardinality(H) >= 1
      <4>1. Cardinality(H) # 0
        BY <1>2, <2>4, FS_EmptySet
      <4> QED BY <2>2, <4>1
    <3>3. /\ new >= signal /\ new >= cur
          /\ new <= signal + 3 \/ new <= cur + 3
      BY <1>1, <1>6 DEF AddSignal, new
    <3>6. chains[k] = cur
      BY DEF cur
    <3>4. \A j \in G : new >= chains[j]
      <4> TAKE j \in G
      <4>1. CASE j = k
        BY <3>3, <3>6, <4>1
      <4>2. CASE j \in H
        <5>1. signal >= chains[j] /\ chains[j] \in Int
          BY <1>2, <1>4, <4>2
        <5> QED BY <1>1, <3>3, <5>1
      <4> QED BY <2>1, <4>1, <4>2
    <3>5. \E j \in G : new <= chains[j] + 3 * (Cardinality(G) - 1)
      <4>1. CASE new <= signal + 3
        <5>1. chains[i] \in Int /\ i \in G
          BY <1>2, <2>1
        <5>2. new <= chains[i] + 3 * (Cardinality(G) - 1)
          BY <1>1, <2>2, <3>1, <4>1, <5>1
        <5> QED BY <5>1, <5>2
      <4>2. CASE new <= cur + 3
        <5>1. new <= chains[k] + 3 * (Cardinality(G) - 1)
          BY <1>1, <2>2, <3>2, <3>6, <4>2
        <5> QED BY <2>1, <5>1
      <4> QED BY <3>3, <4>1, <4>2
    <3> QED BY <1>1, <2>1, <2>2, <3>4, <3>5
  <2> QED BY <2>3, <2>4
<1>7. SignalOf(chains, k, new)
  <2>1. Told
    BY <1>1, <1>5, <1>6
  <2> QED BY <2>1, Zenon DEF SignalOf, G
<1> QED BY <1>7 DEF new, cur

LEMMA SignalHolds == ASSUME NEW chains \in Seq(Levels) PROVE SignalFits(chains, AckSignal(chains))
<1> DEFINE n == Len(chains)
<1>1. n \in Nat /\ DOMAIN chains = 1 .. n
  OBVIOUS
<1>2. PICK h : /\ h[0] = -128 /\ RxSignal(chains) = h[n]
               /\ \A k \in 0 .. n : h[k] \in Int
               /\ \A k \in 1 .. n : h[k] = AddSignal(h[k - 1], chains[k])
  BY SignalRuns
<1> HIDE DEF n
<1> DEFINE W == [k \in 0 .. n |-> {x \in {h[k]} : SignalOf(chains, k, x)}]
<1>3. h[0] \in W[0]
  <2>1. HeardOf(chains, 0) = {}
    BY DEF HeardOf
  <2>2. SignalOf(chains, 0, h[0])
    <3>1. IsFiniteSet({}) /\ h[0] \in Int /\ h[0] = -128
      BY <1>1, <1>2, FS_EmptySet
    <3> QED BY <2>1, <3>1, Zenon DEF SignalOf
  <2> QED BY <1>1, <2>2
<1>4. ASSUME NEW k \in 1 .. n, h[k - 1] \in W[k - 1] PROVE h[k] \in W[k]
  <2>1. k \in 0 .. n /\ k - 1 \in 0 .. n
    BY <1>1
  <2>2. SignalOf(chains, k - 1, h[k - 1])
    BY <1>4, <2>1
  <2>3. SignalOf(chains, k, h[k])
    BY <1>2, <2>2, SignalKeeps DEF n
  <2> QED BY <2>1, <2>3
<1> HIDE DEF W
<1>5. \A k \in 0 .. n : h[k] \in W[k]
  BY <1>1, <1>3, <1>4, Run
<1>6. SignalOf(chains, n, h[n])
  BY <1>1, <1>5 DEF W
<1>7. HeardOf(chains, n) = {k \in DOMAIN chains : chains[k] <= 0}
  BY <1>1 DEF HeardOf
<1> QED BY <1>2, <1>6, <1>7, Zenon DEF SignalFits, SignalOf, AckSignal

LEMMA PacketFits ==
  ASSUME NEW p \in PacketInput
  PROVE  LET out == Received(p)
         IN /\ out.kept => out.reports = 0
            /\ 8 * out.reports <= p.words
            /\ p.seq = 0 /\ out.reader = "answer" => p.eid = "access"
<1> DEFINE r == QueueRxSkb(p)
<1>9. Keeps(r) \in BOOLEAN
  BY DEF Keeps
<1>1. PICK kept \in BOOLEAN : kept = Keeps(r)
  BY <1>9
<1>2. Received(p) = [reader |-> r, kept |-> kept, reports |-> Reports(p)]
  BY <1>1, Zenon DEF Received
<1>3. /\ Received(p).reader = r /\ Received(p).kept = kept /\ Received(p).reports = Reports(p)
  BY <1>2
<1>4. p.words \in Nat /\ p.type \in {"event", "txs", "normal", "other"} /\ p.uni \in BOOLEAN
      /\ p.eid \in {"roc", "access", "rate", "own"} \cup Unsolicited
  BY DEF PacketInput
<1>5. r = "txs" => ~Keeps(r)
  BY DEF Keeps
<1>6. 8 * TxsReports(p.words) <= p.words
  BY <1>4 DEF TxsReports
<1>7. Reports(p) = IF r = "txs" THEN TxsReports(p.words) ELSE 0
  BY DEF Reports
<1>8. ASSUME p.seq = 0, r = "answer" PROVE p.eid = "access"
  <2>1. TypeOf(p) = "event" /\ RxEvent(p) = "answer"
    <3>1. TypeOf(p) \in {"event", "txs", "normal", "other"}
      BY <1>4 DEF TypeOf
    <3> QED BY <1>8, <3>1 DEF QueueRxSkb
  <2>2. "answer" \notin Unsolicited
    BY DEF Unsolicited
  <2> QED BY <1>4, <1>8, <2>1, <2>2 DEF RxEvent
<1> HIDE DEF r
<1> QED BY <1>1, <1>3, <1>4, <1>5, <1>6, <1>7, <1>8

(***************************************************************************)
(* FramesAreWhole depends on the message only.                             *)
(***************************************************************************)
FramesInv ==
  /\ Of({"transfer"}) => msg.in \in TransferInput /\ msg.out = ProcessRxEntry(msg.in)
  /\ Of({"dump"}) => msg.in \in PartsInput /\ msg.out = Coredump(msg.in)
  /\ Of({"signal"}) => msg.in \in Seq(Levels) /\ msg.out = AckSignal(msg.in)
  /\ Of({"packet"}) => msg.in \in PacketInput /\ msg.out = Received(msg.in)
  /\ Of({"link"}) =>
       /\ \A v, w \in DOMAIN msg.in.vifs : msg.in.vifs[v].idx = msg.in.vifs[w].idx => v = w
       /\ msg.out.lost = ConnectionLoss(msg.in.vifs, msg.in.idx)
  /\ Of({"rx"}) =>
       /\ msg.in \in RxInput /\ msg.out.q = ReceiveAll(msg.in).q
       /\ msg.out.list = RxComplete(KeySetup(<<>>, "sta", 0), msg.out.q.out).list

LEMMA FramesFollow == ASSUME FramesInv PROVE FramesAreWhole
<1>1. Of({"transfer"}) => msg.out.buffers = 0 \/ PiecesFit(msg.in, msg.out)
  BY TransferFits DEF FramesInv
<1>2. Of({"dump"}) => PartsFit(msg.in, msg.out)
  BY DumpFits DEF FramesInv
<1>3. Of({"signal"}) => SignalFits(msg.in, msg.out)
  BY SignalHolds DEF FramesInv
<1>4. Of({"packet"}) => /\ msg.out.kept => msg.out.reports = 0
                        /\ 8 * msg.out.reports <= msg.in.words
                        /\ msg.in.seq = 0 /\ msg.out.reader = "answer" => msg.in.eid = "access"
  BY PacketFits DEF FramesInv
<1>5. Of({"link"}) => /\ \A v, w \in msg.out.lost : v = w
                      /\ \A v \in msg.out.lost : msg.in.vifs[v].idx = msg.in.idx
  BY DEF FramesInv, ConnectionLoss
<1>6. TransfersAreWhole
  BY <1>1, <1>2, <1>3, <1>4, <1>5, Zenon DEF TransfersAreWhole
<1>7. Of({"rx"}) =>
        /\ KeepsOrder(msg.in, msg.out.q) /\ AmsdusAreWhole(msg.in, msg.out.q)
        /\ IdsOf(msg.out.list) = IdsOf(FlattenSeq(msg.out.q.out))
        /\ PnsGrow(msg.out.list) /\ AmpdusAgree(msg.in, msg.out.list)
  BY ReceivedWhole DEF FramesInv
<1> QED BY <1>6, <1>7, Zenon DEF FramesAreWhole

\* The calls that receive, one at a time.
LEMMA FramesNext == FramesInv /\ MsgNext => FramesInv'
<1> SUFFICES ASSUME FramesInv, MsgNext PROVE FramesInv'
  OBVIOUS
<1>1. CASE Done
  BY <1>1 DEF Done, None, FramesInv, Of
<1>2. CASE Transfer
  <2>1. PICK u \in Transfers : Make("transfer", u, ProcessRxEntry(u))
    BY <1>2 DEF Transfer
  <2> DEFINE out == ProcessRxEntry(u)
  <2>2. u \in TransferInput
    BY ReceptionAssumption
  <2>3. msg'.kind = "transfer" /\ msg'.in = u /\ msg'.out = out
    BY <2>1, Kinds
  <2> HIDE DEF out
  <2>4. msg'.out = ProcessRxEntry(msg'.in)
    BY <2>3 DEF out
  <2> QED BY <2>2, <2>3, <2>4 DEF FramesInv, Of
<1>3. CASE Dump
  <2>1. PICK ps \in Parts : Make("dump", ps, Coredump(ps))
    BY <1>3 DEF Dump
  <2>2. ps \in PartsInput
    BY ReceptionAssumption
  <2>3. msg'.kind = "dump" /\ msg'.in = ps /\ msg'.out = Coredump(ps)
    BY <2>1, Kinds
  <2>4. msg'.out = Coredump(msg'.in)
    BY <2>3
  <2> QED BY <2>2, <2>3, <2>4 DEF FramesInv, Of
<1>4. CASE AckLevel
  <2>1. PICK rcpi \in Signals : Make("signal", rcpi, AckSignal(rcpi))
    BY <1>4 DEF AckLevel
  <2>2. rcpi \in Seq(Levels)
    BY ReceptionAssumption
  <2>3. msg'.kind = "signal" /\ msg'.in = rcpi /\ msg'.out = AckSignal(rcpi)
    BY <2>1, Kinds
  <2>4. msg'.out = AckSignal(msg'.in)
    BY <2>3
  <2> QED BY <2>2, <2>3, <2>4 DEF FramesInv, Of
<1>5. CASE Packet
  <2>1. PICK p \in Packets : Make("packet", p, Received(p))
    BY <1>5 DEF Packet
  <2>2. p \in PacketInput
    BY ReceptionAssumption
  <2>3. msg'.kind = "packet" /\ msg'.in = p /\ msg'.out = Received(p)
    BY <2>1, Kinds
  <2>4. msg'.out = Received(msg'.in)
    BY <2>3
  <2> QED BY <2>2, <2>3, <2>4 DEF FramesInv, Of
<1>6. CASE LinkEvent
  <2>1. PICK l \in Links : Make("link", l, [lost |-> ConnectionLoss(l.vifs, l.idx),
                                          level |-> RssiEvent(l.vifs, l.rssi)])
    BY <1>6 DEF LinkEvent
  <2> DEFINE out == [lost |-> ConnectionLoss(l.vifs, l.idx), level |-> RssiEvent(l.vifs, l.rssi)]
  <2>2. \A v, w \in DOMAIN l.vifs : l.vifs[v].idx = l.vifs[w].idx => v = w
    BY ReceptionAssumption
  <2>3. out.lost = ConnectionLoss(l.vifs, l.idx)
    OBVIOUS
  <2> HIDE DEF out
  <2>4. msg'.kind = "link" /\ msg'.in = l /\ msg'.out = out
    BY <2>1, Kinds DEF out
  <2>5. msg'.out.lost = ConnectionLoss(msg'.in.vifs, msg'.in.idx)
    BY <2>3, <2>4
  <2> QED BY <2>2, <2>4, <2>5 DEF FramesInv, Of
<1>7. CASE ReceiveFrames
  <2> DEFINE Out(fs) == [q |-> ReceiveAll(fs).q,
                         list |-> RxComplete(KeySetup(<<>>, "sta", 0), ReceiveAll(fs).q.out).list]
  <2>1. PICK fs \in RxSeqs : Make("rx", fs, Out(fs))
    BY <1>7 DEF ReceiveFrames
  <2> DEFINE out == Out(fs)
  <2>2. fs \in RxInput
    BY ReceptionAssumption
  <2>3. /\ out.q = ReceiveAll(fs).q
        /\ out.list = RxComplete(KeySetup(<<>>, "sta", 0), ReceiveAll(fs).q.out).list
    OBVIOUS
  <2> HIDE DEF Out
  <2>4. msg'.kind = "rx" /\ msg'.in = fs /\ msg'.out = out
    BY <2>1, Kinds DEF out
  <2> HIDE DEF out
  <2>5. /\ msg'.in \in RxInput /\ msg'.out.q = ReceiveAll(msg'.in).q
        /\ msg'.out.list = RxComplete(KeySetup(<<>>, "sta", 0), msg'.out.q.out).list
    BY <2>2, <2>3, <2>4
  <2> QED BY <2>4, <2>5 DEF FramesInv, Of
<1>8. CASE msg'.kind \notin {"transfer", "dump", "signal", "packet", "link", "rx"}
  BY <1>8 DEF FramesInv, Of
<1> QED BY <1>1, <1>2, <1>3, <1>4, <1>5, <1>6, <1>7, <1>8, KindOf

(***************************************************************************)
(* FramesAreWhole: for any run of frames, whatever their number, their     *)
(* errors, references and packet numbers, what is released and held is     *)
(* what came, in its order, an A-MSDU as it came, and packet numbers grow; *)
(* no byte of a transfer is lost or read twice, a dump has what there was  *)
(* room for, and an event goes to the one reader it is for                 *)
(* (mac80211.c, usb.c, mt7921/mac.c, mt7921/mcu.c).                        *)
(***************************************************************************)
THEOREM FramesStayWhole == MsgSpec => []FramesAreWhole
<1>1. MsgInit => FramesInv
  BY DEF MsgInit, None, FramesInv, Of
<1>2. FramesInv /\ [MsgNext]_msg => FramesInv'
  <2>1. UNCHANGED msg /\ FramesInv => FramesInv'
    BY DEF FramesInv, Of
  <2> QED BY <2>1, FramesNext
<1>3. FramesInv => FramesAreWhole
  BY FramesFollow
<1> QED BY <1>1, <1>2, <1>3, PTL DEF MsgSpec

=============================================================================
