------------------------------ MODULE BytesProofs ------------------------------
(***************************************************************************)
(* The bytes of socket buffers (SkbPages), for any number of buffers, any  *)
(* lengths and any order of the operations: a buffer stays inside its      *)
(* pages, and reads as the string that was written to it.  The folds of    *)
(* DataProofs say what the loops over the fragments read; the invariant    *)
(* says byte by byte where each byte of the string lies.  The last section *)
(* is about the lengths of the frames of Ieee80211Build.                   *)
(***************************************************************************)
EXTENDS DataProofs, Ieee80211Build

(***************************************************************************)
(* The bytes of a buffer.                                                  *)
(***************************************************************************)

(* Where a byte lies: in a page, at an offset.                             *)
Spots == Pages \X Nat

(* Places in a row, one for each byte.                                     *)
LEMMA PlacesAre ==
  ASSUME NEW p \in Pages, NEW off \in Nat, NEW n \in Nat
  PROVE  /\ Places(p, off, n) \in Seq(Spots) /\ Len(Places(p, off, n)) = n
         /\ \A i \in 1 .. n : Places(p, off, n)[i] = <<p, off + i - 1>>
<1>1. \A i \in 1 .. n : <<p, off + i - 1>> \in Spots BY DEF Spots
<1> QED BY <1>1 DEF Places

(* The bytes of a piece.                                                   *)
LEMMA ReadIs ==
  ASSUME NEW f \in SkbFrags
  PROVE  /\ Read(f) \in Seq(Spots) /\ Len(Read(f)) = f.size
         /\ \A i \in 1 .. f.size : Read(f)[i] = <<f.page, f.off + i - 1>>
         /\ f.page \in Pages /\ f.off \in Nat /\ f.size \in Nat
<1>1. f.page \in Pages /\ f.off \in Nat /\ f.size \in Nat BY DEF SkbFrags
<1> QED BY <1>1, PlacesAre DEF Read

(* Where each fragment's bytes begin in the row of all of them.            *)
Laid(fs, from) ==
    /\ from[0] = 0 /\ from[Len(fs)] = Len(ReadAll(fs))
    /\ \A k \in 1 .. Len(fs) :
        /\ from[k] = from[k - 1] + fs[k].size /\ from[k] <= Len(ReadAll(fs))
        /\ \A j \in 1 .. fs[k].size : ReadAll(fs)[from[k - 1] + j] = Read(fs[k])[j]

(* One after the other.                                                    *)
LEMMA RowIs ==
  ASSUME NEW fs \in Seq(SkbFrags)
  PROVE  /\ ReadAll(fs) \in Seq(Spots)
         /\ \E from \in [0 .. Len(fs) -> Nat] : Laid(fs, from)
<1> DEFINE n == Len(fs)
           parts == [i \in 1 .. n |-> Read(fs[i])]
<1>1. n \in Nat /\ DOMAIN fs = 1 .. n /\ \A i \in 1 .. n : fs[i] \in SkbFrags OBVIOUS
<1>2. parts \in [1 .. n -> Seq(Spots)]
  <2> HIDE DEF n
  <2> QED BY <1>1, ReadIs
<1>3. ReadAll(fs) = FlattenSeq(parts) BY <1>1 DEF ReadAll
<1>4. PICK acc \in [0 .. n -> Seq(Spots)] : Concats(acc, n, parts) /\ FlattenSeq(parts) = acc[n]
  <2> HIDE DEF n, parts
  <2> QED BY <1>1, <1>2, FlattenSteps
<1> HIDE DEF n
<1>5. ASSUME NEW k \in 1 .. n
      PROVE /\ acc[k] = acc[k - 1] \o Read(fs[k]) /\ acc[k - 1] \in Seq(Spots) /\ acc[k] \in Seq(Spots)
            /\ Len(acc[k]) = Len(acc[k - 1]) + fs[k].size
            /\ \A i \in 1 .. Len(acc[k - 1]) : acc[k][i] = acc[k - 1][i]
            /\ \A i \in 1 .. fs[k].size : acc[k][Len(acc[k - 1]) + i] = Read(fs[k])[i]
  <2>1. k - 1 \in 0 .. n /\ k \in 0 .. n BY <1>1
  <2>2. acc[k - 1] \in Seq(Spots) /\ acc[k] \in Seq(Spots) BY <2>1
  <2>3. acc[k] = acc[k - 1] \o Read(fs[k]) BY <1>4 DEF Concats
  <2>4. Read(fs[k]) \in Seq(Spots) /\ Len(Read(fs[k])) = fs[k].size BY <1>1, ReadIs
  <2> DEFINE x == acc[k - 1]
             y == Read(fs[k])
  <2>5. x \in Seq(Spots) /\ y \in Seq(Spots) /\ acc[k] = x \o y BY <2>2, <2>3, <2>4
  <2> HIDE DEF x, y
  <2>6. /\ Len(x \o y) = Len(x) + Len(y)
        /\ \A i \in 1 .. Len(x) : (x \o y)[i] = x[i]
        /\ \A i \in 1 .. Len(y) : (x \o y)[Len(x) + i] = y[i]
    BY <2>5, CatIs
  <2>7. Len(acc[k]) = Len(x) + Len(y) /\ (\A i \in 1 .. Len(x) : acc[k][i] = x[i])
        /\ \A i \in 1 .. Len(y) : acc[k][Len(x) + i] = y[i]
    BY <2>5, <2>6
  <2> QED BY <2>2, <2>3, <2>4, <2>7 DEF x, y
<1> DEFINE Pre(k, m) == /\ Len(acc[k]) <= Len(acc[m])
                        /\ \A i \in 1 .. Len(acc[k]) : acc[m][i] = acc[k][i]
           T == {m \in 0 .. n : \A k \in 0 .. m : Pre(k, m)}
<1> HIDE DEF parts
<1>6. T = 0 .. n
  <2>1. 0 \in T /\ T \in SUBSET (0 .. n)
    <3> 0 \in 0 .. n /\ acc[0] \in Seq(Spots) BY <1>1
    <3> Pre(0, 0) OBVIOUS
    <3> \A k \in 0 .. 0 : k = 0 OBVIOUS
    <3> HIDE DEF Pre
    <3> QED OBVIOUS
  <2>2. ASSUME NEW m \in 1 .. n, m - 1 \in T PROVE m \in T
    <3>1. m \in 0 .. n /\ acc[m] \in Seq(Spots) /\ acc[m - 1] \in Seq(Spots) BY <1>1, <1>5
    <3>2. ASSUME NEW k \in 0 .. m PROVE Pre(k, m)
      <4>1. CASE k = m BY <4>1, <3>1
      <4>2. CASE k # m
        <5>1. k \in 0 .. (m - 1) /\ k \in 0 .. n BY <4>2, <1>1
        <5>2. Pre(k, m - 1) BY <5>1, <2>2
        <5>3. Len(acc[k]) \in Nat /\ Len(acc[m - 1]) \in Nat /\ Len(acc[m]) \in Nat
              /\ Len(acc[m - 1]) <= Len(acc[m])
          <6>1. fs[m].size \in Nat BY <1>1, ReadIs
          <6>2. acc[k] \in Seq(Spots) BY <5>1
          <6>3. Len(acc[m]) = Len(acc[m - 1]) + fs[m].size BY <1>5
          <6>4. Len(acc[k]) \in Nat /\ Len(acc[m - 1]) \in Nat /\ Len(acc[m]) \in Nat BY <6>2, <3>1
          <6> HIDE DEF Pre, T
          <6> QED BY <6>1, <6>3, <6>4
        <5>4. ASSUME NEW i \in 1 .. Len(acc[k]) PROVE acc[m][i] = acc[k][i]
          <6> i \in 1 .. Len(acc[m - 1]) BY <5>2, <5>3
          <6> QED BY <5>2, <1>5
        <5> QED BY <5>2, <5>3, <5>4
      <4> QED BY <4>1, <4>2
    <3> HIDE DEF Pre
    <3> QED BY <3>1, <3>2
  <2> HIDE DEF T
  <2> QED BY <1>1, <2>1, <2>2, TurnInd
<1>7. \A k \in 0 .. n : Pre(k, n)
  <2>1. n \in T
    <3> n \in 0 .. n BY <1>1
    <3> HIDE DEF T
    <3> QED BY <1>6
  <2> QED BY <2>1
<1> DEFINE from == [k \in 0 .. n |-> Len(acc[k])]
<1>8. from \in [0 .. n -> Nat]
  <2> \A k \in 0 .. n : acc[k] \in Seq(Spots) OBVIOUS
  <2> QED OBVIOUS
<1>9. Laid(fs, from)
  <2>1. from[0] = 0 /\ from[n] = Len(ReadAll(fs)) /\ ReadAll(fs) = acc[n]
    BY <1>1, <1>3, <1>4 DEF Concats
  <2>2. ASSUME NEW k \in 1 .. n
        PROVE /\ from[k] = from[k - 1] + fs[k].size /\ from[k] <= Len(ReadAll(fs))
              /\ \A j \in 1 .. fs[k].size : ReadAll(fs)[from[k - 1] + j] = Read(fs[k])[j]
    <3>1. k - 1 \in 0 .. n /\ k \in 0 .. n BY <1>1
    <3>2. from[k] = Len(acc[k]) /\ from[k - 1] = Len(acc[k - 1]) BY <3>1
    <3>3. Pre(k, n) BY <3>1, <1>7
    <3>4. fs[k].size \in Nat /\ Len(acc[k - 1]) \in Nat BY <1>1, <1>5, ReadIs
    <3>5. ASSUME NEW j \in 1 .. fs[k].size PROVE ReadAll(fs)[from[k - 1] + j] = Read(fs[k])[j]
      <4>1. Len(acc[k - 1]) + j \in 1 .. Len(acc[k])
        <5>1. Len(acc[k]) = Len(acc[k - 1]) + fs[k].size BY <1>5
        <5> DEFINE p == Len(acc[k - 1])
                   g == fs[k].size
                   q == Len(acc[k])
        <5>2. p \in Nat /\ g \in Nat /\ j \in 1 .. g /\ q = p + g BY <3>4, <5>1
        <5> HIDE DEF p, g, q
        <5>3. p + j \in 1 .. q BY ONLY <5>2
        <5> QED BY <5>3 DEF p, q
      <4>2. acc[n][Len(acc[k - 1]) + j] = acc[k][Len(acc[k - 1]) + j] BY <4>1, <3>3
      <4>3. acc[k][Len(acc[k - 1]) + j] = Read(fs[k])[j] BY <1>5
      <4> HIDE DEF from, Pre
      <4> QED BY ONLY <4>2, <4>3, <3>2, <2>1
    <3> QED BY <3>2, <3>3, <3>5, <1>5, <2>1
  <2> HIDE DEF from
  <2> QED BY <2>1, <2>2 DEF Laid, n
<1>10. ReadAll(fs) \in Seq(Spots) BY <1>3, <1>4, <1>1
<1> HIDE DEF from
<1> QED BY <1>8, <1>9, <1>10 DEF n

(* The bytes of a buffer: its linear part, then its fragments' as far as   *)
(* data_len counts them.                                                   *)
StringOf(b) == Places(b.head, b.data, HeadLen(b)) \o SubSeq(ReadAll(b.frags), 1, b.dlen)

(* The parts of any buffer.                                                *)
LEMMA FieldsOf ==
  ASSUME NEW b \in SkBuffs
  PROVE  /\ b.head \in Pages /\ b.data \in Nat /\ b.len \in Nat /\ b.dlen \in Nat
         /\ b.tail \in Nat /\ b.end \in Nat /\ b.frags \in Seq(SkbFrags)
         /\ HeadLen(b) \in Nat /\ (b.dlen <= b.len => HeadLen(b) = b.len - b.dlen)
BY DEF SkBuffs, HeadLen

(* One turn of the copy loop of skb_linearize.                             *)
Gather(b, had, f) == had \o Read([f EXCEPT !.size = Least(f.size, b.len - Len(had))])

(* One turn of the copy loop adds what still fits.                         *)
LEMMA GatherIs ==
  ASSUME NEW b \in SkBuffs, NEW had \in Seq(Spots), Len(had) <= b.len, NEW f \in SkbFrags
  PROVE  LET c == Least(f.size, b.len - Len(had))
         IN /\ c \in Nat /\ c <= f.size /\ c <= b.len - Len(had)
            /\ Gather(b, had, f) \in Seq(Spots) /\ Len(Gather(b, had, f)) = Len(had) + c
            /\ \A i \in 1 .. Len(had) : Gather(b, had, f)[i] = had[i]
            /\ \A i \in 1 .. c : Gather(b, had, f)[Len(had) + i] = Read(f)[i]
<1> DEFINE c == Least(f.size, b.len - Len(had))
           g == [f EXCEPT !.size = c]
           y == Read(g)
<1>1. b.len \in Nat /\ Len(had) \in Nat /\ f.size \in Nat BY FieldsOf, ReadIs
<1>2. c \in Nat /\ c <= f.size /\ c <= b.len - Len(had) BY <1>1 DEF Least
<1>3. Gather(b, had, f) = had \o y BY DEF Gather
<1> HIDE DEF c
<1>4. g \in SkbFrags /\ g.size = c /\ g.page = f.page /\ g.off = f.off BY <1>2 DEF SkbFrags
<1>5. y \in Seq(Spots) /\ Len(y) = c /\ \A i \in 1 .. c : y[i] = <<f.page, f.off + i - 1>>
  <2> HIDE DEF g
  <2> QED BY <1>4, ReadIs
<1>6. \A i \in 1 .. c : y[i] = Read(f)[i]
  <2> TAKE i \in 1 .. c
  <2> i \in 1 .. f.size BY <1>1, <1>2
  <2> HIDE DEF g, y
  <2> QED BY <1>5, ReadIs
<1> HIDE DEF g, y
<1>7. had \o y \in Seq(Spots) /\ Len(had \o y) = Len(had) + Len(y)
      /\ (\A i \in 1 .. Len(had) : (had \o y)[i] = had[i])
      /\ \A i \in 1 .. Len(y) : (had \o y)[Len(had) + i] = y[i]
  <2> y \in Seq(Spots) /\ had \in Seq(Spots) BY <1>5
  <2> QED BY CatIs
<1> QED BY <1>2, <1>3, <1>5, <1>6, <1>7 DEF c

Gathers(acc, b) ==
    /\ acc[0] = Places(b.head, b.data, HeadLen(b))
    /\ \A k \in 1 .. Len(b.frags) : acc[k] = Gather(b, acc[k - 1], b.frags[k])

(* The copy loop has a row of what it has copied.                          *)
LEMMA GatherFold ==
  ASSUME NEW b \in SkBuffs, b.dlen <= b.len
  PROVE  \E acc \in [0 .. Len(b.frags) -> {g \in Seq(Spots) : Len(g) <= b.len}] :
            Gathers(acc, b) /\ Gathered(b) = acc[Len(b.frags)]
<1> DEFINE A == {g \in Seq(Spots) : Len(g) <= b.len}
           s == b.frags
           n == Len(s)
           base == Places(b.head, b.data, HeadLen(b))
           step == [i \in 1 .. n |-> [a \in A |-> Gather(b, a, s[i])]]
           Eqn(g) == g = [r \in SUBSET (1 .. n) |-> IF r = {} THEN base
                                                    ELSE Gather(b, g[r \ {Max(r)}], s[Max(r)])]
           iter == CHOOSE g : Eqn(g)
<1>1. s \in Seq(SkbFrags) /\ n \in Nat /\ DOMAIN s = 1 .. n /\ \A i \in 1 .. n : s[i] \in SkbFrags
  BY FieldsOf
<1>2. \A a \in A, f \in SkbFrags : Gather(b, a, f) \in A
  <2> SUFFICES ASSUME NEW a \in A, NEW f \in SkbFrags PROVE Gather(b, a, f) \in A OBVIOUS
  <2>1. a \in Seq(Spots) /\ Len(a) <= b.len /\ Len(a) \in Nat /\ b.len \in Nat BY FieldsOf
  <2> DEFINE c == Least(f.size, b.len - Len(a))
  <2>2. c \in Nat /\ c <= b.len - Len(a) /\ Gather(b, a, f) \in Seq(Spots)
        /\ Len(Gather(b, a, f)) = Len(a) + c
    BY <2>1, GatherIs
  <2> HIDE DEF c
  <2> QED BY <2>1, <2>2
<1>3. base \in A
  <2>1. b.head \in Pages /\ b.data \in Nat /\ HeadLen(b) \in Nat /\ HeadLen(b) <= b.len BY FieldsOf
  <2>2. base \in Seq(Spots) /\ Len(base) = HeadLen(b) BY <2>1, PlacesAre
  <2> QED BY <2>1, <2>2
<1> HIDE DEF A, base
<1>4. step \in [1 .. n -> [A -> A]]
  <2> HIDE DEF n, s
  <2> QED BY <1>1, <1>2
<1>5. PICK g \in [SUBSET (1 .. n) -> A] : FoldsSets(g, n, base, step)
  <2> HIDE DEF n, s, step
  <2> QED BY <1>1, <1>3, <1>4, FoldExists
<1>6. \A r \in SUBSET (1 .. n) :
        r # {} => step[Max(r)][g[r \ {Max(r)}]] = Gather(b, g[r \ {Max(r)}], s[Max(r)])
  <2> SUFFICES ASSUME NEW r \in SUBSET (1 .. n), r # {}
               PROVE step[Max(r)][g[r \ {Max(r)}]] = Gather(b, g[r \ {Max(r)}], s[Max(r)])
    OBVIOUS
  <2>1. Max(r) \in 1 .. n
    <3> HIDE DEF n
    <3> QED BY <1>1, MaxOf
  <2>2. g[r \ {Max(r)}] \in A BY <1>5
  <2> QED BY <2>1, <2>2
<1>7. Eqn(g) BY <1>5, <1>6 DEF FoldsSets
<1>8. Eqn(iter) BY <1>7
<1>11. Gathered(b) = iter[1 .. n]
  BY <1>1 DEF Gathered, Gather, FoldLeft, MapThenFoldSet, base, Read, Piece
<1>12. (1 .. n) \in SUBSET (1 .. n) /\ {} \in SUBSET (1 .. n) OBVIOUS
<1>13. iter[{}] = base BY <1>8, <1>12
<1>14. ASSUME NEW r \in SUBSET (1 .. n), r # {}, iter[r \ {Max(r)}] \in A
       PROVE iter[r] = step[Max(r)][iter[r \ {Max(r)}]]
  <2>1. Max(r) \in 1 .. n
    <3> HIDE DEF n
    <3> QED BY <1>1, <1>14, MaxOf
  <2>2. iter[r] = Gather(b, iter[r \ {Max(r)}], s[Max(r)]) BY <1>8, <1>14, <2>1
  <2> QED BY <2>1, <2>2, <1>14
<1>20. FoldsTyped(iter, n, A, base, step)
  <2> HIDE DEF n, s, step, iter
  <2> QED BY <1>13, <1>14 DEF FoldsTyped
<1>15. PICK acc \in [0 .. n -> A] : Accumulates(acc, n, base, step) /\ acc[n] = iter[1 .. n]
  <2> HIDE DEF n, s, step, iter
  <2> QED BY <1>1, <1>3, <1>4, <1>20, FoldSteps
<1>17. ASSUME NEW k \in 1 .. n PROVE acc[k] = Gather(b, acc[k - 1], s[k])
  <2>1. k - 1 \in 0 .. n BY <1>1
  <2>2. acc[k - 1] \in A BY <2>1, <1>15
  <2>3. acc[k] = step[k][acc[k - 1]] BY <1>15 DEF Accumulates
  <2> QED BY <2>2, <2>3
<1>18. acc[0] = base BY <1>15 DEF Accumulates
<1>19. Gathers(acc, b) BY <1>17, <1>18 DEF Gathers, base
<1>21. Gathered(b) = acc[n] BY <1>11, <1>15
<1> HIDE DEF iter, step
<1> QED BY <1>15, <1>19, <1>21 DEF A

(* What has been copied behind a linear part: m bytes of the row of the    *)
(* fragments, after the first q.                                           *)
Copied(a, lin, row, q, m) ==
    /\ a \in Seq(Spots) /\ Len(a) = Len(lin) + m
    /\ \A i \in 1 .. Len(lin) : a[i] = lin[i]
    /\ \A i \in 1 .. m : a[Len(lin) + i] = row[q + i]

(* skb_linearize collects the bytes of the buffer.                         *)
LEMMA GatheredIs ==
  ASSUME NEW b \in SkBuffs, b.dlen <= b.len, b.dlen <= Len(ReadAll(b.frags))
  PROVE  Gathered(b) = StringOf(b)
<1> DEFINE fs == b.frags
           n == Len(fs)
           row == ReadAll(fs)
           lin == Places(b.head, b.data, HeadLen(b))
           d == b.dlen
<1>1. /\ fs \in Seq(SkbFrags) /\ n \in Nat /\ d \in Nat /\ b.len \in Nat
      /\ lin \in Seq(Spots) /\ Len(lin) \in Nat /\ Len(lin) = b.len - d
      /\ \A k \in 1 .. n : fs[k] \in SkbFrags
  <2>1. b.head \in Pages /\ b.data \in Nat /\ HeadLen(b) \in Nat /\ HeadLen(b) = b.len - b.dlen
    BY FieldsOf
  <2>2. lin \in Seq(Spots) /\ Len(lin) = HeadLen(b) BY <2>1, PlacesAre
  <2>3. fs \in Seq(SkbFrags) /\ n \in Nat /\ d \in Nat /\ b.len \in Nat BY FieldsOf
  <2> HIDE DEF lin
  <2> QED BY <2>1, <2>2, <2>3
<1>2. row \in Seq(Spots) /\ \E r \in [0 .. n -> Nat] : Laid(fs, r) BY <1>1, RowIs
<1>3. PICK start \in [0 .. n -> Nat] : Laid(fs, start) BY <1>2
<1>4. PICK acc \in [0 .. n -> {g \in Seq(Spots) : Len(g) <= b.len}] :
             Gathers(acc, b) /\ Gathered(b) = acc[n]
  BY GatherFold
<1>5. d <= Len(row) /\ Len(row) \in Nat BY <1>2
<1> DEFINE m == [k \in 0 .. n |-> Least(d, start[k])]
           T == {k \in 0 .. n : Copied(acc[k], lin, row, 0, m[k])}
<1>6. 0 \in T /\ T \in SUBSET (0 .. n)
  <2>1. 0 \in 0 .. n /\ start[0] = 0 BY <1>1, <1>3 DEF Laid
  <2>2. m[0] = 0 BY <1>1, <2>1 DEF Least
  <2>3. acc[0] = lin BY <1>4 DEF Gathers
  <2> HIDE DEF m, lin, row
  <2>4. Copied(acc[0], lin, row, 0, m[0]) BY <1>1, <2>2, <2>3 DEF Copied
  <2> QED BY <2>1, <2>4
<1>7. ASSUME NEW k \in 1 .. n, k - 1 \in T PROVE k \in T
  <2> DEFINE f == fs[k]
             a == acc[k - 1]
             c == Least(f.size, b.len - Len(a))
             p == m[k - 1]
  <2>1. k \in 0 .. n /\ k - 1 \in 0 .. n BY <1>1
  <2>2. f \in SkbFrags /\ f.size \in Nat BY <1>1, ReadIs
  <2>3. start[k - 1] \in Nat /\ start[k] \in Nat /\ start[k] = start[k - 1] + f.size
        /\ start[k] <= Len(row)
        /\ \A j \in 1 .. f.size : row[start[k - 1] + j] = Read(f)[j]
    BY <2>1, <1>3 DEF Laid
  <2>4. Copied(a, lin, row, 0, p) /\ a \in Seq(Spots) /\ Len(a) <= b.len
    <3>1. a \in {g \in Seq(Spots) : Len(g) <= b.len} BY <2>1
    <3> HIDE DEF a, m
    <3> QED BY <1>7, <3>1 DEF a
  <2>5. p = Least(d, start[k - 1]) /\ m[k] = Least(d, start[k]) BY <2>1
  <2>6. acc[k] = Gather(b, a, f) BY <1>4 DEF Gathers
  <2>7. /\ c \in Nat /\ c <= f.size /\ c <= b.len - Len(a)
        /\ Gather(b, a, f) \in Seq(Spots) /\ Len(Gather(b, a, f)) = Len(a) + c
        /\ \A i \in 1 .. Len(a) : Gather(b, a, f)[i] = a[i]
        /\ \A i \in 1 .. c : Gather(b, a, f)[Len(a) + i] = Read(f)[i]
    <3> HIDE DEF a, f
    <3> QED BY <2>2, <2>4, GatherIs
  <2>8. Len(a) = Len(lin) + p /\ Len(a) \in Nat BY <2>4 DEF Copied
  <2> DEFINE q == m[k]
             z == acc[k]
  <2>20. c = Least(f.size, b.len - Len(a)) OBVIOUS
  <2> HIDE DEF a, f, c, m, lin, row, p, d, fs, q
  <2>9. p \in Nat /\ q \in Nat /\ q = p + c /\ (c > 0 => p = start[k - 1])
    <3>1. p = Least(d, start[k - 1]) /\ q = Least(d, start[k]) BY <2>5 DEF q
    <3>2. p \in Nat /\ q \in Nat BY <3>1, <1>1, <2>3 DEF Least
    <3>3. c = Least(f.size, d - p)
      <4>1. b.len \in Nat /\ Len(lin) \in Nat /\ d \in Nat /\ b.len = Len(lin) + d BY <1>1
      <4>2. b.len - Len(a) = d - p BY ONLY <4>1, <2>8, <3>2
      <4> QED BY ONLY <2>20, <4>2
    <3>4. CASE d <= start[k - 1]
      <4>1. d \in Nat BY <1>1
      <4>2. d <= start[k] BY ONLY <4>1, <3>4, <2>3, <2>2
      <4> p = d /\ q = d BY ONLY <4>1, <4>2, <3>1, <3>4, <2>3 DEF Least
      <4> c = 0 BY <3>3, <2>2, <1>1 DEF Least
      <4> QED BY <3>2
    <3>5. CASE ~(d <= start[k - 1])
      <4>1. p = start[k - 1] BY <3>1, <3>5, <1>1, <2>3 DEF Least
      <4>2. ASSUME NEW x \in Nat, NEW y \in Nat, NEW w \in Nat, ~(w <= x)
            PROVE Least(w, x + y) = x + Least(y, w - x)
        BY <4>2 DEF Least
      <4>3. Least(d, start[k - 1] + f.size) = start[k - 1] + Least(f.size, d - start[k - 1])
        BY <4>2, <3>5, <2>2, <2>3, <1>1
      <4>4. q = p + c BY <4>1, <4>3, <3>1, <3>3, <2>3
      <4> QED BY <4>1, <4>4, <3>2
    <3> QED BY <3>4, <3>5
  <2>10. z \in Seq(Spots) /\ Len(z) = Len(lin) + q
    <3>1. Len(lin) \in Nat BY <1>1
    <3>2. Len(a) + c = Len(lin) + q BY ONLY <3>1, <2>8, <2>9, <2>7
    <3> QED BY <3>2, <2>6, <2>7
  <2>11. ASSUME NEW i \in 1 .. Len(lin) PROVE z[i] = lin[i]
    <3> i \in 1 .. Len(a) BY <2>8, <2>9, <1>1
    <3> QED BY <2>6, <2>7, <2>4 DEF Copied
  <2>12. ASSUME NEW i \in 1 .. q PROVE z[Len(lin) + i] = row[i]
    <3>1. CASE i <= p
      <4>3. Len(lin) \in Nat BY <1>1
      <4>1. Len(lin) + i \in 1 .. Len(a) /\ i \in 1 .. p
        BY ONLY <4>3, <3>1, <2>8, <2>9, i \in 1 .. q
      <4>2. a[Len(lin) + i] = row[i]
        <5>1. \A r \in 1 .. p : a[Len(lin) + r] = row[0 + r] BY <2>4 DEF Copied
        <5>2. a[Len(lin) + i] = row[0 + i] BY ONLY <5>1, <4>1
        <5>3. 0 + i = i BY ONLY i \in 1 .. q
        <5> QED BY ONLY <5>2, <5>3
      <4> QED BY <4>1, <4>2, <2>6, <2>7
    <3>2. CASE i > p
      <4> DEFINE j == i - p
      <4>1. j \in 1 .. c /\ i = p + j /\ c > 0 BY <3>2, <2>9, <2>7
      <4>4. j \in Nat /\ Len(lin) + i = Len(a) + j BY <4>1, <2>8, <2>9, <1>1
      <4> HIDE DEF j
      <4>2. j \in 1 .. f.size BY <4>1, <2>7, <2>2
      <4>3. row[start[k - 1] + j] = Read(f)[j] BY <4>2, <2>3
      <4>5. Gather(b, a, f)[Len(a) + j] = Read(f)[j] BY <4>1, <2>7
      <4> QED BY <4>1, <4>3, <4>4, <4>5, <2>6, <2>9
    <3> QED BY <3>1, <3>2, <2>9
  <2>13. Copied(z, lin, row, 0, q) BY <2>10, <2>11, <2>12 DEF Copied
  <2> QED BY <2>1, <2>13 DEF q
<1>8. T = 0 .. n
  <2> HIDE DEF T, n
  <2> QED BY <1>1, <1>6, <1>7, TurnInd
<1>9. Copied(acc[n], lin, row, 0, d)
  <2>1. n \in 0 .. n BY <1>1
  <2>2. n \in T
    <3> HIDE DEF T, n
    <3> QED BY <1>8, <2>1
  <2>3. start[n] = Len(row) BY <1>3 DEF Laid
  <2>4. m[n] = d
    <3> m[n] = Least(d, Len(row)) BY <2>1, <2>3
    <3> HIDE DEF m, d, row
    <3> QED BY <1>1, <1>5 DEF Least
  <2> HIDE DEF m, lin, row, d
  <2> QED BY <2>2, <2>4
<1>10. acc[n] = lin \o SubSeq(row, 1, d)
  <2> DEFINE y == SubSeq(row, 1, d)
             z == acc[n]
  <2> HIDE DEF row, lin, d, z
  <2>1. d \in 0 .. Len(row) BY <1>1, <1>5
  <2>2. y \in Seq(Spots) /\ Len(y) = d /\ \A i \in 1 .. d : y[i] = row[i] BY <1>2, <2>1, PrefixIs
  <2> HIDE DEF y
  <2>4. Copied(z, lin, row, 0, d) BY <1>9 DEF z
  <2>3. /\ z \in Seq(Spots) /\ Len(z) = Len(lin) + Len(y)
        /\ (\A i \in 1 .. Len(lin) : z[i] = lin[i])
        /\ \A i \in 1 .. Len(y) : z[Len(lin) + i] = y[i]
    <3>1. /\ z \in Seq(Spots) /\ Len(z) = Len(lin) + d
          /\ \A i \in 1 .. Len(lin) : z[i] = lin[i]
      BY ONLY <2>4 DEF Copied
    <3>2. ASSUME NEW i \in 1 .. d PROVE z[Len(lin) + i] = y[i]
      <4>1. z[Len(lin) + i] = row[0 + i] BY <2>4 DEF Copied
      <4> QED BY <2>2, <4>1
    <3> QED BY <2>2, <3>1, <3>2
  <2>5. lin \in Seq(Spots) BY <1>1
  <2>6. lin \o y = z BY <2>2, <2>3, <2>5, CatEquals
  <2> QED BY <2>6 DEF y, z
<1> QED BY <1>4, <1>10 DEF StringOf

(* The sizes of the fragments add up to the bytes of them all.             *)
LEMMA UncutIs ==
  ASSUME NEW b \in SkBuffs
  PROVE  Uncut(b) <=> b.dlen = Len(ReadAll(b.frags))
<1> DEFINE s == b.frags
           n == Len(s)
           row == ReadAll(s)
           step == [i \in 1 .. n |-> [w \in Nat |-> w + s[i].size]]
           Eqn(g) == g = [r \in SUBSET (1 .. n) |-> IF r = {} THEN 0
                                                    ELSE g[r \ {Max(r)}] + s[Max(r)].size]
           iter == CHOOSE g : Eqn(g)
<1>1. s \in Seq(SkbFrags) /\ n \in Nat /\ DOMAIN s = 1 .. n /\ \A i \in 1 .. n : s[i].size \in Nat
  BY FieldsOf, ReadIs
<1>4. step \in [1 .. n -> [Nat -> Nat]] BY <1>1
<1>5. PICK g \in [SUBSET (1 .. n) -> Nat] : FoldsSets(g, n, 0, step)
  <2> 0 \in Nat OBVIOUS
  <2> HIDE DEF n, step
  <2> QED BY <1>1, <1>4, FoldExists
<1>6. \A r \in SUBSET (1 .. n) :
        r # {} => step[Max(r)][g[r \ {Max(r)}]] = g[r \ {Max(r)}] + s[Max(r)].size
  <2> SUFFICES ASSUME NEW r \in SUBSET (1 .. n), r # {}
               PROVE step[Max(r)][g[r \ {Max(r)}]] = g[r \ {Max(r)}] + s[Max(r)].size
    OBVIOUS
  <2>1. Max(r) \in 1 .. n
    <3> HIDE DEF n
    <3> QED BY <1>1, MaxOf
  <2>2. g[r \ {Max(r)}] \in Nat BY <1>5
  <2> QED BY <2>1, <2>2
<1>7. Eqn(g) BY <1>5, <1>6 DEF FoldsSets
<1>8. Eqn(iter) BY <1>7
<1>11. Uncut(b) <=> b.dlen = iter[1 .. n]
  BY <1>1 DEF Uncut, FoldLeft, MapThenFoldSet
<1>12. (1 .. n) \in SUBSET (1 .. n) /\ {} \in SUBSET (1 .. n) OBVIOUS
<1>13. iter[{}] = 0 BY <1>8, <1>12
<1>14. ASSUME NEW r \in SUBSET (1 .. n), r # {}, iter[r \ {Max(r)}] \in Nat
       PROVE iter[r] = step[Max(r)][iter[r \ {Max(r)}]]
  <2>1. Max(r) \in 1 .. n
    <3> HIDE DEF n
    <3> QED BY <1>1, <1>14, MaxOf
  <2>2. iter[r] = iter[r \ {Max(r)}] + s[Max(r)].size BY <1>8, <1>14, <2>1
  <2> HIDE DEF iter, n
  <2> QED BY <2>1, <2>2, <1>14
<1>20. FoldsTyped(iter, n, Nat, 0, step)
  <2> HIDE DEF n, step, iter
  <2> QED BY <1>13, <1>14 DEF FoldsTyped
<1>15. PICK sums \in [0 .. n -> Nat] : Accumulates(sums, n, 0, step) /\ sums[n] = iter[1 .. n]
  <2> DEFINE base == 0
             N == Nat
  <2> base \in N OBVIOUS
  <2> HIDE DEF n, step, iter, base
  <2>1. FoldsTyped(iter, n, N, base, step) BY <1>20 DEF base
  <2>2. n \in Nat /\ step \in [1 .. n -> [N -> N]] BY <1>1, <1>4
  <2> HIDE DEF N
  <2>3. \E a \in [0 .. n -> N] : Accumulates(a, n, base, step) /\ a[n] = iter[1 .. n]
    BY <2>1, <2>2, FoldSteps
  <2> QED BY <2>3 DEF base, N
<1>17. ASSUME NEW k \in 1 .. n PROVE sums[k] = sums[k - 1] + s[k].size
  <2> k - 1 \in 0 .. n BY <1>1
  <2> sums[k - 1] \in Nat BY <1>15
  <2> QED BY <1>15 DEF Accumulates
<1>18. sums[0] = 0 BY <1>15 DEF Accumulates
<1>19. PICK start \in [0 .. n -> Nat] : Laid(s, start) BY <1>1, RowIs
<1> DEFINE T == {k \in 0 .. n : sums[k] = start[k]}
<1>21. n \in T
  <2>1. 0 \in T /\ T \in SUBSET (0 .. n) BY <1>1, <1>18, <1>19 DEF Laid
  <2>2. ASSUME NEW k \in 1 .. n, k - 1 \in T PROVE k \in T
    <3>1. k \in 0 .. n BY <1>1
    <3>2. start[k] = start[k - 1] + s[k].size BY <1>19 DEF Laid
    <3> HIDE DEF s, n
    <3> QED BY <2>2, <3>1, <3>2, <1>17
  <2>3. n \in 0 .. n BY <1>1
  <2> HIDE DEF T, n
  <2>4. T = 0 .. n BY <1>1, <2>1, <2>2, TurnInd
  <2> QED BY <2>3, <2>4
<1>22. sums[n] = Len(row)
  <2>1. start[n] = Len(row) BY <1>19 DEF Laid
  <2> QED BY <2>1, <1>21
<1> HIDE DEF iter, step
<1> QED BY <1>11, <1>15, <1>22

(***************************************************************************)
(* Scatterlists: the loop of skb_to_sgvec.                                 *)
(***************************************************************************)

(* The pieces of one more entry.                                           *)
LEMMA ReadMore ==
  ASSUME NEW had \in Seq(SkbFrags), NEW f \in SkbFrags
  PROVE  ReadAll(Append(had, f)) = ReadAll(had) \o Read(f)
<1> DEFINE n == Len(had)
           longer == Append(had, f)
           p == [i \in 1 .. n |-> Read(had[i])]
           q == [i \in 1 .. (n + 1) |-> Read(longer[i])]
<1>1. n \in Nat /\ DOMAIN had = 1 .. n /\ DOMAIN longer = 1 .. (n + 1)
      /\ (\A i \in 1 .. n : longer[i] = had[i] /\ had[i] \in SkbFrags) /\ longer[n + 1] = f
  OBVIOUS
<1> HIDE DEF longer, n
<1>2. p \in [1 .. n -> Seq(Spots)] BY <1>1, ReadIs
<1>3. q \in [1 .. (n + 1) -> Seq(Spots)]
  <2> SUFFICES ASSUME NEW i \in 1 .. (n + 1) PROVE Read(longer[i]) \in Seq(Spots) OBVIOUS
  <2> longer[i] \in SkbFrags
    <3>1. CASE i = n + 1 BY <3>1, <1>1
    <3>2. CASE i # n + 1
      <4> i \in 1 .. n BY <3>2, <1>1
      <4> QED BY <1>1
    <3> QED BY <3>1, <3>2
  <2> QED BY ReadIs
<1>4. \A i \in 1 .. n : q[i] = p[i] BY <1>1
<1>5. q[n + 1] = Read(f) BY <1>1
<1>6. ReadAll(had) = FlattenSeq(p) /\ ReadAll(longer) = FlattenSeq(q) BY <1>1 DEF ReadAll
<1> HIDE DEF p, q
<1>7. FlattenSeq(q) = FlattenSeq(p) \o q[n + 1] BY <1>1, <1>2, <1>3, <1>4, FlattenAppend
<1> QED BY <1>5, <1>6, <1>7 DEF longer

(* States of the loop of skb_to_sgvec, with entries from a set that is     *)
(* closed under cutting.                                                   *)
SgStates(S) == [skip : Nat, left : Nat, out : Seq(S)]
ClosedUnderCutting(S) ==
    \A f \in S : \A a, n \in Nat : a + n <= f.size => Piece(f.page, f.off + a, n) \in S

(* What one turn of the loop does.                                         *)
LEMMA SgTakeIs ==
  ASSUME NEW S \in SUBSET SkbFrags, ClosedUnderCutting(S), NEW st \in SgStates(S), NEW f \in S
  PROVE  LET n == Least(f.size - st.skip, st.left)
             new == Piece(f.page, f.off + st.skip, n)
         IN /\ SgTake(st, f) \in SgStates(S)
            /\ st.left = 0 => SgTake(st, f) = st
            /\ (st.left # 0 /\ st.skip >= f.size) =>
                  /\ SgTake(st, f).skip = st.skip - f.size
                  /\ SgTake(st, f).left = st.left /\ SgTake(st, f).out = st.out
            /\ (st.left # 0 /\ st.skip < f.size /\ Len(st.out) >= MaxFrags) => SgTake(st, f) = st
            /\ (st.left # 0 /\ st.skip < f.size /\ Len(st.out) < MaxFrags) =>
                  /\ n \in Nat /\ n <= f.size - st.skip /\ n <= st.left /\ new \in S
                  /\ SgTake(st, f).skip = 0 /\ SgTake(st, f).left = st.left - n
                  /\ SgTake(st, f).out = Append(st.out, new)
<1> DEFINE n == Least(f.size - st.skip, st.left)
           new == Piece(f.page, f.off + st.skip, n)
           next == [skip |-> 0, left |-> st.left - n, out |-> Append(st.out, new)]
           skips == [st EXCEPT !.skip = st.skip - f.size]
<1>1. f \in SkbFrags /\ f.size \in Nat /\ f.off \in Nat /\ st.skip \in Nat /\ st.left \in Nat /\ st.out \in Seq(S)
  BY ReadIs DEF SgStates
<1>2. SgTake(st, f) = IF st.left = 0 THEN st ELSE IF st.skip >= f.size THEN skips
                      ELSE IF Len(st.out) >= MaxFrags THEN st ELSE next
  BY DEF SgTake
<1>3. MaxFrags \in Nat /\ Len(st.out) \in Nat BY <1>1, SkbAssumption
<1>4. CASE st.left = 0 BY <1>2, <1>4
<1>5. CASE st.left # 0 /\ st.skip >= f.size
  <2>1. skips \in SgStates(S) /\ skips.skip = st.skip - f.size /\ skips.left = st.left /\ skips.out = st.out
    BY <1>1, <1>5 DEF SgStates
  <2> HIDE DEF skips, next
  <2> QED BY <1>1, <1>2, <1>5, <2>1
<1>6. CASE st.left # 0 /\ st.skip < f.size
  <2>1. n \in Nat /\ n <= f.size - st.skip /\ n <= st.left BY <1>1, <1>6 DEF Least
  <2> HIDE DEF n
  <2>2. st.skip + n <= f.size /\ st.left - n \in Nat BY <2>1, <1>1, <1>6
  <2>3. new \in S BY <2>1, <2>2, <1>1 DEF ClosedUnderCutting
  <2> HIDE DEF new
  <2>4. next \in SgStates(S) /\ next.skip = 0 /\ next.left = st.left - n /\ next.out = Append(st.out, new)
    BY <2>2, <2>3, <1>1 DEF SgStates
  <2>5. ~(st.skip >= f.size) BY <1>1, <1>6
  <2> HIDE DEF next
  <2>6. CASE Len(st.out) >= MaxFrags
    <3> ~(Len(st.out) < MaxFrags) BY <1>3, <2>6
    <3> QED BY <1>2, <1>6, <2>5, <2>6 DEF n, new
  <2>7. CASE ~(Len(st.out) >= MaxFrags)
    <3> SgTake(st, f) = next BY <1>2, <1>6, <2>5, <2>7
    <3> QED BY <2>7, <1>6, <2>1, <2>3, <2>4, <2>5 DEF n, new
  <2> QED BY <2>6, <2>7
<1> QED BY <1>1, <1>4, <1>5, <1>6

SgTurns(acc, base, fs) ==
    acc[0] = base /\ \A k \in 1 .. Len(fs) : acc[k] = SgTake(acc[k - 1], fs[k])

(* The loop over the fragments has a row of states.                        *)
LEMMA SgFold ==
  ASSUME NEW S \in SUBSET SkbFrags, ClosedUnderCutting(S), NEW base \in SgStates(S), NEW s \in Seq(S)
  PROVE  \E acc \in [0 .. Len(s) -> SgStates(S)] :
            SgTurns(acc, base, s) /\ FoldLeft(SgTake, base, s) = acc[Len(s)]
<1> DEFINE n == Len(s)
           A == SgStates(S)
           step == [i \in 1 .. n |-> [a \in A |-> SgTake(a, s[i])]]
           Eqn(g) == g = [r \in SUBSET (1 .. n) |-> IF r = {} THEN base
                                                    ELSE SgTake(g[r \ {Max(r)}], s[Max(r)])]
           iter == CHOOSE g : Eqn(g)
<1>1. n \in Nat /\ DOMAIN s = 1 .. n /\ (\A i \in 1 .. n : s[i] \in S) /\ base \in A OBVIOUS
<1>2. \A a \in A, f \in S : SgTake(a, f) \in A
  BY SgTakeIs
<1> HIDE DEF A
<1>4. step \in [1 .. n -> [A -> A]]
  <2> HIDE DEF n
  <2> QED BY <1>1, <1>2
<1>5. PICK g \in [SUBSET (1 .. n) -> A] : FoldsSets(g, n, base, step)
  <2> HIDE DEF n, step
  <2> QED BY <1>1, <1>4, FoldExists
<1>6. \A r \in SUBSET (1 .. n) :
        r # {} => step[Max(r)][g[r \ {Max(r)}]] = SgTake(g[r \ {Max(r)}], s[Max(r)])
  <2> SUFFICES ASSUME NEW r \in SUBSET (1 .. n), r # {}
               PROVE step[Max(r)][g[r \ {Max(r)}]] = SgTake(g[r \ {Max(r)}], s[Max(r)])
    OBVIOUS
  <2>1. Max(r) \in 1 .. n
    <3> HIDE DEF n
    <3> QED BY <1>1, MaxOf
  <2>2. g[r \ {Max(r)}] \in A BY <1>5
  <2> QED BY <2>1, <2>2
<1>7. Eqn(g) BY <1>5, <1>6 DEF FoldsSets
<1>8. Eqn(iter) BY <1>7
<1>11. FoldLeft(SgTake, base, s) = iter[1 .. n]
  BY <1>1 DEF FoldLeft, MapThenFoldSet
<1>12. (1 .. n) \in SUBSET (1 .. n) /\ {} \in SUBSET (1 .. n) OBVIOUS
<1>13. iter[{}] = base BY <1>8, <1>12
<1>14. ASSUME NEW r \in SUBSET (1 .. n), r # {}, iter[r \ {Max(r)}] \in A
       PROVE iter[r] = step[Max(r)][iter[r \ {Max(r)}]]
  <2>1. Max(r) \in 1 .. n
    <3> HIDE DEF n
    <3> QED BY <1>1, <1>14, MaxOf
  <2>2. iter[r] = SgTake(iter[r \ {Max(r)}], s[Max(r)]) BY <1>8, <1>14, <2>1
  <2> HIDE DEF iter, n
  <2> QED BY <2>1, <2>2, <1>14
<1>20. FoldsTyped(iter, n, A, base, step)
  <2> HIDE DEF n, step, iter
  <2> QED BY <1>13, <1>14 DEF FoldsTyped
<1>15. PICK acc \in [0 .. n -> A] : Accumulates(acc, n, base, step) /\ acc[n] = iter[1 .. n]
  <2> HIDE DEF n, step, iter
  <2> QED BY <1>1, <1>4, <1>20, FoldSteps
<1>17. ASSUME NEW k \in 1 .. n PROVE acc[k] = SgTake(acc[k - 1], s[k])
  <2>1. k - 1 \in 0 .. n BY <1>1
  <2>2. acc[k - 1] \in A BY <2>1, <1>15
  <2>3. acc[k] = step[k][acc[k - 1]] BY <1>15 DEF Accumulates
  <2> QED BY <2>2, <2>3
<1>18. SgTurns(acc, base, s) BY <1>15, <1>17 DEF Accumulates, SgTurns
<1>19. FoldLeft(SgTake, base, s) = acc[n] BY <1>11, <1>15
<1> HIDE DEF iter, step
<1> QED BY <1>15, <1>18, <1>19 DEF A

(* A part of a fragment is a piece of its page.                            *)
LEMMA FragsClosed == ClosedUnderCutting(SkbFrags)
<1> SUFFICES ASSUME NEW f \in SkbFrags, NEW a \in Nat, NEW n \in Nat
             PROVE Piece(f.page, f.off + a, n) \in SkbFrags BY DEF ClosedUnderCutting
<1> f.page \in Pages /\ f.off \in Nat BY DEF SkbFrags
<1> QED BY DEF Piece, SkbFrags

(* Where the loop stands when it has met p bytes of the row of fragments:  *)
(* it has taken what it was to take of them, behind what it began with.    *)
SoFar(base, p) == IF p <= base.skip THEN 0 ELSE Least(base.left, p - base.skip)
SgAt(st, base, row, p) ==
    /\ st.left = base.left - SoFar(base, p)
    /\ st.skip = IF p >= base.skip THEN 0 ELSE base.skip - p
    /\ Copied(ReadAll(st.out), ReadAll(base.out), row, base.skip, SoFar(base, p))

(* The numbers before a turn, and what the turn makes of them with a       *)
(* fragment of z bytes.                                                    *)
NumbersAt(base, p, skip, left) ==
    left = base.left - SoFar(base, p) /\ skip = IF p >= base.skip THEN 0 ELSE base.skip - p

NumbersTurn(base, p, z, skip, left) ==
    /\ SoFar(base, p) \in Nat /\ SoFar(base, p + z) \in Nat
    /\ left = 0 => /\ SoFar(base, p + z) = SoFar(base, p)
                   /\ skip = (IF p + z >= base.skip THEN 0 ELSE base.skip - (p + z))
    /\ (left # 0 /\ skip >= z) =>
          /\ SoFar(base, p + z) = SoFar(base, p)
          /\ skip - z = (IF p + z >= base.skip THEN 0 ELSE base.skip - (p + z))
    /\ (left # 0 /\ skip < z) =>
          /\ SoFar(base, p + z) = SoFar(base, p) + Least(z - skip, left)
          /\ p + z >= base.skip
          /\ base.skip + SoFar(base, p) = p + skip

(* One turn of the loop of skb_to_sgvec, in numbers.                       *)
LEMMA SgNumbers ==
  ASSUME NEW base \in SgStates(SkbFrags), base.left = 0 => base.skip = 0,
         NEW p \in Nat, NEW z \in Nat, NEW skip \in Nat, NEW left \in Nat,
         NumbersAt(base, p, skip, left)
  PROVE  NumbersTurn(base, p, z, skip, left)
<1>1. base.skip \in Nat /\ base.left \in Nat BY DEF SgStates
<1> DEFINE q == base.skip m == base.left t == SoFar(base, p) u == SoFar(base, p + z)
<1>2. /\ q \in Nat /\ m \in Nat /\ (m = 0 => q = 0)
      /\ t = (IF p <= q THEN 0 ELSE Least(m, p - q))
      /\ u = (IF p + z <= q THEN 0 ELSE Least(m, p + z - q))
      /\ left = m - t /\ skip = IF p >= q THEN 0 ELSE q - p
  BY <1>1 DEF SoFar, NumbersAt
<1> HIDE DEF q, m, t, u
<1>3. /\ t \in Nat /\ u \in Nat
      /\ left = 0 => u = t /\ skip = (IF p + z >= q THEN 0 ELSE q - (p + z))
      /\ (left # 0 /\ skip >= z) => u = t /\ skip - z = (IF p + z >= q THEN 0 ELSE q - (p + z))
      /\ (left # 0 /\ skip < z) => u = t + Least(z - skip, left) /\ p + z >= q /\ q + t = p + skip
  <2>1. t \in Nat /\ u \in Nat BY <1>2 DEF Least
  <2>2. CASE p < q
    <3>1. t = 0 /\ skip = q - p /\ left = m BY <1>2, <2>2
    <3>2. CASE p + z <= q
      <4> u = 0 BY <1>2, <3>2
      <4> QED BY <1>2, <2>1, <2>2, <3>1, <3>2
    <3>3. CASE ~(p + z <= q)
      <4>1. u = Least(m, p + z - q) /\ Least(z - skip, left) = Least(p + z - q, m)
        <5> p + z - q = z - (q - p) BY <1>2
        <5> QED BY <1>2, <3>1, <3>3
      <4>2. Least(m, p + z - q) = Least(p + z - q, m) BY <1>2 DEF Least
      <4> QED BY <1>2, <2>1, <2>2, <3>1, <3>3, <4>1, <4>2
    <3> QED BY <3>2, <3>3
  <2>3. CASE p >= q
    <3>1. skip = 0 /\ t = Least(m, p - q) BY <1>2, <2>3 DEF Least
    <3>2. u = Least(m, p + z - q) BY <1>2, <2>3 DEF Least
    <3>3. CASE m <= p - q
      <4>1. t = m /\ u = m BY <3>1, <3>2, <3>3, <1>2, <2>3 DEF Least
      <4>2. left = 0 /\ p + z >= q BY <1>2, <2>3, <4>1
      <4> QED BY <2>1, <3>1, <4>1, <4>2
    <3>4. CASE ~(m <= p - q)
      <4>1. t = p - q BY <3>1, <3>4, <1>2, <2>3 DEF Least
      <4>2. u = t + Least(z, m - t) BY <3>2, <3>4, <4>1, <1>2, <2>3 DEF Least
      <4>3. z = 0 => u = t
        <5> z = 0 => p + z - q = p - q BY <1>2
        <5> QED BY <3>1, <3>2
      <4>4. left = m - t /\ left # 0 /\ p + z >= q /\ z - skip = z /\ q + t = p + skip
        BY <1>2, <2>3, <3>1, <3>4, <4>1
      <4>5. skip >= z => z = 0 BY <3>1
      <4>6. z = 0 => skip - z = 0 BY <3>1
      <4> QED BY <2>1, <3>1, <4>2, <4>3, <4>4, <4>5, <4>6
    <3> QED BY <3>3, <3>4
  <2> QED BY <1>2, <2>2, <2>3
<1> QED BY <1>3 DEF q, m, t, u, NumbersTurn

(* One turn, unless the list is full.                                      *)
LEMMA SgTurn ==
  ASSUME NEW base \in SgStates(SkbFrags), base.left = 0 => base.skip = 0,
         NEW row \in Seq(Spots), NEW p \in Nat, NEW f \in SkbFrags, NEW st \in SgStates(SkbFrags),
         SgAt(st, base, row, p), p + f.size <= Len(row),
         \A j \in 1 .. f.size : row[p + j] = Read(f)[j],
         ~(st.left # 0 /\ st.skip < f.size /\ Len(st.out) >= MaxFrags)
  PROVE  /\ SgAt(SgTake(st, f), base, row, p + f.size)
         /\ Len(SgTake(st, f).out) <= Len(st.out) + 1
<1> DEFINE z == f.size
           t == SoFar(base, p)
           u == SoFar(base, p + z)
           n == Least(f.size - st.skip, st.left)
           new == Piece(f.page, f.off + st.skip, n)
           next == SgTake(st, f)
           q == base.skip
           lin == ReadAll(base.out)
<1>1. /\ z \in Nat /\ f.page \in Pages /\ f.off \in Nat /\ st.skip \in Nat /\ st.left \in Nat
      /\ st.out \in Seq(SkbFrags) /\ base.out \in Seq(SkbFrags) /\ q \in Nat /\ base.left \in Nat
      /\ Len(st.out) \in Nat /\ MaxFrags \in Nat
  BY ReadIs, SkbAssumption DEF SgStates
<1>2. lin \in Seq(Spots) /\ ReadAll(st.out) \in Seq(Spots) /\ Len(lin) \in Nat BY <1>1, RowIs
<1>3. /\ st.left = base.left - t
      /\ st.skip = IF p >= q THEN 0 ELSE q - p
      /\ Copied(ReadAll(st.out), lin, row, q, t)
  BY DEF SgAt
<1>4. /\ t \in Nat /\ u \in Nat
      /\ st.left = 0 => u = t /\ st.skip = (IF p + z >= q THEN 0 ELSE q - (p + z))
      /\ (st.left # 0 /\ st.skip >= z) => u = t /\ st.skip - z = (IF p + z >= q THEN 0 ELSE q - (p + z))
      /\ (st.left # 0 /\ st.skip < z) => u = t + n /\ p + z >= q /\ q + t = p + st.skip
  <2>1. f.size \in Nat /\ st.skip \in Nat /\ st.left \in Nat BY <1>1
  <2>2. NumbersAt(base, p, st.skip, st.left) BY <1>3 DEF NumbersAt
  <2>3. NumbersTurn(base, p, f.size, st.skip, st.left) BY <2>1, <2>2, SgNumbers
  <2> QED BY <2>3 DEF NumbersTurn
<1>5. /\ st.left = 0 => next = st
      /\ (st.left # 0 /\ st.skip >= f.size) =>
            next.skip = st.skip - f.size /\ next.left = st.left /\ next.out = st.out
      /\ (st.left # 0 /\ st.skip < f.size /\ Len(st.out) < MaxFrags) =>
            /\ n \in Nat /\ n <= f.size - st.skip /\ n <= st.left /\ new \in SkbFrags
            /\ next.skip = 0 /\ next.left = st.left - n /\ next.out = Append(st.out, new)
  BY FragsClosed, SgTakeIs
<1>6. SgAt(next, base, row, p + z) <=>
        /\ next.left = base.left - u
        /\ next.skip = IF p + z >= q THEN 0 ELSE q - (p + z)
        /\ Copied(ReadAll(next.out), lin, row, q, u)
  BY DEF SgAt
<1> HIDE DEF next, u, t, q, lin, z
<1>7. CASE st.left = 0
  <2>1. SgAt(next, base, row, p + z) /\ Len(next.out) <= Len(st.out) + 1
    BY <1>1, <1>3, <1>4, <1>5, <1>6, <1>7, SMTT(30)
  <2> QED BY <2>1 DEF next, z
<1>8. CASE st.left # 0 /\ st.skip >= z
  <2>1. st.skip >= f.size BY <1>8 DEF z
  <2>2. next.skip = st.skip - z /\ next.left = st.left /\ next.out = st.out BY <1>5, <1>8, <2>1 DEF z
  <2>3. SgAt(next, base, row, p + z) /\ Len(next.out) <= Len(st.out) + 1
    BY <1>1, <1>3, <1>4, <1>6, <1>8, <2>2
  <2> QED BY <2>3 DEF next, z
<1>9. CASE st.left # 0 /\ ~(st.skip >= z)
  <2>1. st.skip < f.size /\ Len(st.out) < MaxFrags BY <1>1, <1>9 DEF z
  <2>2. n \in Nat /\ n <= f.size - st.skip /\ new \in SkbFrags
        /\ next.skip = 0 /\ next.left = st.left - n /\ next.out = Append(st.out, new)
    BY <1>5, <1>9, <2>1
  <2>3. u = t + n /\ p + z >= q /\ q + t = p + st.skip BY <1>4, <1>9, <2>1 DEF z
  <2> DEFINE x == ReadAll(st.out)
             y == Read(new)
             w == ReadAll(next.out)
  <2>4. w = x \o y BY <2>2, <1>1, ReadMore
  <2>5. y \in Seq(Spots) /\ Len(y) = n /\ \A i \in 1 .. n : y[i] = <<f.page, f.off + st.skip + i - 1>>
    <3>1. new.page = f.page /\ new.off = f.off + st.skip /\ new.size = n BY DEF Piece
    <3> HIDE DEF new
    <3> QED BY <2>2, <3>1, ReadIs
  <2> HIDE DEF new, n, x, y, w
  <2>6. x \in Seq(Spots) /\ y \in Seq(Spots) BY <1>2, <2>5 DEF x
  <2>7. x \o y \in Seq(Spots) /\ Len(x \o y) = Len(x) + Len(y)
        /\ (\A i \in 1 .. Len(x) : (x \o y)[i] = x[i])
        /\ \A i \in 1 .. Len(y) : (x \o y)[Len(x) + i] = y[i]
    BY <2>6, CatIs
  <2>8. Len(x) = Len(lin) + t /\ (\A i \in 1 .. Len(lin) : x[i] = lin[i])
        /\ \A i \in 1 .. t : x[Len(lin) + i] = row[q + i]
    BY <1>3 DEF Copied, x
  <2>9. w \in Seq(Spots) /\ Len(w) = Len(lin) + u BY <1>2, <1>4, <2>2, <2>3, <2>4, <2>5, <2>7, <2>8
  <2>10. ASSUME NEW i \in 1 .. Len(lin) PROVE w[i] = lin[i]
    <3> i \in 1 .. Len(x) BY <1>2, <1>4, <2>8
    <3> QED BY <2>4, <2>7, <2>8
  <2>11. ASSUME NEW i \in 1 .. u PROVE w[Len(lin) + i] = row[q + i]
    <3>1. CASE i <= t
      <4>1. i \in 1 .. t /\ Len(lin) + i \in 1 .. Len(x) BY <3>1, <1>2, <1>4, <2>8
      <4> QED BY <4>1, <2>4, <2>7, <2>8
    <3>2. CASE i > t
      <4> DEFINE j == i - t
      <4>1. j \in 1 .. n /\ Len(lin) + i = Len(x) + j /\ q + i = p + (st.skip + j)
        <5>1. i \in Nat /\ t \in Nat /\ n \in Nat /\ u = t + n BY <1>4, <2>2, <2>3
        <5>2. i <= u BY <5>1
        <5>3. j \in 1 .. n BY <5>1, <5>2, <3>2
        <5>4. Len(x) = Len(lin) + t BY <2>8
        <5>5. Len(lin) + i = Len(x) + j BY <5>1, <5>4, <1>2
        <5>6. q + t = p + st.skip /\ q \in Nat /\ st.skip \in Nat BY <2>3, <1>1
        <5>7. q + i = p + (st.skip + j) BY <5>6, <5>1
        <5> QED BY <5>3, <5>5, <5>7
      <4>0. j \in Nat /\ 1 <= j /\ j <= n /\ f.size \in Nat /\ f.off \in Nat BY <4>1, <2>2, <1>1 DEF z
      <4>2. st.skip + j \in 1 .. f.size
        <5> st.skip \in Nat /\ n \in Nat /\ n <= f.size - st.skip BY <1>1, <2>2
        <5> HIDE DEF j
        <5> QED BY <4>0
      <4> HIDE DEF j
      <4>3. row[p + (st.skip + j)] = Read(f)[st.skip + j] BY <4>2
      <4>4. Read(f)[st.skip + j] = <<f.page, f.off + (st.skip + j) - 1>> BY <4>2, ReadIs
      <4>5. y[j] = <<f.page, f.off + st.skip + j - 1>> BY <4>1, <2>5
      <4>6. f.off + st.skip + j - 1 = f.off + (st.skip + j) - 1 BY <4>0, <1>1
      <4>7. w[Len(x) + j] = y[j] BY <4>1, <2>4, <2>5, <2>7
      <4> QED BY <4>1, <4>3, <4>4, <4>5, <4>6, <4>7
    <3> QED BY <3>1, <3>2, <1>4
  <2>12. Copied(w, lin, row, q, u) BY <2>9, <2>10, <2>11 DEF Copied
  <2>13. next.left = base.left - u BY <1>1, <1>3, <1>4, <2>2, <2>3
  <2>14. next.skip = IF p + z >= q THEN 0 ELSE q - (p + z) BY <2>2, <2>3
  <2>15. Len(next.out) <= Len(st.out) + 1 BY <2>2, <1>1
  <2> QED BY <1>6, <2>12, <2>13, <2>14, <2>15 DEF w, next, z
<1> QED BY <1>7, <1>8, <1>9 DEF next, z

(* The loop reads on where it began, or the list is full: after the linear *)
(* part and as many fragments as fit, but one.                             *)
LEMMA SgLoop ==
  ASSUME NEW fs \in Seq(SkbFrags), Len(fs) <= MaxFrags, NEW base \in SgStates(SkbFrags),
         Len(base.out) <= 1, base.left = 0 => base.skip = 0,
         base.skip + base.left <= Len(ReadAll(fs)), NEW end, end = FoldLeft(SgTake, base, fs)
  PROVE  /\ end \in SgStates(SkbFrags)
         /\ end.left # 0 => Len(base.out) = 1 /\ Len(fs) = MaxFrags
         /\ end.left = 0 => Copied(ReadAll(end.out), ReadAll(base.out), ReadAll(fs), base.skip, base.left)
<1> DEFINE n == Len(fs)
           row == ReadAll(fs)
<1>1. /\ n \in Nat /\ MaxFrags \in Nat /\ n <= MaxFrags /\ row \in Seq(Spots) /\ Len(row) \in Nat
      /\ base.skip \in Nat /\ base.left \in Nat /\ base.out \in Seq(SkbFrags) /\ Len(base.out) \in Nat
  <2>1. row \in Seq(Spots) BY RowIs
  <2> HIDE DEF row
  <2> QED BY <2>1, SkbAssumption DEF SgStates
<1>2. PICK acc \in [0 .. n -> SgStates(SkbFrags)] : SgTurns(acc, base, fs) /\ end = acc[n]
  BY FragsClosed, SgFold
<1>3. PICK start \in [0 .. n -> Nat] : Laid(fs, start) BY RowIs
<1> DEFINE Good(k) == SgAt(acc[k], base, row, start[k]) /\ Len(acc[k].out) <= Len(base.out) + k
           Full(k) == k = n /\ n = MaxFrags /\ acc[k].left # 0 /\ Len(base.out) = 1
           T == {k \in 0 .. n : Good(k) \/ Full(k)}
<1>4. 0 \in T /\ T \in SUBSET (0 .. n)
  <2>1. 0 \in 0 .. n /\ acc[0] = base /\ start[0] = 0 BY <1>1, <1>2, <1>3 DEF SgTurns, Laid
  <2>2. SoFar(base, 0) = 0 BY <1>1 DEF SoFar
  <2>3. base.skip = IF 0 >= base.skip THEN 0 ELSE base.skip - 0 BY <1>1
  <2>4. Copied(ReadAll(base.out), ReadAll(base.out), row, base.skip, 0)
    <3>1. ReadAll(base.out) \in Seq(Spots) BY <1>1, RowIs
    <3>2. Len(ReadAll(base.out)) \in Nat BY <3>1
    <3> QED BY <3>1, <3>2 DEF Copied
  <2>5. base.left = base.left - 0 BY <1>1
  <2>6. SgAt(base, base, row, 0) BY <2>2, <2>3, <2>4, <2>5 DEF SgAt
  <2>7. Len(base.out) <= Len(base.out) + 0 BY <1>1
  <2>8. Good(0) BY <2>1, <2>6, <2>7
  <2> HIDE DEF Good, Full
  <2> QED BY <2>1, <2>8
<1>5. ASSUME NEW k \in 1 .. n, k - 1 \in T PROVE k \in T
  <2> DEFINE st == acc[k - 1]
             f == fs[k]
             p == start[k - 1]
  <2>1. k \in 0 .. n /\ k - 1 \in 0 .. n /\ k - 1 # n /\ k \in Nat /\ k <= n BY <1>1
  <2>2. Good(k - 1)
    <3>1. Good(k - 1) \/ Full(k - 1) BY <1>5
    <3>2. ~Full(k - 1) BY <2>1
    <3> HIDE DEF Good, Full
    <3> QED BY <3>1, <3>2
  <2>3. SgAt(st, base, row, p) /\ Len(st.out) <= Len(base.out) + (k - 1) BY <2>2
  <2>4. st \in SgStates(SkbFrags) /\ f \in SkbFrags /\ p \in Nat BY <2>1
  <2>5. acc[k] = SgTake(st, f) BY <1>2 DEF SgTurns
  <2>6. /\ start[k] = p + f.size /\ start[k] <= Len(row)
        /\ \A j \in 1 .. f.size : row[p + j] = Read(f)[j]
    BY <1>3 DEF Laid
  <2>8. st.left \in Nat /\ st.skip \in Nat /\ st.out \in Seq(SkbFrags) /\ Len(st.out) \in Nat
    BY <2>4, SMTT(30) DEF SgStates
  <2>9. CASE ~(st.left # 0 /\ st.skip < f.size /\ Len(st.out) >= MaxFrags)
    <3>1. SgAt(SgTake(st, f), base, row, p + f.size) /\ Len(SgTake(st, f).out) <= Len(st.out) + 1
      <4> HIDE DEF st, f, p, row
      <4> QED BY <1>1, <2>3, <2>4, <2>6, <2>9, SgTurn
    <3>2. Len(SgTake(st, f).out) \in Nat
      <4>1. acc[k] \in SgStates(SkbFrags) BY <2>1
      <4> QED BY <4>1, <2>5 DEF SgStates
    <3>3. Len(acc[k].out) <= Len(base.out) + k
      <4>1. Len(base.out) \in Nat BY <1>1
      <4> HIDE DEF st, f
      <4>2. Len(acc[k].out) <= Len(st.out) + 1 /\ Len(acc[k].out) \in Nat BY ONLY <3>1, <3>2, <2>5
      <4>3. Len(st.out) <= Len(base.out) + (k - 1) BY ONLY <2>3
      <4> QED BY ONLY <4>1, <4>2, <4>3, <2>1, <2>8
    <3>4. Good(k) BY <3>1, <3>3, <2>5, <2>6
    <3> HIDE DEF Good, Full
    <3> QED BY <3>4, <2>1
  <2>10. CASE st.left # 0 /\ st.skip < f.size /\ Len(st.out) >= MaxFrags
    <3>1. SgTake(st, f) = st
      <4> HIDE DEF st, f
      <4> QED BY <2>4, <2>10, FragsClosed, SgTakeIs
    <3>2. k = n /\ n = MaxFrags /\ Len(base.out) = 1
      <4>1. ASSUME NEW c \in Nat, NEW m \in Nat, NEW r \in Nat,
                   r <= c + (k - 1), c <= 1, r >= m, n <= m
            PROVE k = n /\ n = m /\ c = 1
        BY <4>1, <2>1, <1>1
      <4> HIDE DEF st, f, n
      <4> QED BY <4>1, <2>3, <2>8, <2>10, <1>1
    <3>3. Full(k) BY <3>1, <3>2, <2>5, <2>10
    <3> HIDE DEF Good, Full
    <3> QED BY <3>3, <2>1
  <2> QED BY <2>9, <2>10
<1>6. Good(n) \/ Full(n)
  <2>1. n \in 0 .. n BY <1>1
  <2>2. T = 0 .. n
    <3> HIDE DEF T, n
    <3> QED BY <1>1, <1>4, <1>5, TurnInd
  <2>3. n \in T BY <2>1, <2>2
  <2> HIDE DEF Good, Full
  <2> QED BY <2>3
<1>7. end \in SgStates(SkbFrags) BY <1>1, <1>2
<1>8. CASE Full(n)
  BY <1>2, <1>7, <1>8
<1>9. CASE Good(n)
  <2>1. start[n] = Len(row) BY <1>3 DEF Laid
  <2>2. SgAt(end, base, row, Len(row)) BY <1>9, <1>2, <2>1
  <2>3. SoFar(base, Len(row)) = base.left
    <3>1. ASSUME NEW q \in Nat, NEW m \in Nat, NEW l \in Nat, q + m <= l
          PROVE (IF l <= q THEN 0 ELSE Least(m, l - q)) = m
      BY <3>1 DEF Least
    <3>2. base.skip + base.left <= Len(row) OBVIOUS
    <3> HIDE DEF row
    <3>3. (IF Len(row) <= base.skip THEN 0 ELSE Least(base.left, Len(row) - base.skip)) = base.left
      BY <1>1, <3>1, <3>2
    <3> QED BY <3>3 DEF SoFar
  <2>4. end.left = 0 BY <2>2, <2>3, <1>1 DEF SgAt
  <2>5. Copied(ReadAll(end.out), ReadAll(base.out), row, base.skip, base.left) BY <2>2, <2>3 DEF SgAt
  <2> QED BY <1>7, <2>4, <2>5
<1> QED BY <1>6, <1>8, <1>9

(* The state skb_to_sgvec begins its loop with, and ends it.               *)
SgBase(b, offset, len) ==
    LET want == Least(len, b.len - offset)
        n    == Least(HeadLen(b) - offset, want)
    IN IF offset < HeadLen(b)
       THEN [skip |-> 0, left |-> want - n, out |-> <<Piece(b.head, b.data + offset, n)>>]
       ELSE [skip |-> offset - HeadLen(b), left |-> want, out |-> <<>>]

SgEnd(b, offset, len) == FoldLeft(SgTake, SgBase(b, offset, len), b.frags)

(* skb_to_sgvec in those terms.                                            *)
LEMMA SgvecIs ==
  ASSUME NEW b, NEW offset, NEW len
  PROVE  skb_to_sgvec(b, offset, len) =
           IF SgEnd(b, offset, len).left = 0
              /\ (offset < HeadLen(b) => virt_to_head_page(b.head, b.data + offset) # None)
           THEN SgEnd(b, offset, len).out ELSE <<>>
BY DEF skb_to_sgvec, SgEnd, SgBase

(* Where it begins: with the linear bytes, if any are asked for.           *)
SgBegins(b, o, want, n, base) ==
    /\ o < HeadLen(b) =>
         /\ n \in Nat /\ n > 0 /\ n <= want /\ n <= HeadLen(b) - o
         /\ (n < want => n = HeadLen(b) - o)
         /\ base.skip = 0 /\ base.left = want - n
         /\ base.out = <<Piece(b.head, b.data + o, n)>>
         /\ Piece(b.head, b.data + o, n) \in SkbFrags
    /\ ~(o < HeadLen(b)) =>
         base.skip = o - HeadLen(b) /\ base.left = want /\ base.out = <<>>

(* How the list begins, for an offset inside the buffer.                   *)
LEMMA SgBaseIs ==
  ASSUME NEW b \in SkBuffs, NEW o \in 0 .. (b.len - 1), NEW len \in Nat, len > 0,
         NEW want, want = Least(len, b.len - o), NEW base, base = SgBase(b, o, len)
  PROVE  /\ want \in Nat /\ want > 0 /\ want <= b.len - o /\ base \in SgStates(SkbFrags)
         /\ SgBegins(b, o, want, Least(HeadLen(b) - o, want), base)
<1> DEFINE h == HeadLen(b)
           n == Least(h - o, want)
           new == Piece(b.head, b.data + o, n)
           x == [skip |-> 0, left |-> want - n, out |-> <<new>>]
           y == [skip |-> o - h, left |-> want, out |-> <<>>]
<1>1. b.head \in Pages /\ b.data \in Nat /\ b.len \in Nat /\ h \in Nat /\ o \in Nat /\ o < b.len
  BY FieldsOf
<1>2. want \in Nat /\ want > 0 /\ want <= b.len - o BY <1>1 DEF Least
<1>3. base = IF o < h THEN x ELSE y BY DEF SgBase
<1> HIDE DEF h
<1>4. CASE o < h
  <2>1. n \in Nat /\ n > 0 /\ n <= want /\ n <= h - o /\ (n < want => n = h - o)
    BY <1>1, <1>2, <1>4 DEF Least
  <2>2. new \in SkbFrags
    <3> HIDE DEF n
    <3> QED BY <1>1, <2>1 DEF Piece, SkbFrags
  <2> HIDE DEF n, new
  <2>3. x \in SgStates(SkbFrags) /\ x.skip = 0 /\ x.left = want - n /\ x.out = <<new>>
    BY <1>2, <2>1, <2>2 DEF SgStates
  <2> HIDE DEF x
  <2>4. base = x BY <1>3, <1>4
  <2> QED BY <1>2, <1>4, <2>1, <2>2, <2>3, <2>4 DEF h, n, new, SgBegins
<1>5. CASE ~(o < h)
  <2>1. y \in SgStates(SkbFrags) /\ y.skip = o - h /\ y.left = want /\ y.out = <<>>
    BY <1>1, <1>2, <1>5 DEF SgStates
  <2> HIDE DEF y
  <2>2. base = y BY <1>3, <1>5
  <2> QED BY <1>2, <1>5, <2>1, <2>2 DEF h, SgBegins
<1> QED BY <1>4, <1>5

(* Byte by byte.                                                           *)
LEMMA StringParts ==
  ASSUME NEW b \in SkBuffs, b.dlen <= b.len, b.dlen <= Len(ReadAll(b.frags))
  PROVE  /\ StringOf(b) \in Seq(Spots) /\ Len(StringOf(b)) = b.len
         /\ \A i \in 1 .. HeadLen(b) : StringOf(b)[i] = <<b.head, b.data + i - 1>>
         /\ \A i \in 1 .. b.dlen : StringOf(b)[HeadLen(b) + i] = ReadAll(b.frags)[i]
<1> DEFINE row == ReadAll(b.frags)
           h == HeadLen(b)
           d == b.dlen
           x == Places(b.head, b.data, h)
           y == SubSeq(row, 1, d)
<1>1. b.head \in Pages /\ b.data \in Nat /\ b.len \in Nat /\ d \in Nat /\ h \in Nat /\ h = b.len - d
      /\ b.frags \in Seq(SkbFrags)
  BY FieldsOf
<1>2. row \in Seq(Spots) BY <1>1, RowIs
<1>3. d \in 0 .. Len(row) BY <1>1, <1>2
<1> HIDE DEF row, h, d
<1>4. y \in Seq(Spots) /\ Len(y) = d /\ \A i \in 1 .. d : y[i] = row[i] BY <1>2, <1>3, PrefixIs
<1>5. x \in Seq(Spots) /\ Len(x) = h /\ \A i \in 1 .. h : x[i] = <<b.head, b.data + i - 1>>
  BY <1>1, PlacesAre
<1>6. StringOf(b) = x \o y BY DEF StringOf, h, d, row
<1> HIDE DEF x, y
<1>9. x \in Seq(Spots) /\ y \in Seq(Spots) BY <1>4, <1>5
<1>7. x \o y \in Seq(Spots) /\ Len(x \o y) = Len(x) + Len(y)
      /\ (\A i \in 1 .. Len(x) : (x \o y)[i] = x[i])
      /\ \A i \in 1 .. Len(y) : (x \o y)[Len(x) + i] = y[i]
  BY <1>9, CatIs
<1>8. Len(x \o y) = b.len BY <1>1, <1>4, <1>5, <1>7
<1> QED BY <1>4, <1>5, <1>6, <1>7, <1>8 DEF h, d, row

(* What an empty list and a list of one entry read.                        *)
LEMMA ReadFew ==
  /\ ReadAll(<<>>) = <<>>
  /\ \A f \in SkbFrags : ReadAll(<<f>>) = Read(f)
<1>1. ReadAll(<<>>) = <<>>
  <2>1. <<>> \in Seq(SkbFrags) OBVIOUS
  <2>2. PICK start \in [0 .. Len(<<>>) -> Nat] : Laid(<<>>, start) BY <2>1, RowIs
  <2>3. ReadAll(<<>>) \in Seq(Spots) BY <2>1, RowIs
  <2>4. Len(ReadAll(<<>>)) = 0 BY <2>2 DEF Laid
  <2> QED BY <2>3, <2>4
<1>2. ASSUME NEW f \in SkbFrags PROVE ReadAll(<<f>>) = Read(f)
  <2>1. <<>> \in Seq(SkbFrags) /\ Append(<<>>, f) = <<f>> OBVIOUS
  <2>2. ReadAll(<<f>>) = <<>> \o Read(f) BY <1>1, <2>1, ReadMore
  <2>3. Read(f) \in Seq(Spots) BY ReadIs
  <2> HIDE DEF Read
  <2> QED BY <2>2, <2>3
<1> QED BY <1>1, <1>2

(* skb_to_sgvec lists the bytes it is asked for, or none.                  *)
LEMMA SgvecReads ==
  ASSUME NEW b \in SkBuffs, b.dlen <= b.len, b.dlen <= Len(ReadAll(b.frags)), Len(b.frags) <= MaxFrags,
         NEW o \in 0 .. (b.len - 1), NEW len \in Nat, len > 0,
         o < HeadLen(b) => virt_to_head_page(b.head, b.data + o) # None,
         NEW v, v = skb_to_sgvec(b, o, len)
  PROVE  IF v = <<>> THEN HeadLen(b) > 0 /\ Len(b.frags) = MaxFrags
         ELSE ReadAll(v) = SubSeq(StringOf(b), o + 1, Least(o + len, b.len))
<1> DEFINE row == ReadAll(b.frags)
           h == HeadLen(b)
           d == b.dlen
           want == Least(len, b.len - o)
           n == Least(h - o, want)
           new == Piece(b.head, b.data + o, n)
           base == SgBase(b, o, len)
           end == SgEnd(b, o, len)
           string1 == StringOf(b)
<1>1. /\ b.head \in Pages /\ b.data \in Nat /\ b.len \in Nat /\ d \in Nat /\ h \in Nat /\ h = b.len - d
      /\ b.frags \in Seq(SkbFrags) /\ o \in Nat /\ d <= Len(row) /\ MaxFrags \in Nat
  BY FieldsOf, SkbAssumption
<1>2. /\ want \in Nat /\ want > 0 /\ want <= b.len - o /\ base \in SgStates(SkbFrags)
      /\ o < h => /\ n \in Nat /\ n > 0 /\ n <= want /\ n <= h - o
                  /\ (n < want => n = h - o)
                  /\ base.skip = 0 /\ base.left = want - n
                  /\ base.out = <<new>> /\ new \in SkbFrags
      /\ ~(o < h) => base.skip = o - h /\ base.left = want /\ base.out = <<>>
  <2>1. base = SgBase(b, o, len) /\ want = Least(len, b.len - o) OBVIOUS
  <2> HIDE DEF base, want
  <2>2. /\ want \in Nat /\ want > 0 /\ want <= b.len - o /\ base \in SgStates(SkbFrags)
        /\ SgBegins(b, o, want, Least(HeadLen(b) - o, want), base)
    BY <2>1, SgBaseIs
  <2> QED BY <2>2 DEF SgBegins
<1>3. /\ string1 \in Seq(Spots) /\ Len(string1) = b.len
      /\ \A i \in 1 .. h : string1[i] = <<b.head, b.data + i - 1>>
      /\ \A i \in 1 .. d : string1[h + i] = row[i]
  BY StringParts
<1>4. row \in Seq(Spots) /\ Len(row) \in Nat
  <2> row \in Seq(Spots) BY <1>1, RowIs
  <2> HIDE DEF row
  <2> QED OBVIOUS
<1> DEFINE lin == ReadAll(base.out)
           m == IF o < h THEN n ELSE 0
<1>5. /\ m \in Nat /\ base.left = want - m /\ base.left \in Nat /\ base.skip \in Nat
      /\ base.skip + base.left <= d /\ (base.left = 0 => base.skip = 0)
      /\ (base.left > 0 => o + m = h + base.skip)
      /\ m <= want /\ (o < h => o + m <= h)
  <2> HIDE DEF base, h, d, want, n
  <2>1. base.skip \in Nat /\ base.left \in Nat BY <1>2 DEF SgStates
  <2>2. CASE o < h
    <3>1. m = n /\ n \in Nat /\ n > 0 /\ n <= want /\ n <= h - o /\ (n < want => n = h - o)
          /\ base.skip = 0 /\ base.left = want - n
      BY <2>2, <1>2
    <3>2. CASE n = want
      <4> base.left = 0 BY <3>1, <3>2, <1>2
      <4>1. o \in Nat /\ h \in Nat /\ d \in Nat BY <1>1
      <4>2. o + n <= h BY ONLY <4>1, <3>1
      <4>3. base.left = want - m /\ m \in Nat /\ m <= want /\ o + m <= h /\ base.left = 0 /\ base.skip = 0
        BY ONLY <3>1, <3>2, <4>2
      <4> HIDE DEF m
      <4> QED BY ONLY <4>3, <4>1
    <3>3. CASE n # want
      <4>7. want \in Nat /\ want <= b.len - o BY <1>2
      <4>8. o \in Nat /\ h \in Nat /\ d \in Nat /\ b.len = h + d BY <1>1
      <4>1. n = h - o BY ONLY <3>1, <3>3, <4>7
      <4>2. want - n <= d BY ONLY <4>1, <4>7, <4>8
      <4>3. m = n /\ base.skip = 0 /\ base.left = want - n BY <3>1
      <4>4. o + n = h BY ONLY <4>1, <4>8
      <4> HIDE DEF m
      <4>5. m \in Nat /\ m <= want /\ base.left <= d /\ base.skip + base.left <= d /\ o + m = h + base.skip
        BY ONLY <3>1, <4>2, <4>3, <4>4, <4>7, <4>8, <2>1
      <4>6. (base.left = 0 => base.skip = 0) /\ o + m <= h BY ONLY <4>3, <4>4, <4>8
      <4> QED BY <4>3, <4>5, <4>6, <2>1, <2>2
    <3> QED BY <3>2, <3>3
  <2>3. CASE ~(o < h)
    <3>1. m = 0 /\ base.skip = o - h /\ base.left = want BY <2>3, <1>2
    <3>4. want \in Nat /\ want > 0 /\ want <= b.len - o BY <1>2
    <3>5. /\ o \in Nat /\ h \in Nat /\ d \in Nat /\ b.len \in Nat /\ h = b.len - d BY <1>1
    <3>2. o - h + want <= d BY ONLY <3>4, <3>5
    <3>3. h + (o - h) = o BY <1>1
    <3> HIDE DEF m
    <3> QED BY ONLY <3>1, <3>2, <3>3, <3>4, <3>5, <2>1, <2>3
  <2> QED BY <2>2, <2>3
<1>6. /\ lin \in Seq(Spots) /\ Len(lin) = m /\ Len(base.out) = (IF o < h THEN 1 ELSE 0)
      /\ \A i \in 1 .. m : lin[i] = <<b.head, b.data + o + i - 1>>
  <2>1. CASE o < h
    <3>1. new \in SkbFrags /\ new.page = b.head /\ new.off = b.data + o /\ new.size = n
      BY <1>2, <2>1 DEF Piece
    <3>2. base.out = <<new>> BY <1>2, <2>1
    <3> HIDE DEF base, new, n, h
    <3>3. lin = Read(new) /\ Len(base.out) = 1 BY <3>1, <3>2, ReadFew
    <3>4. Read(new) \in Seq(Spots) /\ Len(Read(new)) = n
          /\ \A i \in 1 .. n : Read(new)[i] = <<b.head, b.data + o + i - 1>>
      BY <3>1, ReadIs
    <3>5. m = n BY <2>1
    <3> HIDE DEF lin, m
    <3> QED BY <3>3, <3>4, <3>5, <2>1
  <2>2. CASE ~(o < h)
    <3>1. base.out = <<>> /\ m = 0 BY <1>2, <2>2
    <3> HIDE DEF base, m, h
    <3>2. lin = <<>> BY <3>1, ReadFew
    <3> HIDE DEF lin
    <3> QED BY <3>1, <3>2, <2>2
  <2> QED BY <2>1, <2>2
<1>7. /\ end \in SgStates(SkbFrags)
      /\ end.left # 0 => Len(base.out) = 1 /\ Len(b.frags) = MaxFrags
      /\ end.left = 0 => Copied(ReadAll(end.out), lin, row, base.skip, base.left)
  <2>1. Len(base.out) <= 1 BY <1>6
  <2>2. end = FoldLeft(SgTake, base, b.frags) BY DEF SgEnd
  <2>3. base \in SgStates(SkbFrags) /\ (base.left = 0 => base.skip = 0) BY <1>2, <1>5
  <2>4. base.skip + base.left <= Len(row) BY <1>1, <1>4, <1>5
  <2> HIDE DEF end, base
  <2> QED BY <1>1, <2>1, <2>2, <2>3, <2>4, SgLoop
<1>8. v = IF end.left = 0 THEN end.out ELSE <<>> BY SgvecIs
<1>9. CASE end.left # 0
  <2>1. o < h BY <1>6, <1>7, <1>9
  <2>2. v = <<>> /\ Len(b.frags) = MaxFrags BY <1>7, <1>8, <1>9
  <2> QED BY <2>1, <2>2, <1>1
<1>10. CASE end.left = 0
  <2> DEFINE a == ReadAll(v)
             y == SubSeq(string1, o + 1, o + want)
  <2>1. v = end.out BY <1>8, <1>10
  <2>2. a \in Seq(Spots) /\ Len(a) = m + base.left
        /\ (\A i \in 1 .. m : a[i] = lin[i])
        /\ \A i \in 1 .. base.left : a[m + i] = row[base.skip + i]
    <3> HIDE DEF end, base, lin, m
    <3> QED BY <2>1, <1>6, <1>7, <1>10 DEF Copied
  <2> HIDE DEF a, base, end, lin, m, row, h, d, string1, want
  <2>3. Len(a) = want BY <2>2, <1>2, <1>5
  <2>4. v # <<>>
    <3> SUFFICES ASSUME v = <<>> PROVE FALSE OBVIOUS
    <3> a = <<>> BY ReadFew DEF a
    <3> QED BY <2>3, <1>2
  <2>5. y \in Seq(Spots) /\ Len(y) = want /\ \A i \in 1 .. want : y[i] = string1[o + i]
    <3>1. o + want <= Len(string1) BY <1>1, <1>2, <1>3
    <3>2. string1 \in Seq(Spots) /\ o \in Nat /\ want \in Nat BY <1>1, <1>2, <1>3
    <3> QED BY <3>1, <3>2, PartIs
  <2> HIDE DEF y
  <2>6. ASSUME NEW i \in 1 .. want PROVE a[i] = y[i]
    <3>1. CASE i <= m
      <4>1. i \in 1 .. m BY <3>1, <1>5
      <4>2. o < h
        <5> m > 0 BY <4>1, <1>5
        <5> QED BY DEF m
      <4>3. o + i \in 1 .. h BY <4>1, <4>2, <1>1, <1>5
      <4>4. string1[o + i] = <<b.head, b.data + (o + i) - 1>> BY <4>3, <1>3
      <4>5. b.data + (o + i) - 1 = b.data + o + i - 1 BY <1>1
      <4>6. a[i] = <<b.head, b.data + o + i - 1>> BY <4>1, <2>2, <1>6
      <4> QED BY <4>4, <4>5, <4>6, <2>5
    <3>2. CASE i > m
      <4> DEFINE j == i - m
      <4>1. j \in 1 .. base.left /\ i = m + j /\ base.left > 0 BY <3>2, <1>2, <1>5
      <4>2. j \in Nat /\ 1 <= j /\ j <= base.left BY <4>1, <1>5
      <4> HIDE DEF j
      <4>7. base.skip \in Nat /\ base.left \in Nat /\ base.skip + base.left <= d /\ d \in Nat BY <1>1, <1>5
      <4>3. base.skip + j \in 1 .. d BY <4>2, <4>7
      <4>4. o + i = h + (base.skip + j)
        <5>1. o + m = h + base.skip BY <4>1, <1>5
        <5>2. m \in Nat /\ h \in Nat /\ o \in Nat BY <1>1, <1>5
        <5>3. i = m + j BY <4>1
        <5> QED BY ONLY <5>1, <5>2, <5>3, <4>2, <4>7
      <4>5. string1[h + (base.skip + j)] = row[base.skip + j] BY <4>3, <1>3
      <4>6. a[m + j] = row[base.skip + j] BY <4>1, <2>2
      <4> QED BY <4>1, <4>4, <4>5, <4>6, <2>5
    <3> QED BY <3>1, <3>2, <1>5
  <2>7. a = y BY <2>2, <2>3, <2>5, <2>6, SeqEqual
  <2>8. o + want = Least(o + len, b.len)
    <3>1. ASSUME NEW l \in Nat PROVE o + Least(len, l - o) = Least(o + len, l)
      BY <3>1, <1>1 DEF Least
    <3> QED BY <3>1, <1>1 DEF want
  <2> QED BY <2>4, <2>7, <2>8 DEF a, y, string1
<1> QED BY <1>9, <1>10, <1>7

(***************************************************************************)
(* A buffer in its pages, and what its string says of it.                  *)
(***************************************************************************)

(* A buffer stays inside pages of these sizes.                             *)
Bounded(b, sizes) ==
    /\ b.tail <= b.end /\ b.end <= sizes[b.head]
    /\ \A i \in DOMAIN b.frags : b.frags[i].off + b.frags[i].size <= sizes[b.frags[i].page]
    /\ b.dlen <= b.len => b.data + (b.len - b.dlen) <= b.tail

(* A sequence of places is the string of a buffer: byte by byte.           *)
Spells(z, b) ==
    /\ z \in Seq(Spots) /\ Len(z) = b.len
    /\ \A i \in 1 .. HeadLen(b) : z[i] = <<b.head, b.data + i - 1>>
    /\ \A i \in 1 .. b.dlen : z[HeadLen(b) + i] = ReadAll(b.frags)[i]

StringIs(b, z) ==
    /\ lcompat_skb_valid_bounds(b) /\ b.tail = b.data + HeadLen(b)
    /\ b.dlen <= Len(ReadAll(b.frags)) /\ Spells(z, b)

Bounds == \A s \in Skbs : Live(s) => Bounded(skb[s], psize)
Strings ==
    /\ string = [s \in Skbs |-> string[s]]
    /\ \A s \in Skbs : Live(s) /\ string[s] # Lost => StringIs(skb[s], string[s])

BytesInv == SkbInv /\ Bounds /\ Strings

(* What spells a buffer is its string.                                     *)
LEMMA SpellsOne ==
  ASSUME NEW b \in SkBuffs, b.dlen <= b.len, b.dlen <= Len(ReadAll(b.frags)), NEW z, Spells(z, b)
  PROVE  z = StringOf(b)
<1> DEFINE x == StringOf(b)
           h == HeadLen(b)
<1>1. h \in Nat /\ b.dlen \in Nat /\ b.len \in Nat /\ h = b.len - b.dlen BY FieldsOf
<1>2. /\ x \in Seq(Spots) /\ Len(x) = b.len
      /\ \A i \in 1 .. h : x[i] = <<b.head, b.data + i - 1>>
      /\ \A i \in 1 .. b.dlen : x[h + i] = ReadAll(b.frags)[i]
  BY StringParts
<1>3. /\ z \in Seq(Spots) /\ Len(z) = b.len
      /\ \A i \in 1 .. h : z[i] = <<b.head, b.data + i - 1>>
      /\ \A i \in 1 .. b.dlen : z[h + i] = ReadAll(b.frags)[i]
  BY DEF Spells
<1> HIDE DEF x, h
<1>4. ASSUME NEW i \in 1 .. b.len PROVE z[i] = x[i]
  <2>1. CASE i <= h
    <3> i \in 1 .. h BY <2>1, <1>1
    <3> QED BY <1>2, <1>3
  <2>2. CASE i > h
    <3> DEFINE j == i - h
    <3>1. i \in Nat /\ i <= b.len /\ h \in Nat /\ b.dlen \in Nat /\ h = b.len - b.dlen /\ b.len \in Nat BY <1>1
    <3>2. j \in Nat /\ j > 0 /\ j <= b.dlen /\ i = h + j BY <3>1, <2>2
    <3> HIDE DEF j
    <3>3. j \in 1 .. b.dlen BY <3>1, <3>2
    <3>4. z[h + j] = ReadAll(b.frags)[j] /\ x[h + j] = ReadAll(b.frags)[j] BY <3>3, <1>2, <1>3
    <3> QED BY <3>2, <3>4
  <2> QED BY <2>1, <2>2, <1>1
<1> QED BY <1>2, <1>3, <1>4, SeqEqual DEF x

(* A page that a buffer uses is counted.                                   *)
UsesPage(b, q) == b.head = q \/ \E i \in DOMAIN b.frags : b.frags[i].page = q

(* It is among the users of the page.                                      *)
LEMMA UserCounted ==
  ASSUME NEW f \in [Skbs -> SkBuffs \cup {None}], NEW s \in Skbs, f[s] # None, NEW q,
         Len(f[s].frags) <= MaxFrags, UsesPage(f[s], q)
  PROVE  /\ Cardinality(HeadsIn(f, q)) \in Nat /\ Cardinality(FragsIn(f, q)) \in Nat
         /\ Cardinality(HeadsIn(f, q)) + Cardinality(FragsIn(f, q)) > 0
<1>1. /\ IsFiniteSet(HeadsIn(f, q)) /\ IsFiniteSet(FragsIn(f, q))
      /\ Cardinality(HeadsIn(f, q)) \in Nat /\ Cardinality(FragsIn(f, q)) \in Nat
  BY UsersFinite
<1>2. CASE f[s].head = q
  <2> s \in HeadsIn(f, q) BY <1>2 DEF HeadsIn
  <2> Cardinality(HeadsIn(f, q)) # 0 BY <1>1, FS_EmptySet
  <2> QED BY <1>1
<1>3. ASSUME NEW i \in DOMAIN f[s].frags, f[s].frags[i].page = q
      PROVE Cardinality(FragsIn(f, q)) # 0
  <2>1. f[s] \in SkBuffs OBVIOUS
  <2>2. f[s].frags \in Seq(SkbFrags) BY <2>1, FieldsOf
  <2>3. i \in 1 .. MaxFrags /\ i <= Len(f[s].frags) BY <2>2, SkbAssumption
  <2>4. <<s, i>> \in FragsIn(f, q) BY <2>3, <1>3 DEF FragsIn
  <2> QED BY <2>4, <1>1, FS_EmptySet
<1> QED BY <1>1, <1>2, <1>3 DEF UsesPage

(* So the page has a reference.                                            *)
LEMMA UsedPage ==
  ASSUME SkbInv, NEW s \in Skbs, Live(s), NEW q \in Pages, UsesPage(skb[s], q)
  PROVE  refs[q] > 0
<1>1. refs[q] = held[q] + Cardinality(HeadsIn(skb, q)) + Cardinality(FragsIn(skb, q))
  BY RefsByUse DEF SkbInv
<1>2. skb \in [Skbs -> SkBuffs \cup {None}] /\ skb[s] # None /\ Len(skb[s].frags) <= MaxFrags /\ held[q] \in Nat
  BY DEF SkbInv, SkbTypeOK, Live
<1>3. /\ Cardinality(HeadsIn(skb, q)) \in Nat /\ Cardinality(FragsIn(skb, q)) \in Nat
      /\ Cardinality(HeadsIn(skb, q)) + Cardinality(FragsIn(skb, q)) > 0
  BY <1>2, UserCounted
<1> QED BY <1>1, <1>2, <1>3

(* The same, of the next state.                                            *)
LEMMA UsedPageNext ==
  ASSUME SkbInv', NEW s \in Skbs, skb'[s] # None, NEW q \in Pages, UsesPage(skb'[s], q)
  PROVE  refs'[q] > 0
<1>1. refs'[q] = held'[q] + Cardinality(HeadsIn(skb', q)) + Cardinality(FragsIn(skb', q))
  BY RefsByUseNext DEF SkbInv
<1>2. skb' \in [Skbs -> SkBuffs \cup {None}] /\ Len(skb'[s].frags) <= MaxFrags /\ held'[q] \in Nat
  BY DEF SkbInv, SkbTypeOK, Live
<1>3. /\ Cardinality(HeadsIn(skb', q)) \in Nat /\ Cardinality(FragsIn(skb', q)) \in Nat
      /\ Cardinality(HeadsIn(skb', q)) + Cardinality(FragsIn(skb', q)) > 0
  BY <1>2, UserCounted
<1> QED BY <1>1, <1>2, <1>3

(* A page that is in use before and after a step keeps its size.           *)
SizesKept == \A q \in Pages : (refs[q] > 0 /\ refs'[q] > 0) => psize'[q] = psize[q]

(* So it is whatever pages a step puts or allocates.                       *)
LEMMA SizesKeptBy ==
  ASSUME NEW pages, NEW q, NEW size,
         PutPages(pages) \/ AllocThenPut(q, size, pages) \/ UNCHANGED psize
  PROVE  SizesKept
<1>1. CASE PutPages(pages) BY <1>1 DEF PutPages, SizesKept
<1>2. CASE AllocThenPut(q, size, pages)
  <2> SUFFICES ASSUME NEW p \in Pages, refs[p] > 0, refs'[p] > 0 PROVE psize'[p] = psize[p]
    BY DEF SizesKept
  <2>1. p # q BY <1>2 DEF AllocThenPut
  <2> QED BY <1>2, <2>1 DEF AllocThenPut
<1>3. CASE UNCHANGED psize BY <1>3 DEF SizesKept
<1> QED BY <1>1, <1>2, <1>3

(* A buffer that keeps a fragment keeps it inside its page.                *)
LEMMA FragsInside ==
  ASSUME BytesInv, SkbInv', SizesKept, NEW s \in Skbs, Live(s), NEW t \in Skbs, skb'[t] # None,
         skb'[t].frags = skb[s].frags \/ skb'[t].frags = <<>>
  PROVE  \A i \in DOMAIN skb'[t].frags :
            skb'[t].frags[i].off + skb'[t].frags[i].size <= psize'[skb'[t].frags[i].page]
<1> SUFFICES ASSUME NEW i \in DOMAIN skb[s].frags, skb'[t].frags = skb[s].frags
             PROVE skb[s].frags[i].off + skb[s].frags[i].size <= psize'[skb[s].frags[i].page]
  OBVIOUS
<1> DEFINE q == skb[s].frags[i].page
<1>1. q \in Pages
  <2>1. skb[s].frags \in Seq(SkbFrags) BY BufferParts DEF BytesInv
  <2>2. skb[s].frags[i] \in SkbFrags BY <2>1
  <2> QED BY <2>2 DEF SkbFrags
<1>2. UsesPage(skb[s], q) /\ UsesPage(skb'[t], q) BY DEF UsesPage
<1>3. refs[q] > 0 BY <1>1, <1>2, UsedPage DEF BytesInv
<1>4. refs'[q] > 0 BY <1>1, <1>2, UsedPageNext
<1>5. psize'[q] = psize[q] BY <1>1, <1>3, <1>4 DEF SizesKept
<1>6. skb[s].frags[i].off + skb[s].frags[i].size <= psize[q] BY DEF BytesInv, Bounds, Bounded
<1> QED BY <1>5, <1>6

(* A head page too.                                                        *)
LEMMA HeadKept ==
  ASSUME BytesInv, SkbInv', SizesKept, NEW s \in Skbs, Live(s), skb'[s] # None, skb'[s].head = skb[s].head
  PROVE  psize'[skb[s].head] = psize[skb[s].head]
<1> DEFINE q == skb[s].head
<1>1. q \in Pages BY BufferParts DEF BytesInv
<1>2. UsesPage(skb[s], q) /\ UsesPage(skb'[s], q) BY DEF UsesPage
<1>3. refs[q] > 0 BY <1>1, <1>2, UsedPage DEF BytesInv
<1>4. refs'[q] > 0 BY <1>1, <1>2, UsedPageNext
<1> QED BY <1>1, <1>3, <1>4 DEF SizesKept

(* A step that changes one buffer keeps the invariant if what it makes of  *)
(* the buffer agrees with what it makes of its string.                     *)
LEMMA BytesStep ==
  ASSUME BytesInv, SkbInv', SizesKept, NEW s \in Skbs, NEW b, NEW z,
         Becomes(s, b), string' = [string EXCEPT ![s] = z],
         b # None => Bounded(b, psize') /\ (z # Lost => StringIs(b, z))
  PROVE  BytesInv'
<1>1. /\ skb'[s] = b /\ \A t \in Skbs : t # s => skb'[t] = skb[t]
  BY DEF BytesInv, SkbInv, SkbTypeOK, Becomes
<1>2. string' = [t \in Skbs |-> string'[t]] /\ string'[s] = z /\ \A t \in Skbs : t # s => string'[t] = string[t]
  BY DEF BytesInv, Strings
<1>3. ASSUME NEW t \in Skbs, skb'[t] # None PROVE Bounded(skb'[t], psize')
  <2>1. CASE t = s BY <2>1, <1>1, <1>3
  <2>2. CASE t # s
    <3>1. skb'[t] = skb[t] /\ Live(t) BY <2>2, <1>1, <1>3 DEF Live
    <3>2. Bounded(skb[t], psize) BY <3>1 DEF BytesInv, Bounds
    <3>3. \A i \in DOMAIN skb'[t].frags :
            skb'[t].frags[i].off + skb'[t].frags[i].size <= psize'[skb'[t].frags[i].page]
      BY <3>1, <1>3, FragsInside
    <3>4. psize'[skb[t].head] = psize[skb[t].head] BY <3>1, <1>3, HeadKept
    <3> QED BY <3>1, <3>2, <3>3, <3>4 DEF Bounded
  <2> QED BY <2>1, <2>2
<1>4. ASSUME NEW t \in Skbs, skb'[t] # None, string'[t] # Lost PROVE StringIs(skb'[t], string'[t])
  <2>1. CASE t = s BY <2>1, <1>1, <1>2, <1>4
  <2>2. CASE t # s
    <3>1. skb'[t] = skb[t] /\ Live(t) /\ string'[t] = string[t] BY <2>2, <1>1, <1>2, <1>4 DEF Live
    <3> QED BY <3>1, <1>4 DEF BytesInv, Strings
  <2> QED BY <2>1, <2>2
<1>5. Bounds' BY <1>3 DEF Bounds, Live
<1>6. Strings' BY <1>2, <1>4 DEF Strings, Live
<1> QED BY <1>5, <1>6 DEF BytesInv

(* Steps of the drivers change no buffer.                                  *)
LEMMA BytesPages ==
  ASSUME BytesInv, SkbInv', SizesKept, UNCHANGED <<skb, string>>
  PROVE  BytesInv'
<1>1. ASSUME NEW t \in Skbs, skb'[t] # None PROVE Bounded(skb'[t], psize')
  <2>1. skb'[t] = skb[t] /\ Live(t) BY <1>1 DEF Live
  <2>2. Bounded(skb[t], psize) BY <2>1 DEF BytesInv, Bounds
  <2>3. \A i \in DOMAIN skb'[t].frags :
          skb'[t].frags[i].off + skb'[t].frags[i].size <= psize'[skb'[t].frags[i].page]
    BY <2>1, <1>1, FragsInside
  <2>4. psize'[skb[t].head] = psize[skb[t].head] BY <2>1, <1>1, HeadKept
  <2> QED BY <2>1, <2>2, <2>3, <2>4 DEF Bounded
<1>2. Bounds' BY <1>1 DEF Bounds, Live
<1>3. Strings' BY DEF BytesInv, Strings, Live
<1> QED BY <1>2, <1>3 DEF BytesInv

(***************************************************************************)
(* What each operation makes of the string.                                *)
(***************************************************************************)

(* What a string says of its buffer, in numbers and bytes.                 *)
LEMMA StringKnown ==
  ASSUME NEW c \in SkBuffs, NEW z, StringIs(c, z), NEW h, h = HeadLen(c)
  PROVE  /\ h \in Nat /\ c.len = h + c.dlen /\ c.tail = c.data + h /\ c.tail <= c.end
         /\ c.head \in Pages /\ c.data \in Nat /\ c.len \in Nat /\ c.dlen \in Nat /\ c.tail \in Nat /\ c.end \in Nat
         /\ ReadAll(c.frags) \in Seq(Spots) /\ Len(ReadAll(c.frags)) \in Nat
         /\ c.dlen <= Len(ReadAll(c.frags))
         /\ z \in Seq(Spots) /\ Len(z) = c.len
         /\ \A i \in 1 .. h : z[i] = <<c.head, c.data + i - 1>>
         /\ \A i \in 1 .. c.dlen : z[h + i] = ReadAll(c.frags)[i]
<1>1. /\ lcompat_skb_valid_bounds(c) /\ c.tail = c.data + h /\ c.dlen <= Len(ReadAll(c.frags))
      /\ Spells(z, c)
  BY DEF StringIs
<1>2. /\ c.head \in Pages /\ c.data \in Nat /\ c.len \in Nat /\ c.dlen \in Nat /\ c.tail \in Nat /\ c.end \in Nat
      /\ c.frags \in Seq(SkbFrags) /\ h \in Nat /\ (c.dlen <= c.len => h = c.len - c.dlen)
  BY FieldsOf
<1>3. c.dlen <= c.len /\ c.tail <= c.end BY <1>1 DEF lcompat_skb_valid_bounds
<1>4. ReadAll(c.frags) \in Seq(Spots) BY <1>2, RowIs
<1>5. Len(ReadAll(c.frags)) \in Nat BY <1>4
<1>6. c.len = h + c.dlen BY <1>2, <1>3
<1>7. /\ z \in Seq(Spots) /\ Len(z) = c.len
      /\ \A i \in 1 .. h : z[i] = <<c.head, c.data + i - 1>>
      /\ \A i \in 1 .. c.dlen : z[h + i] = ReadAll(c.frags)[i]
  BY <1>1 DEF Spells
<1> QED BY <1>1, <1>2, <1>3, <1>4, <1>5, <1>6, <1>7

(* And what makes a sequence of places the string of a buffer.             *)
LEMMA StringMade ==
  ASSUME NEW b \in SkBuffs, NEW z, NEW h \in Nat,
         b.len = h + b.dlen, b.tail = b.data + h, b.tail <= b.end, b.dlen <= Len(ReadAll(b.frags)),
         z \in Seq(Spots), Len(z) = b.len,
         \A i \in 1 .. h : z[i] = <<b.head, b.data + i - 1>>,
         \A i \in 1 .. b.dlen : z[h + i] = ReadAll(b.frags)[i]
  PROVE  StringIs(b, z)
<1>1. /\ b.data \in Nat /\ b.len \in Nat /\ b.dlen \in Nat /\ b.tail \in Nat /\ b.end \in Nat
      /\ (b.dlen <= b.len => HeadLen(b) = b.len - b.dlen)
  BY FieldsOf
<1>2. b.dlen <= b.len /\ h = b.len - b.dlen BY <1>1
<1>3. HeadLen(b) = h BY <1>1, <1>2
<1>4. lcompat_skb_valid_bounds(b)
  <2>1. b.data <= b.tail /\ b.data <= b.end /\ h <= b.end - b.data /\ h <= b.tail - b.data
    <3>1. b.data \in Nat /\ b.tail \in Nat /\ b.end \in Nat BY <1>1
    <3> QED BY ONLY <3>1, h \in Nat, b.tail = b.data + h, b.tail <= b.end
  <2> QED BY <1>2, <2>1 DEF lcompat_skb_valid_bounds
<1>5. Spells(z, b) BY <1>3 DEF Spells
<1> QED BY <1>3, <1>4, <1>5 DEF StringIs

(* skb_put.                                                                *)
LEMMA PutString ==
  ASSUME NEW c \in SkBuffs, NEW z, StringIs(c, z), c.dlen = 0, NEW n \in Nat, n <= c.end - c.tail,
         NEW b \in SkBuffs, b = [c EXCEPT !.tail = @ + n, !.len = @ + n]
  PROVE  StringIs(b, z \o Places(c.head, c.tail, n))
<1> DEFINE h == HeadLen(c)
           y == Places(c.head, c.tail, n)
           x == z \o y
<1>1. /\ h \in Nat /\ c.len = h + c.dlen /\ c.tail = c.data + h /\ c.tail <= c.end
      /\ c.head \in Pages /\ c.data \in Nat /\ c.len \in Nat /\ c.dlen \in Nat /\ c.tail \in Nat /\ c.end \in Nat
      /\ Len(ReadAll(c.frags)) \in Nat /\ c.dlen <= Len(ReadAll(c.frags))
      /\ z \in Seq(Spots) /\ Len(z) = c.len
      /\ \A i \in 1 .. h : z[i] = <<c.head, c.data + i - 1>>
  BY ONLY c \in SkBuffs, StringIs(c, z), StringKnown, SMTT(30) DEF h
<1>2. y \in Seq(Spots) /\ Len(y) = n /\ \A i \in 1 .. n : y[i] = <<c.head, c.tail + i - 1>>
  <2>1. c.head \in Pages /\ c.tail \in Nat BY <1>1
  <2> QED BY ONLY <2>1, n \in Nat, PlacesAre DEF y
<1>3. /\ b.tail = c.tail + n /\ b.len = c.len + n /\ b.head = c.head /\ b.data = c.data /\ b.dlen = c.dlen
      /\ b.end = c.end /\ b.frags = c.frags
  BY DEF SkBuffs
<1> HIDE DEF h, y
<1>4. /\ x \in Seq(Spots) /\ Len(x) = Len(z) + Len(y)
      /\ \A i \in 1 .. Len(z) : x[i] = z[i]
      /\ \A i \in 1 .. Len(y) : x[Len(z) + i] = y[i]
  <2>1. z \in Seq(Spots) /\ y \in Seq(Spots) BY <1>1, <1>2
  <2> QED BY ONLY <2>1, CatIs DEF x
<1> HIDE DEF x
<1>5. /\ h + n \in Nat /\ b.len = (h + n) + b.dlen /\ b.tail = b.data + (h + n) /\ b.tail <= b.end
      /\ b.dlen <= Len(ReadAll(b.frags)) /\ Len(x) = b.len /\ Len(z) = h
  <2>1. h \in Nat /\ c.len = h /\ c.dlen = 0 /\ c.tail = c.data + h /\ c.data \in Nat /\ c.end \in Nat BY <1>1
  <2>2. b.len = (h + n) + b.dlen /\ b.tail = b.data + (h + n) BY ONLY <1>3, <2>1, n \in Nat
  <2>3. b.tail <= b.end BY ONLY <1>3, <2>1, n \in Nat, n <= c.end - c.tail
  <2>4. Len(z) = h /\ b.dlen <= Len(ReadAll(b.frags)) BY <1>1, <1>3, <2>1
  <2>5. Len(x) = b.len BY ONLY <1>2, <1>3, <1>4, <2>1, <2>4, n \in Nat
  <2> QED BY ONLY <2>1, <2>2, <2>3, <2>4, <2>5, n \in Nat
<1>6. ASSUME NEW i \in 1 .. h + n PROVE x[i] = <<b.head, b.data + i - 1>>
  <2>1. CASE i <= h
    <3> i \in 1 .. h BY <1>1, <2>1
    <3> QED BY <1>1, <1>3, <1>4, <1>5
  <2>2. CASE i > h
    <3>1. PICK j \in 1 .. n : i = h + j
      <4>1. h \in Nat BY <1>1
      <4>2. i - h \in 1 .. n /\ i = h + (i - h) BY ONLY <4>1, <2>2, n \in Nat, i \in 1 .. h + n
      <4> QED BY ONLY <4>2
    <3>2. x[h + j] = <<c.head, c.tail + j - 1>> BY <1>2, <1>4, <1>5
    <3>3. c.tail + j - 1 = c.data + i - 1
      <4>1. h \in Nat /\ c.data \in Nat /\ c.tail = c.data + h BY <1>1
      <4> QED BY ONLY <4>1, <3>1, n \in Nat
    <3> QED BY <1>3, <3>1, <3>2, <3>3
  <2>3. i <= h \/ i > h
    <3>1. h \in Nat BY <1>1
    <3> QED BY ONLY <3>1, n \in Nat, i \in 1 .. h + n
  <2> QED BY ONLY <2>1, <2>2, <2>3
<1>7. \A i \in 1 .. b.dlen : x[(h + n) + i] = ReadAll(b.frags)[i] BY <1>3
<1>8. StringIs(b, x) BY <1>4, <1>5, <1>6, <1>7, StringMade
<1> QED BY <1>8 DEF x, y

(* skb_push.                                                               *)
LEMMA PushString ==
  ASSUME NEW c \in SkBuffs, NEW z, StringIs(c, z), NEW n \in Nat, n <= c.data,
         NEW b \in SkBuffs, b = [c EXCEPT !.data = @ - n, !.len = @ + n]
  PROVE  StringIs(b, Places(c.head, c.data - n, n) \o z)
<1> DEFINE h == HeadLen(c)
           y == Places(c.head, c.data - n, n)
           x == y \o z
<1>1. /\ h \in Nat /\ c.len = h + c.dlen /\ c.tail = c.data + h /\ c.tail <= c.end
      /\ c.head \in Pages /\ c.data \in Nat /\ c.len \in Nat /\ c.dlen \in Nat /\ c.tail \in Nat /\ c.end \in Nat
      /\ Len(ReadAll(c.frags)) \in Nat /\ c.dlen <= Len(ReadAll(c.frags))
      /\ z \in Seq(Spots) /\ Len(z) = c.len
      /\ \A i \in 1 .. h : z[i] = <<c.head, c.data + i - 1>>
      /\ \A i \in 1 .. c.dlen : z[h + i] = ReadAll(c.frags)[i]
  BY ONLY c \in SkBuffs, StringIs(c, z), StringKnown, SMTT(30) DEF h
<1>2. y \in Seq(Spots) /\ Len(y) = n /\ \A i \in 1 .. n : y[i] = <<c.head, c.data - n + i - 1>>
  <2>1. c.data - n \in Nat /\ c.head \in Pages BY <1>1
  <2> QED BY ONLY <2>1, n \in Nat, PlacesAre DEF y
<1>3. /\ b.data = c.data - n /\ b.len = c.len + n /\ b.head = c.head /\ b.tail = c.tail /\ b.dlen = c.dlen
      /\ b.end = c.end /\ b.frags = c.frags
  BY DEF SkBuffs
<1> HIDE DEF h, y
<1>4. /\ x \in Seq(Spots) /\ Len(x) = Len(y) + Len(z)
      /\ \A i \in 1 .. Len(y) : x[i] = y[i]
      /\ \A i \in 1 .. Len(z) : x[Len(y) + i] = z[i]
  <2>1. z \in Seq(Spots) /\ y \in Seq(Spots) BY <1>1, <1>2
  <2> QED BY ONLY <2>1, CatIs DEF x
<1> HIDE DEF x
<1>5. /\ h + n \in Nat /\ b.len = (h + n) + b.dlen /\ b.tail = b.data + (h + n) /\ b.tail <= b.end
      /\ b.dlen <= Len(ReadAll(b.frags)) /\ Len(x) = b.len
  <2>1. /\ h \in Nat /\ c.dlen \in Nat /\ c.len = h + c.dlen /\ c.tail = c.data + h /\ c.data \in Nat
        /\ c.tail <= c.end /\ Len(z) = c.len
    BY <1>1
  <2>2. b.len = (h + n) + b.dlen /\ b.tail = b.data + (h + n) BY ONLY <1>3, <2>1, n \in Nat
  <2>3. b.tail <= b.end BY ONLY <1>3, <2>1
  <2>4. b.dlen <= Len(ReadAll(b.frags)) BY <1>1, <1>3
  <2>5. Len(x) = b.len BY ONLY <1>2, <1>3, <1>4, <2>1, n \in Nat
  <2> QED BY ONLY <2>1, <2>2, <2>3, <2>4, <2>5, n \in Nat
<1>6. ASSUME NEW i \in 1 .. h + n PROVE x[i] = <<b.head, b.data + i - 1>>
  <2>1. CASE i <= n
    <3> i \in 1 .. n BY <1>1, <2>1
    <3> QED BY <1>2, <1>3, <1>4
  <2>2. CASE i > n
    <3>1. PICK j \in 1 .. h : i = n + j
      <4>1. h \in Nat BY <1>1
      <4>2. i - n \in 1 .. h /\ i = n + (i - n) BY ONLY <4>1, <2>2, n \in Nat, i \in 1 .. h + n
      <4> QED BY ONLY <4>2
    <3>5. /\ h \in Nat /\ c.dlen \in Nat /\ c.data \in Nat /\ c.len = h + c.dlen /\ Len(z) = c.len
      BY <1>1
    <3>4. j \in 1 .. Len(z) BY ONLY <3>5, j \in 1 .. h
    <3>2. x[n + j] = <<c.head, c.data + j - 1>> BY <1>1, <1>2, <1>4, <3>4
    <3>3. c.data + j - 1 = c.data - n + i - 1 BY ONLY <3>5, <3>1, n \in Nat
    <3> QED BY <1>3, <3>1, <3>2, <3>3
  <2>3. i <= n \/ i > n
    <3>1. h \in Nat BY <1>1
    <3> QED BY ONLY <3>1, n \in Nat, i \in 1 .. h + n
  <2> QED BY ONLY <2>1, <2>2, <2>3
<1>7. ASSUME NEW i \in 1 .. b.dlen PROVE x[(h + n) + i] = ReadAll(b.frags)[i]
  <2>1. i \in 1 .. c.dlen /\ h + i \in 1 .. Len(z) /\ n + (h + i) = (h + n) + i
    <3>1. h \in Nat /\ c.dlen \in Nat /\ Len(z) = h + c.dlen BY <1>1
    <3>2. i \in 1 .. c.dlen BY <1>3
    <3> QED BY ONLY <3>1, <3>2, n \in Nat
  <2>2. x[n + (h + i)] = z[h + i] BY <1>2, <1>4, <2>1
  <2> QED BY <1>1, <1>3, <2>1, <2>2
<1>8. StringIs(b, x) BY <1>4, <1>5, <1>6, <1>7, StringMade
<1> QED BY <1>8 DEF x, y

(* skb_pull, inside the linear part.                                       *)
LEMMA PullString ==
  ASSUME NEW c \in SkBuffs, NEW z, StringIs(c, z), NEW n \in Nat, n <= HeadLen(c),
         NEW b \in SkBuffs, b = [c EXCEPT !.data = @ + n, !.len = @ - n]
  PROVE  StringIs(b, SubSeq(z, n + 1, c.len))
<1> DEFINE h == HeadLen(c)
           m == c.len - n
           x == SubSeq(z, n + 1, n + m)
<1>1. /\ h \in Nat /\ c.len = h + c.dlen /\ c.tail = c.data + h /\ c.tail <= c.end
      /\ c.data \in Nat /\ c.len \in Nat /\ c.dlen \in Nat /\ c.end \in Nat
      /\ c.dlen <= Len(ReadAll(c.frags))
      /\ z \in Seq(Spots) /\ Len(z) = c.len
      /\ \A i \in 1 .. h : z[i] = <<c.head, c.data + i - 1>>
      /\ \A i \in 1 .. c.dlen : z[h + i] = ReadAll(c.frags)[i]
  BY ONLY c \in SkBuffs, StringIs(c, z), StringKnown, SMTT(30) DEF h
<1>2. /\ b.data = c.data + n /\ b.len = m /\ b.head = c.head /\ b.tail = c.tail /\ b.dlen = c.dlen
      /\ b.end = c.end /\ b.frags = c.frags
  BY DEF SkBuffs
<1>3. n <= h OBVIOUS
<1>4. m \in Nat /\ n + m = c.len BY <1>1, <1>3
<1> HIDE DEF h, m
<1>5. x \in Seq(Spots) /\ Len(x) = m /\ \A i \in 1 .. m : x[i] = z[n + i]
  <2>1. z \in Seq(Spots) /\ n + m <= Len(z) BY <1>1, <1>4
  <2> QED BY ONLY <2>1, <1>4, n \in Nat, PartIs DEF x
<1> HIDE DEF x
<1>6. /\ h - n \in Nat /\ b.len = (h - n) + b.dlen /\ b.tail = b.data + (h - n) /\ b.tail <= b.end
      /\ b.dlen <= Len(ReadAll(b.frags))
  <2>1. /\ h \in Nat /\ c.dlen \in Nat /\ c.len = h + c.dlen /\ c.tail = c.data + h /\ c.data \in Nat
        /\ c.tail <= c.end
    BY <1>1
  <2>2. h - n \in Nat BY ONLY <2>1, <1>3, n \in Nat
  <2>3. b.len = (h - n) + b.dlen /\ b.tail = b.data + (h - n) BY ONLY <1>2, <1>4, <2>1, n \in Nat
  <2>4. b.tail <= b.end BY ONLY <1>2, <2>1
  <2>5. b.dlen <= Len(ReadAll(b.frags)) BY <1>1, <1>2
  <2> QED BY ONLY <2>2, <2>3, <2>4, <2>5
<1>7. ASSUME NEW i \in 1 .. h - n PROVE x[i] = <<b.head, b.data + i - 1>>
  <2>1. i \in 1 .. m /\ n + i \in 1 .. h /\ c.data + (n + i) - 1 = b.data + i - 1
    <3>1. h \in Nat /\ c.dlen \in Nat /\ c.data \in Nat /\ b.data = c.data + n BY <1>1, <1>2
    <3>2. m = (h - n) + c.dlen BY <1>1, <1>2, <1>6
    <3> QED BY <1>3, <3>1, <3>2
  <2> QED BY <1>1, <1>2, <1>5, <2>1
<1>8. ASSUME NEW i \in 1 .. b.dlen PROVE x[(h - n) + i] = ReadAll(b.frags)[i]
  <2>1. (h - n) + i \in 1 .. m /\ n + ((h - n) + i) = h + i /\ i \in 1 .. c.dlen
    <3>1. h \in Nat /\ c.dlen \in Nat /\ b.dlen = c.dlen BY <1>1, <1>2
    <3>2. m = (h - n) + c.dlen BY <1>1, <1>2, <1>6
    <3> QED BY <1>3, <3>1, <3>2
  <2>2. x[(h - n) + i] = z[n + ((h - n) + i)] BY <1>5, <2>1
  <2> QED BY <1>1, <1>2, <2>1, <2>2
<1>9. Len(x) = b.len BY <1>2, <1>5
<1>10. StringIs(b, x) BY <1>5, <1>6, <1>7, <1>8, <1>9, StringMade
<1> QED BY <1>4, <1>10 DEF x

(* skb_reserve, of a buffer without a linear part.                         *)
LEMMA ReserveString ==
  ASSUME NEW c \in SkBuffs, NEW z, StringIs(c, z), c.len = c.dlen, NEW n \in Nat, n <= c.end - c.tail,
         NEW b \in SkBuffs, b = [c EXCEPT !.data = @ + n, !.tail = @ + n]
  PROVE  StringIs(b, z)
<1> DEFINE h == HeadLen(c)
<1>1. /\ h \in Nat /\ c.len = h + c.dlen /\ c.tail = c.data + h /\ c.tail <= c.end
      /\ c.data \in Nat /\ c.len \in Nat /\ c.dlen \in Nat /\ c.tail \in Nat /\ c.end \in Nat
      /\ c.dlen <= Len(ReadAll(c.frags))
      /\ z \in Seq(Spots) /\ Len(z) = c.len
      /\ \A i \in 1 .. c.dlen : z[h + i] = ReadAll(c.frags)[i]
  BY ONLY c \in SkBuffs, StringIs(c, z), StringKnown, SMTT(30) DEF h
<1>2. /\ b.data = c.data + n /\ b.tail = c.tail + n /\ b.len = c.len /\ b.dlen = c.dlen
      /\ b.end = c.end /\ b.frags = c.frags
  BY DEF SkBuffs
<1> HIDE DEF h
<1>3. h = 0 /\ b.len = h + b.dlen /\ b.tail = b.data + h /\ b.tail <= b.end
  <2>1. h \in Nat /\ c.dlen \in Nat /\ c.len = h + c.dlen /\ c.len = c.dlen /\ c.tail = c.data + h BY <1>1
  <2>2. c.data \in Nat /\ c.tail \in Nat /\ c.end \in Nat BY <1>1
  <2>3. h = 0 BY ONLY <2>1
  <2> QED BY ONLY <2>1, <2>2, <2>3, <1>2, n \in Nat, n <= c.end - c.tail
<1>4. \A i \in 1 .. h : z[i] = <<b.head, b.data + i - 1>> BY <1>3
<1>5. \A i \in 1 .. b.dlen : z[h + i] = ReadAll(b.frags)[i] BY <1>1, <1>2
<1>6. b.dlen <= Len(ReadAll(b.frags)) /\ Len(z) = b.len BY <1>1, <1>2
<1> QED BY <1>1, <1>3, <1>4, <1>5, <1>6, StringMade

(* A buffer of no bytes.                                                   *)
LEMMA EmptyString ==
  ASSUME NEW b \in SkBuffs, b.len = 0, b.dlen = 0, b.tail = b.data, b.tail <= b.end
  PROVE  StringIs(b, <<>>)
<1>1. b.frags \in Seq(SkbFrags) /\ b.data \in Nat BY FieldsOf
<1>2. ReadAll(b.frags) \in Seq(Spots) BY <1>1, RowIs
<1>3. Len(ReadAll(b.frags)) \in Nat BY <1>2
<1>4. <<>> \in Seq(Spots) /\ Len(<<>>) = 0 OBVIOUS
<1>5. 0 \in Nat /\ b.len = 0 + b.dlen /\ b.tail = b.data + 0 /\ b.dlen <= Len(ReadAll(b.frags)) BY <1>1, <1>3
<1>6. /\ \A i \in 1 .. 0 : <<>>[i] = <<b.head, b.data + i - 1>>
      /\ \A i \in 1 .. b.dlen : <<>>[0 + i] = ReadAll(b.frags)[i]
  OBVIOUS
<1> QED BY <1>4, <1>5, <1>6, StringMade

(* A buffer whose bytes were copied into its head.                         *)
LEMMA LinearString ==
  ASSUME NEW b \in SkBuffs, b.dlen = 0, b.tail = b.data + b.len, b.tail <= b.end
  PROVE  StringIs(b, Places(b.head, b.data, b.len))
<1> DEFINE x == Places(b.head, b.data, b.len)
<1>1. b.frags \in Seq(SkbFrags) /\ b.head \in Pages /\ b.data \in Nat /\ b.len \in Nat BY FieldsOf
<1>2. ReadAll(b.frags) \in Seq(Spots) BY <1>1, RowIs
<1>3. Len(ReadAll(b.frags)) \in Nat BY <1>2
<1>4. x \in Seq(Spots) /\ Len(x) = b.len /\ \A i \in 1 .. b.len : x[i] = <<b.head, b.data + i - 1>>
  BY <1>1, PlacesAre
<1> HIDE DEF x
<1>5. b.len = b.len + b.dlen /\ b.dlen <= Len(ReadAll(b.frags)) BY <1>1, <1>3
<1>6. \A i \in 1 .. b.dlen : x[b.len + i] = ReadAll(b.frags)[i] OBVIOUS
<1>7. StringIs(b, x) BY <1>1, <1>4, <1>5, <1>6, StringMade
<1> QED BY <1>7 DEF x

(* skb_trim.                                                               *)
LEMMA TrimString ==
  ASSUME NEW c \in SkBuffs, NEW z, StringIs(c, z), NEW n \in Nat, n <= c.len,
         NEW b \in SkBuffs, b = Trimmed(c, n)
  PROVE  StringIs(b, SubSeq(z, 1, n))
<1> DEFINE h == HeadLen(c)
           x == SubSeq(z, 1, n)
<1>1. /\ h \in Nat /\ c.len = h + c.dlen /\ c.tail = c.data + h /\ c.tail <= c.end
      /\ c.data \in Nat /\ c.len \in Nat /\ c.dlen \in Nat /\ c.tail \in Nat /\ c.end \in Nat
      /\ c.dlen <= Len(ReadAll(c.frags))
      /\ z \in Seq(Spots) /\ Len(z) = c.len
      /\ \A i \in 1 .. h : z[i] = <<c.head, c.data + i - 1>>
      /\ \A i \in 1 .. c.dlen : z[h + i] = ReadAll(c.frags)[i]
  BY ONLY c \in SkBuffs, StringIs(c, z), StringKnown, SMTT(30) DEF h
<1>2. x \in Seq(Spots) /\ Len(x) = n /\ \A i \in 1 .. n : x[i] = z[i]
  <2>1. z \in Seq(Spots) /\ n \in 0 .. Len(z) BY <1>1
  <2> QED BY ONLY <2>1, PrefixIs DEF x
<1> HIDE DEF x
<1>3. CASE n < h
  <2>1. b = [c EXCEPT !.frags = <<>>, !.dlen = 0, !.len = n, !.tail = c.data + n] BY <1>3 DEF Trimmed
  <2>2. /\ b.data = c.data /\ b.tail = c.data + n /\ b.len = n /\ b.dlen = 0 /\ b.end = c.end
        /\ b.frags = <<>> /\ b.head = c.head
    BY <2>1 DEF SkBuffs
  <2> HIDE DEF h
  <2>3. b.len = n + b.dlen /\ b.tail = b.data + n /\ b.tail <= b.end BY <1>1, <1>3, <2>2
  <2>4. ReadAll(b.frags) = <<>> BY <2>2, ReadFew
  <2>5. b.dlen <= Len(ReadAll(b.frags)) BY <2>2, <2>4
  <2>6. ASSUME NEW i \in 1 .. n PROVE x[i] = <<b.head, b.data + i - 1>>
    <3> i \in 1 .. h BY <1>1, <1>3
    <3> QED BY <1>1, <1>2, <2>2
  <2>7. \A i \in 1 .. b.dlen : x[n + i] = ReadAll(b.frags)[i] BY <2>2
  <2>8. StringIs(b, x) BY <1>2, <2>2, <2>3, <2>5, <2>6, <2>7, StringMade
  <2> QED BY <2>8 DEF x
<1>4. CASE ~(n < h)
  <2>1. b = [c EXCEPT !.dlen = c.dlen - (c.len - n), !.len = n, !.tail = c.data + h] BY <1>4 DEF Trimmed
  <2>2. /\ b.data = c.data /\ b.tail = c.data + h /\ b.len = n /\ b.dlen = c.dlen - (c.len - n) /\ b.end = c.end
        /\ b.frags = c.frags /\ b.head = c.head
    BY <2>1 DEF SkBuffs
  <2> HIDE DEF h
  <2>3. /\ b.len = h + b.dlen /\ b.tail = b.data + h /\ b.tail <= b.end /\ h <= n
        /\ b.dlen <= c.dlen /\ b.dlen \in Nat
    <3>1. /\ h \in Nat /\ c.len = h + c.dlen /\ c.dlen \in Nat /\ c.tail = c.data + h /\ c.tail <= c.end BY <1>1
    <3>2. h <= n BY <1>4, <3>1
    <3>3. b.dlen = n - h BY <2>2, <3>1
    <3> QED BY <2>2, <3>1, <3>2, <3>3
  <2>5. b.dlen <= Len(ReadAll(b.frags))
    <3>1. Len(ReadAll(c.frags)) \in Nat BY StringKnown
    <3> QED BY <1>1, <2>2, <2>3, <3>1
  <2>6. ASSUME NEW i \in 1 .. h PROVE x[i] = <<b.head, b.data + i - 1>>
    <3> i \in 1 .. n BY <1>1, <2>3
    <3> QED BY <1>1, <1>2, <2>2
  <2>7. ASSUME NEW i \in 1 .. b.dlen PROVE x[h + i] = ReadAll(b.frags)[i]
    <3>1. i \in 1 .. c.dlen /\ h + i \in 1 .. n
      <4>1. h \in Nat /\ c.dlen \in Nat BY <1>1
      <4>2. n = h + b.dlen BY <2>2, <2>3
      <4> QED BY <2>3, <4>1, <4>2
    <3> QED BY <1>1, <1>2, <2>2, <3>1
  <2>8. StringIs(b, x) BY <1>1, <1>2, <2>2, <2>3, <2>5, <2>6, <2>7, StringMade
  <2> QED BY <2>8 DEF x
<1> QED BY <1>3, <1>4

(* skb_pad: what skb_put added is trimmed away.                            *)
LEMMA PadString ==
  ASSUME NEW c \in SkBuffs, NEW z, StringIs(c, z), c.dlen = 0, NEW n \in Nat, n <= c.end - c.tail,
         NEW e \in SkBuffs, e = [c EXCEPT !.tail = @ + n, !.len = @ + n],
         NEW b \in SkBuffs, b = Trimmed(e, c.len)
  PROVE  StringIs(b, z)
<1> DEFINE y == Places(c.head, c.tail, n)
           x == z \o y
<1>1. c.head \in Pages /\ c.tail \in Nat /\ c.len \in Nat /\ z \in Seq(Spots) /\ Len(z) = c.len
  BY StringKnown
<1>2. y \in Seq(Spots) /\ Len(y) = n BY <1>1, PlacesAre
<1>3. StringIs(e, x) BY PutString
<1> HIDE DEF y
<1>4. /\ x \in Seq(Spots) /\ Len(x) = Len(z) + Len(y)
      /\ \A i \in 1 .. Len(z) : x[i] = z[i]
  BY ONLY <1>1, <1>2, CatIs DEF x
<1> HIDE DEF x
<1>5. e.len = c.len + n BY DEF SkBuffs
<1>6. c.len <= e.len BY <1>1, <1>5
<1>7. StringIs(b, SubSeq(x, 1, c.len)) BY <1>1, <1>3, <1>6, TrimString
<1>8. /\ SubSeq(x, 1, c.len) \in Seq(Spots) /\ Len(SubSeq(x, 1, c.len)) = c.len
      /\ \A i \in 1 .. c.len : SubSeq(x, 1, c.len)[i] = x[i]
  <2>1. c.len \in 0 .. Len(x) BY <1>1, <1>2, <1>4
  <2> QED BY ONLY <1>4, <2>1, PrefixIs
<1>9. SubSeq(x, 1, c.len) = z
  <2> DEFINE w == SubSeq(x, 1, c.len)
  <2>1. w \in Seq(Spots) /\ Len(w) = Len(z) /\ \A i \in 1 .. Len(z) : w[i] = z[i] BY <1>1, <1>4, <1>8
  <2> HIDE DEF w
  <2>2. w = z BY <1>1, <2>1, SeqEqual
  <2> QED BY <2>2 DEF w
<1> QED BY <1>7, <1>9

(* skb_cow_head.                                                           *)
LEMMA CowString ==
  ASSUME NEW c \in SkBuffs, NEW z, StringIs(c, z), NEW p \in Pages, NEW n \in Nat, NEW end \in Nat,
         n + HeadLen(c) <= end,
         NEW b \in SkBuffs, b = [c EXCEPT !.head = p, !.data = n, !.tail = n + HeadLen(c), !.end = end]
  PROVE  StringIs(b, Places(p, n, HeadLen(c)) \o SubSeq(z, HeadLen(c) + 1, c.len))
<1> DEFINE h == HeadLen(c)
           y == Places(p, n, h)
           r == SubSeq(z, h + 1, h + c.dlen)
           x == y \o r
<1>1. /\ h \in Nat /\ c.len = h + c.dlen /\ c.len \in Nat /\ c.dlen \in Nat
      /\ c.dlen <= Len(ReadAll(c.frags)) /\ z \in Seq(Spots) /\ Len(z) = c.len
      /\ \A i \in 1 .. c.dlen : z[h + i] = ReadAll(c.frags)[i]
  BY ONLY c \in SkBuffs, StringIs(c, z), StringKnown, SMTT(30) DEF h
<1>2. /\ b.head = p /\ b.data = n /\ b.tail = n + h /\ b.end = end /\ b.len = c.len /\ b.dlen = c.dlen
      /\ b.frags = c.frags
  BY DEF SkBuffs
<1>0. h <= end - n BY <1>1
<1>3. y \in Seq(Spots) /\ Len(y) = h /\ \A i \in 1 .. h : y[i] = <<p, n + i - 1>> BY <1>1, PlacesAre
<1> HIDE DEF h
<1>4. r \in Seq(Spots) /\ Len(r) = c.dlen /\ \A i \in 1 .. c.dlen : r[i] = z[h + i]
  <2>1. h \in Nat /\ c.dlen \in Nat /\ z \in Seq(Spots) /\ h + c.dlen <= Len(z) BY <1>1
  <2> QED BY ONLY <2>1, PartIs DEF r
<1> HIDE DEF y, r
<1>5. /\ x \in Seq(Spots) /\ Len(x) = Len(y) + Len(r)
      /\ \A i \in 1 .. Len(y) : x[i] = y[i]
      /\ \A i \in 1 .. Len(r) : x[Len(y) + i] = r[i]
  <2>1. y \in Seq(Spots) /\ r \in Seq(Spots) BY <1>3, <1>4
  <2> QED BY ONLY <2>1, CatIs DEF x
<1> HIDE DEF x
<1>6. /\ b.len = h + b.dlen /\ b.tail = b.data + h /\ b.tail <= b.end /\ b.dlen <= Len(ReadAll(b.frags))
      /\ Len(x) = b.len
  BY <1>0, <1>1, <1>2, <1>3, <1>4, <1>5
<1>7. \A i \in 1 .. h : x[i] = <<b.head, b.data + i - 1>> BY <1>2, <1>3, <1>5
<1>8. \A i \in 1 .. b.dlen : x[h + i] = ReadAll(b.frags)[i] BY <1>1, <1>2, <1>3, <1>4, <1>5
<1>9. StringIs(b, x) BY <1>1, <1>5, <1>6, <1>7, <1>8, StringMade
<1> QED BY <1>1, <1>9 DEF x, y, r, h

(* skb_add_rx_frag, to a buffer that was not cut inside a fragment.        *)
LEMMA AddString ==
  ASSUME NEW c \in SkBuffs, NEW z, StringIs(c, z), Uncut(c),
         NEW p \in Pages, NEW off \in Nat, NEW n \in Nat,
         NEW b \in SkBuffs,
         b = [c EXCEPT !.frags = Append(@, Piece(p, off, n)), !.len = @ + n, !.dlen = @ + n]
  PROVE  StringIs(b, z \o Places(p, off, n))
<1> DEFINE h == HeadLen(c)
           f == Piece(p, off, n)
           y == Places(p, off, n)
           x == z \o y
           row == ReadAll(c.frags)
           more == row \o y
<1>1. /\ h \in Nat /\ c.len = h + c.dlen /\ c.tail = c.data + h /\ c.tail <= c.end
      /\ c.len \in Nat /\ c.dlen \in Nat /\ row \in Seq(Spots)
      /\ z \in Seq(Spots) /\ Len(z) = c.len
      /\ \A i \in 1 .. h : z[i] = <<c.head, c.data + i - 1>>
      /\ \A i \in 1 .. c.dlen : z[h + i] = row[i]
  BY ONLY c \in SkBuffs, StringIs(c, z), StringKnown, SMTT(30) DEF h, row
<1>2. c.dlen = Len(row) BY UncutIs
<1>3. y \in Seq(Spots) /\ Len(y) = n BY PlacesAre
<1>4. f \in SkbFrags /\ Read(f) = y BY DEF Piece, SkbFrags, Read
<1>5. c.frags \in Seq(SkbFrags) BY FieldsOf
<1> HIDE DEF f
<1>6. /\ b.head = c.head /\ b.data = c.data /\ b.tail = c.tail /\ b.end = c.end
      /\ b.len = c.len + n /\ b.dlen = c.dlen + n /\ b.frags = Append(c.frags, f)
  BY DEF SkBuffs, f
<1>7. ReadAll(b.frags) = more BY <1>4, <1>5, <1>6, ReadMore
<1> HIDE DEF h, y, row
<1>8. /\ x \in Seq(Spots) /\ Len(x) = Len(z) + Len(y)
      /\ \A i \in 1 .. Len(z) : x[i] = z[i]
      /\ \A i \in 1 .. Len(y) : x[Len(z) + i] = y[i]
  <2>1. z \in Seq(Spots) /\ y \in Seq(Spots) BY <1>1, <1>3
  <2> QED BY ONLY <2>1, CatIs DEF x
<1>9. /\ more \in Seq(Spots) /\ Len(more) = Len(row) + Len(y)
      /\ \A i \in 1 .. Len(row) : more[i] = row[i]
      /\ \A i \in 1 .. Len(y) : more[Len(row) + i] = y[i]
  <2>1. row \in Seq(Spots) /\ y \in Seq(Spots) BY <1>1, <1>3
  <2> QED BY ONLY <2>1, CatIs DEF more
<1> HIDE DEF x, more
<1>10. /\ b.len = h + b.dlen /\ b.tail = b.data + h /\ b.tail <= b.end /\ b.dlen <= Len(ReadAll(b.frags))
       /\ Len(x) = b.len
  <2>1. h \in Nat /\ c.dlen \in Nat /\ c.len = h + c.dlen /\ c.tail = c.data + h /\ c.tail <= c.end BY <1>1
  <2>2. Len(ReadAll(b.frags)) = c.dlen + n BY <1>2, <1>3, <1>7, <1>9
  <2>3. Len(x) = c.len + n BY <1>1, <1>3, <1>8
  <2>4. b.len = h + b.dlen /\ b.tail = b.data + h /\ b.tail <= b.end BY ONLY <1>6, <2>1, n \in Nat
  <2>5. b.dlen <= Len(ReadAll(b.frags)) /\ Len(x) = b.len
    BY ONLY <1>6, <2>1, <2>2, <2>3, n \in Nat
  <2> QED BY ONLY <2>4, <2>5
<1>11. ASSUME NEW i \in 1 .. h PROVE x[i] = <<b.head, b.data + i - 1>>
  <2> i \in 1 .. Len(z) BY <1>1
  <2> QED BY <1>1, <1>6, <1>8
<1>12. ASSUME NEW i \in 1 .. b.dlen PROVE x[h + i] = ReadAll(b.frags)[i]
  <2>1. CASE i <= c.dlen
    <3>1. i \in 1 .. c.dlen /\ h + i \in 1 .. Len(z) BY <1>1, <2>1
    <3> QED BY <1>1, <1>2, <1>7, <1>8, <1>9, <3>1
  <2>2. CASE i > c.dlen
    <3>0. b.dlen = c.dlen + n /\ c.dlen \in Nat /\ h \in Nat /\ Len(z) = h + c.dlen BY <1>1, <1>6
    <3>1. PICK j \in 1 .. n : i = c.dlen + j
      <4> i - c.dlen \in 1 .. n /\ i = c.dlen + (i - c.dlen) BY <3>0, <2>2
      <4> QED OBVIOUS
    <3>2. h + i = Len(z) + j BY <3>0, <3>1
    <3>3. x[Len(z) + j] = y[j] /\ more[Len(row) + j] = y[j] BY <1>3, <1>8, <1>9
    <3> QED BY <1>2, <1>7, <3>1, <3>2, <3>3
  <2> QED BY <2>1, <2>2, <1>1
<1>13. StringIs(b, x) BY <1>1, <1>8, <1>10, <1>11, <1>12, StringMade
<1> QED BY <1>13 DEF x, y

(***************************************************************************)
(* What each operation makes of the buffers.                               *)
(***************************************************************************)

(* A live buffer is inside its pages.                                      *)
LEMMA LiveBounded ==
  ASSUME BytesInv, NEW s \in Skbs, Live(s)
  PROVE  /\ Bounded(skb[s], psize)
         /\ skb[s].tail <= skb[s].end /\ skb[s].end <= psize[skb[s].head]
BY DEF BytesInv, Bounds, Bounded

(* The step of one buffer, from what it means for the string.              *)
LEMMA MeansStep ==
  ASSUME BytesInv, SkbInv', SizesKept, NEW s \in Skbs, Live(s), NEW b,
         NEW kept \in BOOLEAN, NEW bytes,
         Becomes(s, b), Means(s, kept, bytes), Bounded(b, psize'),
         kept /\ StringIs(skb[s], string[s]) => StringIs(b, bytes)
  PROVE  BytesInv'
<1> DEFINE z == IF kept /\ string[s] # Lost THEN bytes ELSE Lost
<1>1. string' = [string EXCEPT ![s] = z] BY DEF Means
<1>2. ASSUME z # Lost PROVE StringIs(b, z)
  <2>1. kept /\ string[s] # Lost /\ z = bytes BY <1>2
  <2>2. StringIs(skb[s], string[s]) BY <2>1 DEF BytesInv, Strings
  <2> QED BY <2>1, <2>2
<1> HIDE DEF z
<1> QED BY <1>1, <1>2, BytesStep

(* A step that leaves the room of the buffer as it is.                     *)
LEMMA SameRoom ==
  ASSUME BytesInv, SkbInv', SizesKept, NEW s \in Skbs, Live(s), NEW b \in SkBuffs, Becomes(s, b),
         b.head = skb[s].head, b.end = skb[s].end, b.frags = skb[s].frags \/ b.frags = <<>>,
         b.tail <= b.end, b.dlen <= b.len => b.data + (b.len - b.dlen) <= b.tail
  PROVE  Bounded(b, psize')
<1>1. skb'[s] = b BY DEF BytesInv, SkbInv, SkbTypeOK, Becomes
<1>2. b # None BY NoneAssumption
<1>3. \A i \in DOMAIN b.frags : b.frags[i].off + b.frags[i].size <= psize'[b.frags[i].page]
  BY <1>1, <1>2, FragsInside
<1>4. psize'[b.head] = psize[skb[s].head] BY <1>1, <1>2, HeadKept
<1>5. b.end <= psize'[b.head] BY <1>4, LiveBounded
<1> QED BY <1>3, <1>5 DEF Bounded

(* What a step reads of a buffer that it accepts.                          *)
LEMMA Accepted ==
  ASSUME BytesInv, NEW s \in Skbs, Live(s), NEW c, c = skb[s]
  PROVE  /\ c \in SkBuffs /\ c.head \in Pages /\ c.data \in Nat /\ c.len \in Nat
         /\ c.dlen \in Nat /\ c.tail \in Nat /\ c.end \in Nat
         /\ c.frags \in Seq(SkbFrags) /\ Len(c.frags) <= MaxFrags /\ HeadLen(c) \in Nat
         /\ c.tail <= c.end
         /\ lcompat_skb_valid_bounds(c) =>
               c.len = HeadLen(c) + c.dlen /\ c.data + HeadLen(c) <= c.tail
<1>1. SkbInv BY DEF BytesInv
<1>2. /\ c \in SkBuffs /\ c.head \in Pages /\ c.data \in Nat /\ c.len \in Nat
      /\ c.dlen \in Nat /\ c.tail \in Nat /\ c.end \in Nat
      /\ c.frags \in Seq(SkbFrags) /\ Len(c.frags) <= MaxFrags
  BY <1>1, BufferParts
<1>3. HeadLen(c) \in Nat BY <1>2, FieldsOf
<1>4. c.tail <= c.end BY LiveBounded
<1>5. ASSUME lcompat_skb_valid_bounds(c)
      PROVE c.len = HeadLen(c) + c.dlen /\ c.data + HeadLen(c) <= c.tail
  <2>1. HeadLen(c) = c.len - c.dlen /\ c.data + HeadLen(c) <= c.tail BY <1>1, <1>5, ValidParts
  <2> QED BY <1>2, <1>3, <2>1
<1> QED BY <1>2, <1>3, <1>4, <1>5

(* The linear part in other words.                                         *)
LEMMA RoomIs ==
  ASSUME NEW data \in Nat, NEW len \in Nat, NEW dlen \in Nat, NEW end \in Nat, NEW h \in Nat,
         len = h + dlen, data + h <= end
  PROVE  dlen <= len => data + (len - dlen) <= end
OBVIOUS

(* The operations on the linear part.                                      *)
LEMMA PutBytes ==
  ASSUME BytesInv, SkbInv', NEW s \in Skbs, NEW n \in Nat, skb_put(s, n)
  PROVE  BytesInv'
<1> DEFINE c == skb[s]
           b == [c EXCEPT !.tail = @ + n, !.len = @ + n]
           kept == c.dlen = 0
           bytes == string[s] \o Places(c.head, c.tail, n)
<1>1. /\ Live(s) /\ lcompat_skb_valid_bounds(c) /\ n <= c.end - c.tail
      /\ Becomes(s, b) /\ Means(s, kept, bytes) /\ psize' = psize
  BY DEF skb_put, Tailroom
<1>2. SizesKept BY <1>1 DEF SizesKept
<1>3. /\ c \in SkBuffs /\ c.head \in Pages /\ c.data \in Nat /\ c.len \in Nat
      /\ c.dlen \in Nat /\ c.tail \in Nat /\ c.end \in Nat /\ HeadLen(c) \in Nat /\ c.tail <= c.end
      /\ c.frags \in Seq(SkbFrags)
      /\ c.len = HeadLen(c) + c.dlen /\ c.data + HeadLen(c) <= c.tail
  BY <1>1, Accepted
<1> HIDE DEF c
<1>4. b \in SkBuffs
  <2>1. c.tail + n \in Nat /\ c.len + n \in Nat BY <1>3
  <2> QED BY <1>3, <2>1, Updated
<1>5. /\ b.tail = c.tail + n /\ b.len = c.len + n /\ b.head = c.head /\ b.data = c.data /\ b.dlen = c.dlen
      /\ b.end = c.end /\ b.frags = c.frags
  BY <1>3 DEF SkBuffs
<1>6. kept /\ StringIs(c, string[s]) => StringIs(b, bytes) BY <1>1, <1>3, <1>4, PutString
<1>7. kept \in BOOLEAN OBVIOUS
<1> HIDE DEF b, kept, bytes
<1>8. b.tail <= b.end /\ (b.dlen <= b.len => b.data + (b.len - b.dlen) <= b.tail)
  <2> DEFINE h == HeadLen(c) + n
  <2>1. n <= c.end - c.tail BY <1>1
  <2>2. b.tail <= b.end BY <1>3, <1>5, <2>1
  <2>3. h \in Nat /\ b.len = h + b.dlen /\ b.data + h <= b.tail
    <3> DEFINE g == HeadLen(c)
    <3>1. /\ g \in Nat /\ c.data \in Nat /\ c.dlen \in Nat /\ c.tail \in Nat /\ c.len = g + c.dlen
          /\ c.data + g <= c.tail /\ h = g + n
      BY <1>3
    <3> HIDE DEF g, h
    <3> QED BY ONLY <3>1, <1>5, n \in Nat
  <2> HIDE DEF h
  <2>4. b.data \in Nat /\ b.len \in Nat /\ b.dlen \in Nat /\ b.tail \in Nat BY <1>4, FieldsOf
  <2> QED BY <2>2, <2>3, <2>4, RoomIs
<1>9. Bounded(b, psize') BY <1>1, <1>2, <1>4, <1>5, <1>8, SameRoom DEF c
<1> QED BY <1>1, <1>2, <1>6, <1>7, <1>9, MeansStep DEF c

(* skb_push: before the data.                                              *)
LEMMA PushBytes ==
  ASSUME BytesInv, SkbInv', NEW s \in Skbs, NEW n \in Nat, skb_push(s, n)
  PROVE  BytesInv'
<1> DEFINE c == skb[s]
           b == [c EXCEPT !.data = @ - n, !.len = @ + n]
           kept == TRUE
           bytes == Places(c.head, c.data - n, n) \o string[s]
<1>1. /\ Live(s) /\ lcompat_skb_valid_bounds(c) /\ n <= c.data
      /\ Becomes(s, b) /\ Means(s, kept, bytes) /\ psize' = psize
  BY DEF skb_push
<1>2. SizesKept BY <1>1 DEF SizesKept
<1>3. /\ c \in SkBuffs /\ c.head \in Pages /\ c.data \in Nat /\ c.len \in Nat
      /\ c.dlen \in Nat /\ c.tail \in Nat /\ c.end \in Nat /\ HeadLen(c) \in Nat /\ c.tail <= c.end
      /\ c.frags \in Seq(SkbFrags)
      /\ c.len = HeadLen(c) + c.dlen /\ c.data + HeadLen(c) <= c.tail
  BY <1>1, Accepted
<1> HIDE DEF c
<1>4. b \in SkBuffs
  <2>0. n <= c.data BY <1>1
  <2>2. c.data \in Nat /\ c.len \in Nat BY <1>3
  <2>1. c.data - n \in Nat /\ c.len + n \in Nat BY ONLY <2>0, <2>2, n \in Nat
  <2> QED BY <1>3, <2>1, Updated
<1>5. /\ b.data = c.data - n /\ b.len = c.len + n /\ b.head = c.head /\ b.tail = c.tail /\ b.dlen = c.dlen
      /\ b.end = c.end /\ b.frags = c.frags
  BY <1>3 DEF SkBuffs
<1>6. kept /\ StringIs(c, string[s]) => StringIs(b, bytes) BY <1>1, <1>3, <1>4, PushString
<1>7. kept \in BOOLEAN OBVIOUS
<1> HIDE DEF b, kept, bytes
<1>8. b.tail <= b.end /\ (b.dlen <= b.len => b.data + (b.len - b.dlen) <= b.tail)
  <2> DEFINE h == HeadLen(c) + n
  <2>1. n <= c.data BY <1>1
  <2>2. b.tail <= b.end BY <1>3, <1>5
  <2>3. h \in Nat /\ b.len = h + b.dlen /\ b.data + h <= b.tail
    <3> DEFINE g == HeadLen(c)
    <3>1. /\ g \in Nat /\ c.data \in Nat /\ c.dlen \in Nat /\ c.tail \in Nat /\ c.len = g + c.dlen
          /\ c.data + g <= c.tail /\ h = g + n
      BY <1>3
    <3> HIDE DEF g, h
    <3> QED BY ONLY <3>1, <1>5, <2>1, n \in Nat
  <2> HIDE DEF h
  <2>4. b.data \in Nat /\ b.len \in Nat /\ b.dlen \in Nat /\ b.tail \in Nat BY <1>4, FieldsOf
  <2> QED BY <2>2, <2>3, <2>4, RoomIs
<1>9. Bounded(b, psize') BY <1>1, <1>2, <1>4, <1>5, <1>8, SameRoom DEF c
<1> QED BY <1>1, <1>2, <1>6, <1>7, <1>9, MeansStep DEF c

(* skb_pull: past the linear part, the lengths make no sense any more.     *)
LEMMA PullBytes ==
  ASSUME BytesInv, SkbInv', NEW s \in Skbs, NEW n \in Nat, skb_pull(s, n)
  PROVE  BytesInv'
<1> DEFINE c == skb[s]
           b == [c EXCEPT !.data = @ + n, !.len = @ - n]
           kept == n <= HeadLen(c)
           bytes == SubSeq(string[s], n + 1, c.len)
<1>1. /\ Live(s) /\ lcompat_skb_valid_bounds(c) /\ n <= c.len
      /\ Becomes(s, b) /\ Means(s, kept, bytes) /\ psize' = psize
  BY DEF skb_pull
<1>2. SizesKept BY <1>1 DEF SizesKept
<1>3. /\ c \in SkBuffs /\ c.head \in Pages /\ c.data \in Nat /\ c.len \in Nat
      /\ c.dlen \in Nat /\ c.tail \in Nat /\ c.end \in Nat /\ HeadLen(c) \in Nat /\ c.tail <= c.end
      /\ c.frags \in Seq(SkbFrags)
      /\ c.len = HeadLen(c) + c.dlen /\ c.data + HeadLen(c) <= c.tail
  BY <1>1, Accepted
<1>7. kept \in BOOLEAN OBVIOUS
<1> HIDE DEF c
<1>4. b \in SkBuffs
  <2>0. n <= c.len BY <1>1
  <2>1. c.data + n \in Nat /\ c.len - n \in Nat BY <1>3, <2>0
  <2> QED BY <1>3, <2>1, Updated
<1>5. /\ b.data = c.data + n /\ b.len = c.len - n /\ b.head = c.head /\ b.tail = c.tail /\ b.dlen = c.dlen
      /\ b.end = c.end /\ b.frags = c.frags
  BY <1>3 DEF SkBuffs
<1>6. kept /\ StringIs(c, string[s]) => StringIs(b, bytes) BY <1>1, <1>3, <1>4, PullString
<1> HIDE DEF b, kept, bytes
<1>8. b.tail <= b.end /\ (b.dlen <= b.len => b.data + (b.len - b.dlen) <= b.tail)
  <2>2. b.tail <= b.end BY <1>3, <1>5
  <2>3. ASSUME b.dlen <= b.len PROVE b.data + (b.len - b.dlen) <= b.tail
    <3> DEFINE h == HeadLen(c) - n
    <3>1. n <= c.len BY <1>1
    <3>2. h \in Nat /\ b.len = h + b.dlen /\ b.data + h <= b.tail
      <4> DEFINE g == HeadLen(c)
      <4>1. /\ g \in Nat /\ c.data \in Nat /\ c.dlen \in Nat /\ c.tail \in Nat /\ c.len = g + c.dlen
            /\ c.data + g <= c.tail /\ h = g - n
        BY <1>3
      <4> HIDE DEF g, h
      <4> QED BY ONLY <4>1, <1>5, <2>3, <3>1, n \in Nat
    <3> HIDE DEF h
    <3>3. b.data \in Nat /\ b.len \in Nat /\ b.dlen \in Nat /\ b.tail \in Nat BY <1>4, FieldsOf
    <3> QED BY <2>3, <3>2, <3>3, RoomIs
  <2> QED BY <2>2, <2>3
<1>9. Bounded(b, psize') BY <1>1, <1>2, <1>4, <1>5, <1>8, SameRoom DEF c
<1> QED BY <1>1, <1>2, <1>6, <1>7, <1>9, MeansStep DEF c

(* skb_reserve.                                                            *)
LEMMA ReserveBytes ==
  ASSUME BytesInv, SkbInv', NEW s \in Skbs, NEW n \in Nat, skb_reserve(s, n)
  PROVE  BytesInv'
<1> DEFINE c == skb[s]
           b == [c EXCEPT !.data = @ + n, !.tail = @ + n]
           kept == c.len = c.dlen
           bytes == string[s]
<1>1. /\ Live(s) /\ lcompat_skb_valid_bounds(c) /\ n <= c.end - c.tail
      /\ Becomes(s, b) /\ Means(s, kept, bytes) /\ psize' = psize
  BY DEF skb_reserve, Tailroom
<1>2. SizesKept BY <1>1 DEF SizesKept
<1>3. /\ c \in SkBuffs /\ c.head \in Pages /\ c.data \in Nat /\ c.len \in Nat
      /\ c.dlen \in Nat /\ c.tail \in Nat /\ c.end \in Nat /\ HeadLen(c) \in Nat /\ c.tail <= c.end
      /\ c.frags \in Seq(SkbFrags)
      /\ c.len = HeadLen(c) + c.dlen /\ c.data + HeadLen(c) <= c.tail
  BY <1>1, Accepted
<1>7. kept \in BOOLEAN OBVIOUS
<1> HIDE DEF c
<1>4. b \in SkBuffs
  <2>1. c.data + n \in Nat /\ c.tail + n \in Nat BY <1>3
  <2> QED BY <1>3, <2>1, Updated
<1>5. /\ b.data = c.data + n /\ b.tail = c.tail + n /\ b.len = c.len /\ b.head = c.head /\ b.dlen = c.dlen
      /\ b.end = c.end /\ b.frags = c.frags
  BY <1>3 DEF SkBuffs
<1>6. kept /\ StringIs(c, string[s]) => StringIs(b, bytes) BY <1>1, <1>3, <1>4, ReserveString
<1> HIDE DEF b, kept, bytes
<1>8. b.tail <= b.end /\ (b.dlen <= b.len => b.data + (b.len - b.dlen) <= b.tail)
  <2> DEFINE h == HeadLen(c)
  <2>1. n <= c.end - c.tail BY <1>1
  <2>2. b.tail <= b.end BY <1>3, <1>5, <2>1
  <2>3. h \in Nat /\ b.len = h + b.dlen /\ b.data + h <= b.tail BY <1>3, <1>5
  <2> HIDE DEF h
  <2>4. b.data \in Nat /\ b.len \in Nat /\ b.dlen \in Nat /\ b.tail \in Nat BY <1>4, FieldsOf
  <2> QED BY <2>2, <2>3, <2>4, RoomIs
<1>9. Bounded(b, psize') BY <1>1, <1>2, <1>4, <1>5, <1>8, SameRoom DEF c
<1> QED BY <1>1, <1>2, <1>6, <1>7, <1>9, MeansStep DEF c

(* skb_reset_tail_pointer.                                                 *)
LEMMA ResetBytes ==
  ASSUME BytesInv, SkbInv', NEW s \in Skbs, skb_reset_tail_pointer(s)
  PROVE  BytesInv'
<1> DEFINE c == skb[s]
           b == [c EXCEPT !.len = 0, !.tail = c.data]
           kept == c.dlen = 0
<1>1. /\ Live(s) /\ c.data <= c.end
      /\ Becomes(s, b) /\ Means(s, kept, <<>>) /\ psize' = psize
  BY DEF skb_reset_tail_pointer
<1>2. SizesKept BY <1>1 DEF SizesKept
<1>3. /\ c \in SkBuffs /\ c.head \in Pages /\ c.data \in Nat /\ c.dlen \in Nat /\ c.end \in Nat
      /\ c.frags \in Seq(SkbFrags)
  BY <1>1, Accepted
<1>7. kept \in BOOLEAN OBVIOUS
<1> HIDE DEF c
<1>4. b \in SkBuffs
  <2>1. 0 \in Nat OBVIOUS
  <2> QED BY <1>3, <2>1, Updated
<1>5. /\ b.data = c.data /\ b.tail = c.data /\ b.len = 0 /\ b.head = c.head /\ b.dlen = c.dlen
      /\ b.end = c.end /\ b.frags = c.frags
  BY <1>3 DEF SkBuffs
<1> HIDE DEF b
<1>6. kept => StringIs(b, <<>>) BY <1>1, <1>3, <1>4, <1>5, EmptyString
<1> HIDE DEF kept
<1>8. b.tail <= b.end /\ (b.dlen <= b.len => b.data + (b.len - b.dlen) <= b.tail)
  <2>1. b.tail <= b.end BY <1>1, <1>5
  <2>2. ASSUME b.dlen <= b.len PROVE b.data + (b.len - b.dlen) <= b.tail
    <3>1. b.dlen = 0 BY <1>3, <1>5, <2>2
    <3> QED BY <1>3, <1>5, <3>1
  <2> QED BY <2>1, <2>2
<1>9. Bounded(b, psize') BY <1>1, <1>2, <1>4, <1>5, <1>8, SameRoom DEF c
<1> QED BY <1>1, <1>2, <1>6, <1>7, <1>9, MeansStep DEF c

(* What trimming leaves of a buffer: it stays in its room.                 *)
LEMMA TrimmedRoom ==
  ASSUME NEW c \in SkBuffs, c.dlen <= c.len, NEW n \in Nat, n <= c.len, c.data + HeadLen(c) <= c.end,
         NEW b, b = Trimmed(c, n)
  PROVE  /\ b \in SkBuffs /\ b.head = c.head /\ b.end = c.end /\ (b.frags = c.frags \/ b.frags = <<>>)
         /\ b.tail <= b.end /\ (b.dlen <= b.len => b.data + (b.len - b.dlen) <= b.tail)
<1> DEFINE h == HeadLen(c)
<1>1. /\ c.head \in Pages /\ c.data \in Nat /\ c.len \in Nat /\ c.dlen \in Nat /\ c.end \in Nat
      /\ c.frags \in Seq(SkbFrags) /\ h \in Nat /\ h = c.len - c.dlen
  BY FieldsOf
<1>2. CASE n < h
  <2>1. b = [c EXCEPT !.frags = <<>>, !.dlen = 0, !.len = n, !.tail = c.data + n] BY <1>2 DEF Trimmed
  <2> HIDE DEF h
  <2>2. c.data + n \in Nat /\ <<>> \in Seq(SkbFrags) BY <1>1
  <2>8. [c EXCEPT !.frags = <<>>, !.dlen = 0, !.len = n, !.tail = c.data + n] \in SkBuffs
    BY <1>1, <2>2, Updated
  <2>3. b \in SkBuffs BY <2>1, <2>8
  <2>4. /\ b.data = c.data /\ b.tail = c.data + n /\ b.len = n /\ b.dlen = 0 /\ b.end = c.end
        /\ b.frags = <<>> /\ b.head = c.head
    BY <2>1 DEF SkBuffs
  <2>5. c.data + h <= c.end BY DEF h
  <2>6. b.tail <= b.end /\ b.data + (b.len - b.dlen) <= b.tail
    <3>1. n < h /\ h \in Nat /\ c.data \in Nat /\ c.end \in Nat BY <1>1, <1>2
    <3> QED BY ONLY <2>4, <2>5, <3>1, n \in Nat
  <2> QED BY <2>3, <2>4, <2>6
<1>3. CASE ~(n < h)
  <2>1. b = [c EXCEPT !.dlen = c.dlen - (c.len - n), !.len = n, !.tail = c.data + h] BY <1>3 DEF Trimmed
  <2>7. c.data + h <= c.end OBVIOUS
  <2> HIDE DEF h
  <2>2. c.data + h \in Nat /\ c.dlen - (c.len - n) \in Nat /\ c.dlen - (c.len - n) = n - h
    <3>1. /\ c.data \in Nat /\ c.dlen \in Nat /\ c.len \in Nat /\ h \in Nat /\ c.len = h + c.dlen
      BY <1>1
    <3> QED BY ONLY <3>1, <1>3, n \in Nat
  <2>8. [c EXCEPT !.dlen = c.dlen - (c.len - n), !.len = n, !.tail = c.data + h] \in SkBuffs
    BY <1>1, <2>2, Updated
  <2>3. b \in SkBuffs BY <2>1, <2>8
  <2>4. /\ b.data = c.data /\ b.tail = c.data + h /\ b.len = n /\ b.dlen = n - h /\ b.end = c.end
        /\ b.frags = c.frags /\ b.head = c.head
    BY <2>1, <2>2 DEF SkBuffs
  <2>6. b.tail <= b.end /\ b.data + (b.len - b.dlen) <= b.tail BY <1>1, <1>3, <2>4, <2>7
  <2> QED BY <2>3, <2>4, <2>6
<1> QED BY <1>2, <1>3

(* skb_trim, and skb_pad that ends with it.                                *)
LEMMA TrimBytes ==
  ASSUME BytesInv, SkbInv', NEW s \in Skbs, NEW n \in Nat, skb_trim(s, n)
  PROVE  BytesInv'
<1> DEFINE c == skb[s]
           b == Trimmed(c, n)
           bytes == SubSeq(string[s], 1, n)
<1>1. /\ Live(s) /\ lcompat_skb_valid_bounds(c) /\ n <= c.len
      /\ Becomes(s, b) /\ Means(s, TRUE, bytes)
  BY DEF skb_trim
<1>2. SizesKept
  <2>1. PutPages(IF n < HeadLen(skb[s]) THEN FragPages(skb[s]) ELSE <<>>) BY DEF skb_trim
  <2> QED BY <2>1, SizesKeptBy
<1>3. /\ c \in SkBuffs /\ c.data \in Nat /\ c.len \in Nat
      /\ c.dlen \in Nat /\ c.tail \in Nat /\ c.end \in Nat /\ HeadLen(c) \in Nat /\ c.tail <= c.end
      /\ c.len = HeadLen(c) + c.dlen /\ c.data + HeadLen(c) <= c.tail
  BY <1>1, Accepted
<1> HIDE DEF c
<1>4. c.dlen <= c.len /\ c.data + HeadLen(c) <= c.end BY <1>3
<1>5. /\ b \in SkBuffs /\ b.head = c.head /\ b.end = c.end /\ (b.frags = c.frags \/ b.frags = <<>>)
      /\ b.tail <= b.end /\ (b.dlen <= b.len => b.data + (b.len - b.dlen) <= b.tail)
  BY <1>1, <1>3, <1>4, TrimmedRoom
<1>6. StringIs(c, string[s]) => StringIs(b, bytes) BY <1>1, <1>3, <1>5, TrimString
<1> HIDE DEF b, bytes
<1>7. Bounded(b, psize') BY <1>1, <1>2, <1>5, SameRoom DEF c
<1> QED BY <1>1, <1>2, <1>6, <1>7, MeansStep DEF c

(* skb_pad trims what it put.                                              *)
LEMMA PadBytes ==
  ASSUME BytesInv, SkbInv', NEW s \in Skbs, NEW n \in Nat, skb_pad(s, n)
  PROVE  BytesInv'
<1> DEFINE c == skb[s]
           e == [c EXCEPT !.tail = @ + n, !.len = @ + n]
           b == Trimmed(e, c.len)
           kept == c.dlen = 0
<1>1. /\ Live(s) /\ lcompat_skb_valid_bounds(c) /\ n <= c.end - c.tail
      /\ Becomes(s, b) /\ Means(s, kept, string[s])
  BY DEF skb_pad, Tailroom
<1>2. SizesKept
  <2>1. PutPages(IF c.len < HeadLen(e) THEN FragPages(c) ELSE <<>>) BY DEF skb_pad
  <2> QED BY <2>1, SizesKeptBy
<1>3. /\ c \in SkBuffs /\ c.data \in Nat /\ c.len \in Nat
      /\ c.dlen \in Nat /\ c.tail \in Nat /\ c.end \in Nat /\ HeadLen(c) \in Nat /\ c.tail <= c.end
      /\ c.len = HeadLen(c) + c.dlen /\ c.data + HeadLen(c) <= c.tail
      /\ c.head \in Pages /\ c.frags \in Seq(SkbFrags)
  BY <1>1, Accepted
<1>8. kept \in BOOLEAN OBVIOUS
<1> HIDE DEF c
<1>4. e \in SkBuffs
  <2>1. c.tail + n \in Nat /\ c.len + n \in Nat BY <1>3
  <2> QED BY <1>3, <2>1, Updated
<1>5. /\ e.tail = c.tail + n /\ e.len = c.len + n /\ e.head = c.head /\ e.data = c.data /\ e.dlen = c.dlen
      /\ e.end = c.end /\ e.frags = c.frags
  BY <1>3 DEF SkBuffs
<1> HIDE DEF e
<1>6. c.len <= e.len /\ e.dlen <= e.len /\ e.data + HeadLen(e) <= e.end
  <2>1. e.dlen <= e.len => HeadLen(e) = e.len - e.dlen BY <1>4, FieldsOf
  <2>2. c.len <= e.len /\ e.dlen <= e.len /\ e.len - e.dlen = HeadLen(c) + n
    <3> DEFINE g == HeadLen(c)
    <3>1. g \in Nat /\ c.len \in Nat /\ c.dlen \in Nat /\ c.len = g + c.dlen BY <1>3
    <3> HIDE DEF g
    <3>2. c.len <= e.len /\ e.dlen <= e.len /\ e.len - e.dlen = g + n
      BY ONLY <3>1, <1>5, n \in Nat
    <3> QED BY ONLY <3>2 DEF g
  <2>3. n <= c.end - c.tail BY <1>1
  <2> DEFINE h == HeadLen(c)
             g == HeadLen(e)
  <2>4. /\ h \in Nat /\ c.data \in Nat /\ c.tail \in Nat /\ c.end \in Nat /\ c.data + h <= c.tail
        /\ g = h + n /\ e.data = c.data /\ e.end = c.end
    BY <1>3, <1>5, <2>1, <2>2
  <2> HIDE DEF h, g
  <2>5. c.data + (h + n) <= c.end BY <2>3, <2>4
  <2>6. e.data + g <= e.end BY <2>4, <2>5
  <2> QED BY <2>2, <2>6 DEF g
<1>7. /\ b \in SkBuffs /\ b.head = e.head /\ b.end = e.end /\ (b.frags = e.frags \/ b.frags = <<>>)
      /\ b.tail <= b.end /\ (b.dlen <= b.len => b.data + (b.len - b.dlen) <= b.tail)
  BY <1>3, <1>4, <1>6, TrimmedRoom
<1>9. kept /\ StringIs(c, string[s]) => StringIs(b, string[s])
  BY <1>1, <1>3, <1>4, <1>7, PadString DEF e
<1> HIDE DEF b, kept
<1>10. Bounded(b, psize') BY <1>1, <1>2, <1>5, <1>7, SameRoom DEF c
<1> QED BY <1>1, <1>2, <1>8, <1>9, <1>10, MeansStep DEF c

(* A new buffer, over a page that is large enough.                         *)
LEMMA NewBuffer ==
  ASSUME NEW p \in Pages, NEW end \in Nat, NEW sizes, end <= sizes[p], NEW b, b = NewSkb(p, end)
  PROVE  b \in SkBuffs /\ Bounded(b, sizes) /\ StringIs(b, <<>>)
<1>1. b \in SkBuffs BY DEF NewSkb, SkBuffs
<1>2. /\ b.head = p /\ b.data = 0 /\ b.len = 0 /\ b.dlen = 0 /\ b.tail = 0 /\ b.end = end /\ b.frags = <<>>
  BY DEF NewSkb
<1>3. StringIs(b, <<>>)
  <2> b.tail <= b.end BY <1>2
  <2> QED BY <1>1, <1>2, EmptyString
<1>4. Bounded(b, sizes) BY <1>2 DEF Bounded
<1> QED BY <1>1, <1>3, <1>4

(* The size of a new page, and of the pages that stay.                     *)
LEMMA NewPage ==
  ASSUME SkbInv, NEW p \in Pages, NEW end \in Nat, NEW pages, AllocThenPut(p, FrameBytes(end), pages)
  PROVE  SizesKept /\ end <= psize'[p]
<1>1. SizesKept BY SizesKeptBy
<1>2. psize'[p] = FrameBytes(end) BY DEF AllocThenPut
<1>3. end <= FrameBytes(end) BY OrderFits
<1> QED BY <1>1, <1>2, <1>3

(* alloc_skb: the page is as large as `end` says.                          *)
LEMMA AllocBytes ==
  ASSUME BytesInv, SkbInv', NEW s \in Skbs, NEW p \in Pages, NEW n \in Nat, alloc_skb(s, p, n)
  PROVE  BytesInv'
<1> DEFINE b == NewSkb(p, n)
<1>1. /\ AllocThenPut(p, FrameBytes(n), <<>>) /\ Becomes(s, b) /\ string' = [string EXCEPT ![s] = <<>>]
  BY DEF alloc_skb, PageAlloc
<1>2. SkbInv BY DEF BytesInv
<1>3. SizesKept /\ n <= psize'[p] BY <1>1, <1>2, NewPage
<1>4. b \in SkBuffs /\ Bounded(b, psize') /\ StringIs(b, <<>>) BY <1>3, NewBuffer
<1> HIDE DEF b
<1> QED BY <1>1, <1>3, <1>4, BytesStep

(* build_skb: over the whole page of the driver.                           *)
LEMMA BuildBytes ==
  ASSUME BytesInv, SkbInv', NEW s \in Skbs, NEW p \in Pages, build_skb(s, p)
  PROVE  BytesInv'
<1> DEFINE b == NewSkb(p, psize[p])
<1>1. SkbInv BY DEF BytesInv
<1>2. psize \in [Pages -> Nat] /\ refs[p] > 0 /\ psize[p] > 0 BY <1>1, HeldPage DEF build_skb, SkbInv, SkbTypeOK
<1>3. virt_to_head_page(p, 0) = p BY <1>2 DEF virt_to_head_page
<1>4. Becomes(s, b) /\ string' = [string EXCEPT ![s] = <<>>] /\ psize' = psize BY <1>3 DEF build_skb
<1>5. SizesKept BY <1>4 DEF SizesKept
<1>6. psize[p] \in Nat /\ psize[p] <= psize'[p] BY <1>2, <1>4
<1>7. b \in SkBuffs /\ Bounded(b, psize') /\ StringIs(b, <<>>) BY <1>6, NewBuffer
<1> HIDE DEF b
<1> QED BY <1>4, <1>5, <1>7, BytesStep

(* kfree_skb.                                                              *)
LEMMA FreeBytes ==
  ASSUME BytesInv, SkbInv', NEW s \in Skbs, kfree_skb(s)
  PROVE  BytesInv'
<1>1. /\ PutPages(<<skb[s].head>> \o FragPages(skb[s])) /\ Becomes(s, None)
      /\ string' = [string EXCEPT ![s] = <<>>]
  BY DEF kfree_skb
<1>2. SizesKept BY <1>1, SizesKeptBy
<1> QED BY <1>1, <1>2, BytesStep

(* skb_copy: the copy is a string of its own.                              *)
LEMMA CopyBytes ==
  ASSUME BytesInv, SkbInv', NEW s \in Skbs, NEW t \in Skbs, NEW p \in Pages, skb_copy(s, t, p)
  PROVE  BytesInv'
<1> DEFINE c == skb[s]
           h == HeadLen(c)
           b == [c EXCEPT !.head = p, !.tail = c.data + h, !.len = h, !.dlen = 0, !.frags = <<>>]
           z == IF c.dlen = 0 /\ string[s] # Lost THEN Places(p, c.data, c.len) ELSE Lost
<1>1. /\ Live(s) /\ lcompat_skb_valid_bounds(c) /\ AllocThenPut(p, FrameBytes(c.end), <<>>)
      /\ Becomes(t, b) /\ string' = [string EXCEPT ![t] = z]
  BY DEF skb_copy, PageAlloc
<1>2. SkbInv BY DEF BytesInv
<1>3. /\ c \in SkBuffs /\ c.data \in Nat /\ c.len \in Nat
      /\ c.dlen \in Nat /\ c.tail \in Nat /\ c.end \in Nat /\ h \in Nat /\ c.tail <= c.end
      /\ c.len = h + c.dlen /\ c.data + h <= c.tail
  BY <1>1, Accepted
<1> HIDE DEF c
<1>4. SizesKept /\ c.end <= psize'[p] BY <1>1, <1>2, <1>3, NewPage
<1>5. b \in SkBuffs
  <2>1. c.data + h \in Nat /\ <<>> \in Seq(SkbFrags) BY <1>3
  <2> HIDE DEF h
  <2> QED BY <1>3, <2>1, Updated
<1>6. /\ b.head = p /\ b.data = c.data /\ b.tail = c.data + h /\ b.len = h /\ b.dlen = 0 /\ b.end = c.end
      /\ b.frags = <<>>
  BY <1>3 DEF SkBuffs
<1> HIDE DEF b, h
<1>7. b.tail <= b.end /\ b.data + (b.len - b.dlen) <= b.tail BY <1>3, <1>6
<1>8. Bounded(b, psize') BY <1>4, <1>6, <1>7 DEF Bounded
<1>9. ASSUME z # Lost PROVE StringIs(b, z)
  <2>1. c.dlen = 0 /\ z = Places(p, c.data, c.len) BY <1>9
  <2>2. z = Places(b.head, b.data, b.len) BY <1>3, <1>6, <2>1
  <2>3. b.tail = b.data + b.len BY <1>6
  <2> QED BY <1>5, <1>6, <1>7, <2>2, <2>3, LinearString
<1> HIDE DEF z
<1> QED BY <1>1, <1>4, <1>8, <1>9, BytesStep

(* skb_cow_head and skb_linearize: to a page large enough.                 *)
LEMMA CowBytes ==
  ASSUME BytesInv, SkbInv', NEW s \in Skbs, NEW p \in Pages, NEW n \in Nat, skb_cow_head(s, p, n)
  PROVE  BytesInv'
<1> DEFINE c == skb[s]
           h == HeadLen(c)
           end == n + h + (c.end - c.tail)
           b == [c EXCEPT !.head = p, !.data = n, !.tail = n + h, !.end = end]
           bytes == Places(p, n, h) \o SubSeq(string[s], h + 1, c.len)
<1>1. /\ Live(s) /\ lcompat_skb_valid_bounds(c) /\ AllocThenPut(p, FrameBytes(end), <<c.head>>)
      /\ Becomes(s, b) /\ Means(s, TRUE, bytes)
  BY DEF skb_cow_head
<1>2. SkbInv BY DEF BytesInv
<1>3. /\ c \in SkBuffs /\ c.tail \in Nat /\ c.end \in Nat /\ h \in Nat /\ c.tail <= c.end
      /\ c.dlen \in Nat /\ c.len \in Nat /\ c.len = h + c.dlen /\ c.frags \in Seq(SkbFrags)
  BY <1>1, Accepted
<1> HIDE DEF c
<1>4. end \in Nat /\ n + h \in Nat /\ n + h <= end
  <2>1. h \in Nat /\ c.tail \in Nat /\ c.end \in Nat /\ c.tail <= c.end BY <1>3
  <2> HIDE DEF h
  <2>2. c.end - c.tail \in Nat BY <2>1
  <2> QED BY <2>1, <2>2
<1> HIDE DEF end
<1>5. SizesKept /\ end <= psize'[p] BY <1>1, <1>2, <1>4, NewPage
<1>6. b \in SkBuffs
  <2> HIDE DEF h
  <2> QED BY <1>3, <1>4, Updated
<1>7. /\ b.head = p /\ b.data = n /\ b.tail = n + h /\ b.end = end /\ b.len = c.len /\ b.dlen = c.dlen
      /\ b.frags = c.frags
  BY <1>3 DEF SkBuffs
<1>8. StringIs(c, string[s]) => StringIs(b, bytes) BY <1>3, <1>4, <1>6, CowString
<1> HIDE DEF b, h, bytes
<1>9. b.tail <= b.end /\ b.data + (b.len - b.dlen) <= b.tail BY <1>3, <1>4, <1>7
<1>10. \A i \in DOMAIN b.frags : b.frags[i].off + b.frags[i].size <= psize'[b.frags[i].page]
  <2>1. skb'[s] = b BY <1>1, <1>2 DEF SkbInv, SkbTypeOK, Becomes
  <2>2. skb'[s] # None /\ skb'[s].frags = skb[s].frags BY <1>6, <1>7, <2>1, NoneAssumption DEF c
  <2> QED BY <1>1, <1>5, <2>1, <2>2, FragsInside
<1>11. Bounded(b, psize') BY <1>5, <1>7, <1>9, <1>10 DEF Bounded
<1> QED BY <1>1, <1>5, <1>8, <1>11, MeansStep DEF c

(* skb_linearize.                                                          *)
LEMMA LinearizeBytes ==
  ASSUME BytesInv, SkbInv', NEW s \in Skbs, NEW p \in Pages, skb_linearize(s, p)
  PROVE  BytesInv'
<1> DEFINE c == skb[s]
           end == c.data + c.len
           b == [c EXCEPT !.head = p, !.tail = end, !.end = end, !.dlen = 0, !.frags = <<>>]
           kept == Gathered(c) = string[s]
           bytes == Places(p, c.data, c.len)
<1>1. /\ Live(s) /\ AllocThenPut(p, FrameBytes(end), MovedOff(c))
      /\ Becomes(s, b) /\ Means(s, kept, bytes)
  BY DEF skb_linearize
<1>2. SkbInv BY DEF BytesInv
<1>3. c \in SkBuffs /\ c.data \in Nat /\ c.len \in Nat /\ <<>> \in Seq(SkbFrags) BY <1>1, Accepted
<1>4. end \in Nat BY <1>3
<1>5. SizesKept /\ end <= psize'[p] BY <1>1, <1>2, <1>4, NewPage
<1>6. kept \in BOOLEAN OBVIOUS
<1> HIDE DEF c
<1>7. b \in SkBuffs
  <2> HIDE DEF end
  <2> QED BY <1>3, <1>4, Updated
<1>8. /\ b.head = p /\ b.data = c.data /\ b.tail = end /\ b.end = end /\ b.len = c.len /\ b.dlen = 0
      /\ b.frags = <<>>
  BY <1>3 DEF SkBuffs
<1> HIDE DEF b
<1>9. b.tail = b.data + b.len /\ b.tail <= b.end BY <1>4, <1>8
<1>10. StringIs(b, bytes) BY <1>7, <1>8, <1>9, LinearString
<1> HIDE DEF end, kept, bytes
<1>11. b.data + (b.len - b.dlen) <= b.tail BY <1>3, <1>4, <1>8, <1>9
<1>12. Bounded(b, psize') BY <1>5, <1>8, <1>9, <1>11 DEF Bounded
<1> QED BY <1>1, <1>5, <1>6, <1>10, <1>12, MeansStep DEF c

(* skb_add_rx_frag: the new fragment is inside its page, too.              *)
LEMMA AddBytes ==
  ASSUME BytesInv, SkbInv', NEW s \in Skbs, NEW p \in Pages, NEW off \in Nat, NEW n \in Nat,
         skb_add_rx_frag(s, p, off, n)
  PROVE  BytesInv'
<1> DEFINE c == skb[s]
           f == Piece(p, off, n)
           b == [c EXCEPT !.frags = Append(@, f), !.len = @ + n, !.dlen = @ + n]
           kept == Uncut(c)
           bytes == string[s] \o Places(p, off, n)
<1>1. /\ Live(s) /\ off + n <= psize[p] /\ Becomes(s, b) /\ Means(s, kept, bytes) /\ psize' = psize
  BY DEF skb_add_rx_frag
<1>2. SizesKept BY <1>1 DEF SizesKept
<1>3. /\ c \in SkBuffs /\ c.data \in Nat /\ c.len \in Nat /\ c.dlen \in Nat /\ c.tail \in Nat
      /\ c.frags \in Seq(SkbFrags)
  BY <1>1, Accepted
<1>4. Bounded(c, psize) BY <1>1, LiveBounded
<1>5. kept \in BOOLEAN BY DEF Uncut
<1> HIDE DEF c
<1>6. f \in SkbFrags /\ f.page = p /\ f.off = off /\ f.size = n BY DEF Piece, SkbFrags
<1>7. b \in SkBuffs
  <2>1. c.len + n \in Nat /\ c.dlen + n \in Nat /\ Append(c.frags, f) \in Seq(SkbFrags) BY <1>3, <1>6
  <2> HIDE DEF f
  <2> QED BY <1>3, <2>1, Updated
<1>8. kept /\ StringIs(c, string[s]) => StringIs(b, bytes) BY <1>3, <1>7, AddString
<1> HIDE DEF f
<1>9. /\ b.head = c.head /\ b.data = c.data /\ b.tail = c.tail /\ b.end = c.end
      /\ b.len = c.len + n /\ b.dlen = c.dlen + n /\ b.frags = Append(c.frags, f)
  BY <1>3 DEF SkBuffs
<1> HIDE DEF b, kept, bytes
<1>10. ASSUME NEW i \in DOMAIN b.frags PROVE b.frags[i].off + b.frags[i].size <= psize'[b.frags[i].page]
  <2>1. CASE i \in DOMAIN c.frags
    <3>1. b.frags[i] = c.frags[i] BY <1>3, <1>6, <1>9, <2>1
    <3> QED BY <1>1, <1>4, <2>1, <3>1 DEF Bounded
  <2>2. CASE i \notin DOMAIN c.frags
    <3>1. b.frags[i] = f BY <1>3, <1>6, <1>9, <2>2
    <3> QED BY <1>1, <1>6, <3>1
  <2> QED BY <2>1, <2>2
<1>11. b.dlen <= b.len => b.data + (b.len - b.dlen) <= b.tail
  <2>1. c.dlen <= c.len => c.data + (c.len - c.dlen) <= c.tail BY <1>4 DEF Bounded
  <2>2. (b.dlen <= b.len <=> c.dlen <= c.len) /\ b.len - b.dlen = c.len - c.dlen BY <1>3, <1>9
  <2> QED BY <1>9, <2>1, <2>2
<1>12. b.tail <= b.end /\ b.end <= psize'[b.head] BY <1>1, <1>4, <1>9 DEF Bounded
<1>13. Bounded(b, psize') BY <1>10, <1>11, <1>12 DEF Bounded
<1> QED BY <1>1, <1>2, <1>5, <1>8, <1>13, MeansStep DEF c

(* The drivers' own references.                                            *)
LEMMA PageBytes ==
  ASSUME BytesInv, SkbInv', NEW p \in Pages,
         get_page(p) \/ put_page(p) \/ \E n \in Lengths : page_pool_alloc_frag(p, n)
  PROVE  BytesInv'
<1>1. CASE get_page(p)
  <2>1. UNCHANGED psize /\ UNCHANGED <<skb, string>> BY <1>1 DEF get_page
  <2>2. SizesKept BY <2>1 DEF SizesKept
  <2> QED BY <2>1, <2>2, BytesPages
<1>2. CASE put_page(p)
  <2>1. PutPages(<<p>>) /\ UNCHANGED <<skb, string>> BY <1>2 DEF put_page
  <2>2. SizesKept BY <2>1, SizesKeptBy
  <2> QED BY <2>1, <2>2, BytesPages
<1>3. ASSUME NEW n \in Lengths, page_pool_alloc_frag(p, n) PROVE BytesInv'
  <2>1. AllocThenPut(p, n, <<>>) /\ UNCHANGED <<skb, string>> BY <1>3 DEF page_pool_alloc_frag, PageAlloc
  <2>2. SizesKept BY <2>1, SizesKeptBy
  <2> QED BY <2>1, <2>2, BytesPages
<1> QED BY <1>1, <1>2, <1>3

(* At first there is no buffer; every step and every stutter keeps them.   *)
LEMMA BytesInitInv == SkbInit => BytesInv
<1> SUFFICES ASSUME SkbInit PROVE BytesInv OBVIOUS
<1>1. SkbInv BY SkbInitInv
<1>2. \A s \in Skbs : ~Live(s) BY DEF SkbInit, Live
<1>3. string = [s \in Skbs |-> string[s]] BY DEF SkbInit
<1> QED BY <1>1, <1>2, <1>3 DEF BytesInv, Bounds, Strings

(* A step of any operation.                                                *)
LEMMA BytesStepInv == BytesInv /\ SkbNext => BytesInv'
<1> SUFFICES ASSUME BytesInv, SkbNext PROVE BytesInv' OBVIOUS
<1>0. SkbInv'
  <2> SkbInv BY DEF BytesInv
  <2> QED BY SkbStepInv
<1>n. Lengths \subseteq Nat /\ 0 .. MaxLen \subseteq Nat /\ 0 .. (MaxLen - 1) \subseteq Nat
  BY SkbAssumption DEF Lengths
<1>1. ASSUME NEW p \in Pages, PageStep(p) PROVE BytesInv'
  BY <1>0, <1>1, PageBytes, CopyBytes DEF PageStep
<1>2. ASSUME NEW s \in Skbs, kfree_skb(s) PROVE BytesInv'
  BY <1>0, <1>2, FreeBytes
<1>3. ASSUME NEW s \in Skbs, SkbStep(s) PROVE BytesInv'
  <2>1. ASSUME NEW p \in Pages, build_skb(s, p) PROVE BytesInv' BY <1>0, <2>1, BuildBytes
  <2>2. ASSUME NEW p \in Pages, skb_linearize(s, p) PROVE BytesInv' BY <1>0, <2>2, LinearizeBytes
  <2>3. ASSUME NEW p \in Pages, NEW n \in Lengths, skb_cow_head(s, p, n) PROVE BytesInv'
    <3> n \in Nat BY <1>n
    <3> QED BY <1>0, <2>3, CowBytes
  <2>4. ASSUME NEW p \in Pages, NEW n \in 0 .. MaxLen, alloc_skb(s, p, n) PROVE BytesInv'
    <3> n \in Nat BY <1>n
    <3> QED BY <1>0, <2>4, AllocBytes
  <2>5. ASSUME NEW p \in Pages, NEW off \in 0 .. (MaxLen - 1), NEW n \in Lengths, skb_add_rx_frag(s, p, off, n)
        PROVE BytesInv'
    <3> off \in Nat /\ n \in Nat BY <1>n
    <3> QED BY <1>0, <2>5, AddBytes
  <2>6. ASSUME NEW n \in Lengths,
               skb_put(s, n) \/ skb_push(s, n) \/ skb_pull(s, n) \/ skb_reserve(s, n) \/ skb_pad(s, n)
        PROVE BytesInv'
    <3> n \in Nat BY <1>n
    <3> QED BY <1>0, <2>6, PutBytes, PushBytes, PullBytes, ReserveBytes, PadBytes
  <2>8. ASSUME NEW n \in 0 .. MaxLen, skb_trim(s, n) PROVE BytesInv'
    <3> n \in Nat BY <1>n
    <3> QED BY <1>0, <2>8, TrimBytes
  <2>9. CASE skb_reset_tail_pointer(s) BY <1>0, <2>9, ResetBytes
  <2> QED BY <1>3, <2>1, <2>2, <2>3, <2>4, <2>5, <2>6, <2>8, <2>9 DEF SkbStep
<1> QED BY <1>1, <1>2, <1>3 DEF SkbNext

(* A step elsewhere.                                                       *)
LEMMA BytesStutterInv == BytesInv /\ UNCHANGED skbVars => BytesInv'
<1> SUFFICES ASSUME BytesInv, UNCHANGED skbVars PROVE BytesInv' OBVIOUS
<1>1. SkbInv BY DEF BytesInv
<1>2. SkbInv' BY <1>1, SkbStutterInv
<1>3. SizesKept BY DEF SizesKept, skbVars
<1> QED BY <1>2, <1>3, BytesPages DEF skbVars

(* Rooms and strings, always.                                              *)
LEMMA BytesInvariant == SkbSpec => []BytesInv
<1>2. BytesInv /\ [SkbNext]_skbVars => BytesInv' BY BytesStepInv, BytesStutterInv
<1> QED BY BytesInitInv, <1>2, PTL DEF SkbSpec

(***************************************************************************)
(* A buffer stays inside its pages and reads as its string.                *)
(***************************************************************************)

(* The pieces of pages that are still allocated.                           *)
InPage(f) == refs[f.page] > 0 /\ f.off + f.size <= psize[f.page]
InPages == {f \in SkbFrags : InPage(f)}

(* A part of such a piece is one, too.                                     *)
LEMMA InPagesClosed ==
  ASSUME psize \in [Pages -> Nat]
  PROVE  ClosedUnderCutting(InPages)
<1> SUFFICES ASSUME NEW f \in InPages, NEW a \in Nat, NEW n \in Nat, a + n <= f.size
             PROVE Piece(f.page, f.off + a, n) \in InPages
  BY DEF ClosedUnderCutting
<1> DEFINE g == Piece(f.page, f.off + a, n)
<1>1. f.page \in Pages /\ f.off \in Nat /\ f.size \in Nat /\ refs[f.page] > 0 /\ f.off + f.size <= psize[f.page]
  BY DEF InPages, InPage, SkbFrags
<1>2. g.page = f.page /\ g.off = f.off + a /\ g.size = n /\ g \in SkbFrags BY <1>1 DEF Piece, SkbFrags
<1>3. psize[f.page] \in Nat BY <1>1
<1>4. (f.off + a) + n <= psize[f.page] BY <1>1, <1>3
<1> HIDE DEF g
<1>5. g \in InPages BY <1>1, <1>2, <1>4 DEF InPages, InPage
<1> QED BY <1>5 DEF g

(* The linear part of a buffer, while its lengths make sense.              *)
LEMMA LinearIn ==
  ASSUME BytesInv, NEW s \in Skbs, Live(s), NEW o \in Nat, NEW m \in Nat, o < HeadLen(skb[s]),
         m <= HeadLen(skb[s]) - o, NEW f, f = Piece(skb[s].head, skb[s].data + o, m)
  PROVE  f \in InPages /\ (m > 0 => skb[s].data + o < psize[skb[s].head])
<1> DEFINE c == skb[s]
           h == HeadLen(c)
<1>1. /\ c \in SkBuffs /\ c.head \in Pages /\ c.data \in Nat /\ c.len \in Nat
      /\ c.dlen \in Nat /\ c.tail \in Nat /\ c.end \in Nat /\ h \in Nat
  BY Accepted
<1>2. Bounded(c, psize) BY LiveBounded
<1>3. refs[c.head] > 0
  <2> UsesPage(c, c.head) BY DEF UsesPage
  <2> QED BY <1>1, UsedPage DEF BytesInv
<1>4. psize[c.head] \in Nat BY <1>1 DEF BytesInv, SkbInv, SkbTypeOK
<1>5. o < h /\ m <= h - o /\ f = Piece(c.head, c.data + o, m) OBVIOUS
<1>6. c.dlen <= c.len /\ h = c.len - c.dlen BY <1>1, <1>5 DEF HeadLen
<1> HIDE DEF c, h
<1>7. c.data + h <= psize[c.head]
  <2>1. c.tail <= c.end /\ c.end <= psize[c.head] /\ c.data + (c.len - c.dlen) <= c.tail
    BY <1>2, <1>6 DEF Bounded
  <2> QED BY <1>1, <1>4, <1>6, <2>1
<1>8. f \in SkbFrags /\ f.page = c.head /\ f.off = c.data + o /\ f.size = m
  <2> c.data + o \in Nat BY <1>1
  <2> QED BY <1>1, <1>5 DEF Piece, SkbFrags
<1>9. (c.data + o) + m <= psize[c.head] BY <1>1, <1>4, <1>5, <1>7
<1>10. m > 0 => c.data + o < psize[c.head] BY <1>1, <1>4, <1>5, <1>7
<1>11. f \in InPages BY <1>3, <1>8, <1>9 DEF InPages, InPage
<1> QED BY <1>10, <1>11 DEF c

(* What a buffer refers to is in its pages: its fragments, its head, and   *)
(* every list of pieces made of it.                                        *)
LEMMA FragsAreIn ==
  ASSUME BytesInv, NEW s \in Skbs, Live(s)
  PROVE  skb[s].frags \in Seq(InPages)
<1>1. skb[s].frags \in Seq(SkbFrags) BY Accepted
<1>2. ASSUME NEW i \in DOMAIN skb[s].frags PROVE skb[s].frags[i] \in InPages
  <2>1. skb[s].frags[i] \in SkbFrags BY <1>1
  <2>2. skb[s].frags[i].page \in Pages BY <2>1 DEF SkbFrags
  <2>3. UsesPage(skb[s], skb[s].frags[i].page) BY DEF UsesPage
  <2>4. refs[skb[s].frags[i].page] > 0 BY <2>2, <2>3, UsedPage DEF BytesInv
  <2>5. skb[s].frags[i].off + skb[s].frags[i].size <= psize[skb[s].frags[i].page]
    BY LiveBounded DEF Bounded
  <2> QED BY <2>1, <2>4, <2>5 DEF InPages, InPage
<1> QED BY <1>1, <1>2

(* The lists that skb_to_sgvec makes.                                      *)
LEMMA ListIn ==
  ASSUME BytesInv, NEW s \in Skbs, Live(s), NEW o \in 0 .. (skb[s].len - 1), NEW n \in Nat, n > 0
  PROVE  skb_to_sgvec(skb[s], o, n) \in Seq(InPages)
<1> DEFINE c == skb[s]
           base == SgBase(c, o, n)
           want == Least(n, c.len - o)
           m == Least(HeadLen(c) - o, want)
<1>1. c \in SkBuffs /\ c.len \in Nat BY Accepted
<1>2. ClosedUnderCutting(InPages) /\ InPages \in SUBSET SkbFrags
  BY InPagesClosed DEF BytesInv, SkbInv, SkbTypeOK, InPages
<1>3. c.frags \in Seq(InPages) BY FragsAreIn
<1>4. base \in SgStates(SkbFrags) /\ SgBegins(c, o, want, m, base) BY <1>1, SgBaseIs
<1>5. o \in Nat BY <1>1
<1>6. base.out \in Seq(InPages)
  <2>1. CASE o < HeadLen(c)
    <3>1. m \in Nat /\ m <= HeadLen(c) - o /\ base.out = <<Piece(c.head, c.data + o, m)>>
      BY <1>4, <2>1 DEF SgBegins
    <3> HIDE DEF m, base
    <3>2. Piece(c.head, c.data + o, m) \in InPages BY <1>5, <2>1, <3>1, LinearIn
    <3> QED BY <3>1, <3>2
  <2>2. CASE ~(o < HeadLen(c))
    <3>1. base.out = <<>> BY <1>4, <2>2 DEF SgBegins
    <3> QED BY <3>1
  <2> QED BY <2>1, <2>2
<1> HIDE DEF base, want, m
<1>7. base \in SgStates(InPages)
  <2>1. base = [skip |-> base.skip, left |-> base.left, out |-> base.out]
        /\ base.skip \in Nat /\ base.left \in Nat
    BY <1>4 DEF SgStates
  <2> QED BY <1>6, <2>1 DEF SgStates
<1>8. FoldLeft(SgTake, base, c.frags) \in SgStates(InPages)
  <2>1. PICK acc \in [0 .. Len(c.frags) -> SgStates(InPages)] : FoldLeft(SgTake, base, c.frags) = acc[Len(c.frags)]
    BY <1>2, <1>3, <1>7, SgFold
  <2>2. Len(c.frags) \in 0 .. Len(c.frags) BY <1>3
  <2> QED BY <2>1, <2>2
<1>9. SgEnd(c, o, n).out \in Seq(InPages) BY <1>8 DEF SgEnd, SgStates, base
<1>10. <<>> \in Seq(InPages) OBVIOUS
<1> QED BY <1>9, <1>10, SgvecIs

(* All of it: a buffer and its lists are inside their pages.               *)
LEMMA InsideHolds == BytesInv => Inside
<1> SUFFICES ASSUME BytesInv, NEW s \in Skbs, Live(s)
             PROVE  /\ skb[s].tail <= skb[s].end
                    /\ InPage(Piece(skb[s].head, 0, skb[s].end))
                    /\ \A i \in DOMAIN skb[s].frags : InPage(skb[s].frags[i])
                    /\ \A o \in 0 .. (skb[s].len - 1), n \in Lengths :
                         \A i \in DOMAIN skb_to_sgvec(skb[s], o, n) : InPage(skb_to_sgvec(skb[s], o, n)[i])
  BY DEF Inside, InPage
<1>1. skb[s].tail <= skb[s].end /\ skb[s].end <= psize[skb[s].head] BY LiveBounded
<1>2. skb[s].head \in Pages /\ skb[s].end \in Nat BY Accepted
<1>3. refs[skb[s].head] > 0
  <2> UsesPage(skb[s], skb[s].head) BY DEF UsesPage
  <2> QED BY <1>2, UsedPage DEF BytesInv
<1>4. InPage(Piece(skb[s].head, 0, skb[s].end)) BY <1>1, <1>2, <1>3 DEF InPage, Piece
<1>5. \A i \in DOMAIN skb[s].frags : InPage(skb[s].frags[i])
  <2> TAKE i \in DOMAIN skb[s].frags
  <2>1. skb[s].frags[i] \in InPages BY FragsAreIn
  <2> QED BY <2>1 DEF InPages
<1>6. ASSUME NEW o \in 0 .. (skb[s].len - 1), NEW n \in Lengths, NEW i \in DOMAIN skb_to_sgvec(skb[s], o, n)
      PROVE InPage(skb_to_sgvec(skb[s], o, n)[i])
  <2>1. n \in Nat /\ n > 0 BY SkbAssumption DEF Lengths
  <2>2. skb_to_sgvec(skb[s], o, n) \in Seq(InPages) BY <2>1, ListIn
  <2>3. skb_to_sgvec(skb[s], o, n)[i] \in InPages BY <2>2
  <2> QED BY <2>3 DEF InPages
<1> QED BY <1>1, <1>4, <1>5, <1>6

(* And while nobody misuses a buffer, it reads as its string.              *)
LEMMA StringHolds ==
  ASSUME BytesInv, NEW s \in Skbs, Live(s), string[s] # Lost
  PROVE  /\ lcompat_skb_valid_bounds(skb[s]) /\ Gathered(skb[s]) = string[s]
         /\ \A o \in 0 .. (skb[s].len - 1), n \in Lengths :
              IF skb_to_sgvec(skb[s], o, n) = <<>> THEN HeadLen(skb[s]) > 0 /\ Len(skb[s].frags) = MaxFrags
              ELSE ReadAll(skb_to_sgvec(skb[s], o, n)) = SubSeq(string[s], o + 1, Least(o + n, skb[s].len))
<1> DEFINE c == skb[s]
           z == string[s]
<1>1. StringIs(c, z) BY DEF BytesInv, Strings
<1>2. c \in SkBuffs /\ Len(c.frags) <= MaxFrags /\ c.len \in Nat /\ c.dlen \in Nat /\ c.head \in Pages
      /\ HeadLen(c) \in Nat
  BY Accepted
<1>3. lcompat_skb_valid_bounds(c) /\ c.dlen <= Len(ReadAll(c.frags)) /\ Spells(z, c) BY <1>1 DEF StringIs
<1>4. c.dlen <= c.len BY <1>3 DEF lcompat_skb_valid_bounds
<1>5. z = StringOf(c) BY <1>2, <1>3, <1>4, SpellsOne
<1>6. Gathered(c) = z BY <1>2, <1>3, <1>4, <1>5, GatheredIs
<1>7. refs[c.head] > 0
  <2> UsesPage(c, c.head) BY DEF UsesPage
  <2> QED BY <1>2, UsedPage DEF BytesInv
<1>8. ASSUME NEW o \in 0 .. (c.len - 1), NEW n \in Lengths, NEW v, v = skb_to_sgvec(c, o, n)
      PROVE IF v = <<>> THEN HeadLen(c) > 0 /\ Len(c.frags) = MaxFrags
            ELSE ReadAll(v) = SubSeq(z, o + 1, Least(o + n, c.len))
  <2>1. n \in Nat /\ n > 0 BY SkbAssumption DEF Lengths
  <2>2. ASSUME o < HeadLen(c) PROVE virt_to_head_page(c.head, c.data + o) # None
    <3>1. o \in Nat /\ 1 \in Nat /\ 1 <= HeadLen(c) - o BY <1>2, <2>2
    <3>2. c.data + o < psize[c.head] BY <2>2, <3>1, LinearIn
    <3> QED BY <1>2, <1>7, <3>2, NoneAssumption DEF virt_to_head_page
  <2> QED BY <1>2, <1>3, <1>4, <1>5, <1>8, <2>1, <2>2, SgvecReads
<1> QED BY <1>3, <1>6, <1>8

(* SkbPages!BytesKept: after any sequence of operations with any lengths,  *)
(* a buffer stays inside pages that are still allocated, and so does every *)
(* scatterlist of it; and until a caller misuses it, skb_to_sgvec and      *)
(* skb_linearize read from it the very bytes that were put, pushed and     *)
(* added, in order.                                                        *)
THEOREM BuffersKeepBytes == SkbSpec => []BytesKept
<1>1. BytesInv => BytesKept BY InsideHolds, StringHolds DEF BytesKept
<1> QED BY <1>1, BytesInvariant, PTL

(***************************************************************************)
(* The frames that are built (Ieee80211Build): how long they are.          *)
(***************************************************************************)

(* The sum of a few lengths.                                               *)
LEMMA SumOfNone == <<>> \in Seq(Nat) /\ SumOf(<<>>) = 0
<1> DEFINE s == <<>>
<1>1. s \in Seq(Nat) /\ Len(s) = 0 OBVIOUS
<1> HIDE DEF s
<1>2. PICK c \in [0 .. Len(s) -> Nat] : Sums(c, Len(s), s) /\ SumOf(s) = c[Len(s)] BY <1>1, SumFold
<1>3. c[0] = 0 BY <1>1, <1>2 DEF Sums
<1> QED BY <1>1, <1>2, <1>3 DEF s

LEMMA SumOfOne ==
  ASSUME NEW a \in Nat
  PROVE  <<a>> \in Seq(Nat) /\ SumOf(<<a>>) = a
<1> DEFINE s == <<a>>
<1>1. s \in Seq(Nat) /\ Len(s) = 1 /\ s[1] = a OBVIOUS
<1> HIDE DEF s
<1>2. PICK c \in [0 .. Len(s) -> Nat] : Sums(c, Len(s), s) /\ SumOf(s) = c[Len(s)] BY <1>1, SumFold
<1>3. c[0] = 0 /\ c[1] = c[1 - 1] + s[1] BY <1>1, <1>2 DEF Sums
<1> QED BY <1>1, <1>2, <1>3 DEF s

LEMMA SumOfTwo ==
  ASSUME NEW a \in Nat, NEW b \in Nat
  PROVE  <<a, b>> \in Seq(Nat) /\ SumOf(<<a, b>>) = a + b
<1> DEFINE s == <<a, b>>
<1>1. s \in Seq(Nat) /\ Len(s) = 2 /\ s[1] = a /\ s[2] = b OBVIOUS
<1> HIDE DEF s
<1>2. PICK c \in [0 .. Len(s) -> Nat] : Sums(c, Len(s), s) /\ SumOf(s) = c[Len(s)] BY <1>1, SumFold
<1>3. c[0] = 0 /\ c[1] = c[1 - 1] + s[1] /\ c[2] = c[2 - 1] + s[2] BY <1>1, <1>2 DEF Sums
<1> QED BY <1>1, <1>2, <1>3 DEF s

LEMMA SumOfThree ==
  ASSUME NEW a \in Nat, NEW b \in Nat, NEW d \in Nat
  PROVE  <<a, b, d>> \in Seq(Nat) /\ SumOf(<<a, b, d>>) = a + b + d
<1> DEFINE s == <<a, b, d>>
<1>1. s \in Seq(Nat) /\ Len(s) = 3 /\ s[1] = a /\ s[2] = b /\ s[3] = d OBVIOUS
<1> HIDE DEF s
<1>2. PICK c \in [0 .. Len(s) -> Nat] : Sums(c, Len(s), s) /\ SumOf(s) = c[Len(s)] BY <1>1, SumFold
<1>3. c[0] = 0 /\ c[1] = c[1 - 1] + s[1] /\ c[2] = c[2 - 1] + s[2] /\ c[3] = c[3 - 1] + s[3] BY <1>1, <1>2 DEF Sums
<1> QED BY <1>1, <1>2, <1>3 DEF s

(* Lengths written one behind the other add up.                            *)
LEMMA SumOfBoth ==
  ASSUME NEW s \in Seq(Nat), NEW t \in Seq(Nat)
  PROVE  s \o t \in Seq(Nat) /\ SumOf(s \o t) = SumOf(s) + SumOf(t)
<1> DEFINE m == Len(s)
           n == Len(t)
           u == s \o t
<1>1. /\ m \in Nat /\ n \in Nat /\ u \in Seq(Nat) /\ Len(u) = m + n /\ SubSeq(u, 1, m) = s
      /\ \A k \in 1 .. n : u[m + k] = t[k]
  OBVIOUS
<1> HIDE DEF u
<1>2. PICK c \in [0 .. Len(u) -> Nat] :
             /\ Sums(c, Len(u), u) /\ SumOf(u) = c[Len(u)]
             /\ \A k \in 0 .. Len(u) : SumOf(SubSeq(u, 1, k)) = c[k]
  BY <1>1, PrefixSums
<1>3. PICK b \in [0 .. n -> Nat] : Sums(b, n, t) /\ SumOf(t) = b[n] BY SumFold
<1> HIDE DEF m, n
<1>4. c[m] = SumOf(s)
  <2>1. m \in 0 .. Len(u) BY <1>1
  <2> QED BY <2>1, <1>1, <1>2
<1>8. c[m] \in Nat BY <1>1, <1>2
<1> DEFINE T == {k \in 0 .. n : c[m + k] = c[m] + b[k]}
<1>5. 0 \in T /\ T \in SUBSET (0 .. n)
  <2>1. b[0] = 0 BY <1>3 DEF Sums
  <2>2. m + 0 = m /\ 0 \in 0 .. n BY <1>1
  <2> QED BY <2>1, <2>2, <1>8
<1>6. ASSUME NEW k \in 1 .. n, k - 1 \in T PROVE k \in T
  <2>1. k - 1 \in 0 .. n /\ k \in 0 .. n /\ m + k \in 1 .. Len(u) /\ (m + k) - 1 = m + (k - 1) BY <1>1
  <2>2. c[m + k] = c[m + (k - 1)] + t[k] BY <2>1, <1>1, <1>2 DEF Sums
  <2>3. b[k] = b[k - 1] + t[k] BY <1>3 DEF Sums
  <2>4. c[m + (k - 1)] = c[m] + b[k - 1] BY <1>6
  <2>5. b[k - 1] \in Nat BY <2>1
  <2>6. t[k] \in Nat BY DEF n
  <2>7. c[m + k] = c[m] + b[k] BY ONLY <2>2, <2>3, <2>4, <2>5, <2>6, <1>8
  <2> QED BY <2>1, <2>7
<1>7. T = 0 .. n
  <2> HIDE DEF T
  <2> QED BY <1>1, <1>5, <1>6, TurnInd
<1>9. c[m + n] = c[m] + b[n]
  <2>1. n \in T
    <3> HIDE DEF T
    <3> QED BY <1>1, <1>7
  <2> QED BY <2>1
<1> QED BY <1>1, <1>2, <1>3, <1>4, <1>9 DEF u

(* lcompat_ieee80211_alloc_tx_skb refuses, or gives what was asked for.    *)
LEMMA TxFrameFits ==
  ASSUME headroom \in Int, headroom' = headroom, NEW kind, kind # "none",
         NEW puts \in Seq(Nat), NEW size \in Nat, SumOf(puts) = size, out' = TxFrame(kind, size, puts)
  PROVE  FrameFits'
<1>1. Written(puts) = size BY DEF SumOf, Written
<1>2. CASE headroom < 0
  <2> out'.kind = "none" BY <1>2 DEF TxFrame, Nothing
  <2> QED BY DEF FrameFits
<1>3. CASE ~(headroom < 0)
  <2>1. out'.puts = puts /\ out'.head = headroom /\ out'.size = headroom + size /\ out'.tail = 0
    BY <1>3 DEF TxFrame
  <2>2. headroom + size + 0 = headroom + size /\ headroom = IF headroom > 0 THEN headroom ELSE 0 BY <1>3
  <2>3. Written(out'.puts) = size BY <1>1, <2>1
  <2> QED BY <2>1, <2>2, <2>3 DEF FrameFits
<1> QED BY <1>2, <1>3

(* So does lcompat_ieee80211_alloc_helper_skb.                             *)
LEMMA HelperFrameFits ==
  ASSUME headroom \in Int, headroom' = headroom, NEW kind, NEW puts \in Seq(Nat), NEW size \in Nat,
         NEW tailroom \in Nat, SumOf(puts) = size, out' = HelperFrame(kind, size, tailroom, puts)
  PROVE  FrameFits'
<1> DEFINE h == IF headroom > 0 THEN headroom ELSE 0
<1>1. Written(puts) = size BY DEF SumOf, Written
<1>2. out'.puts = puts /\ out'.head = h /\ out'.size = h + size + tailroom /\ out'.tail = tailroom
  BY DEF HelperFrame
<1>3. Written(out'.puts) = size BY <1>1, <1>2
<1>4. h \in Nat OBVIOUS
<1> QED BY <1>2, <1>3, <1>4 DEF FrameFits

(* An element for no rates is left out, and its length is none.            *)
LEMMA RatesHaveLengths ==
  /\ Len(BuildSupportedRatesIe.supp) \in Nat /\ Len(BuildSupportedRatesIe.ext) \in Nat
  /\ BuildSupportedRatesIe.supp = <<>> <=> Len(BuildSupportedRatesIe.supp) = 0
  /\ BuildSupportedRatesIe.ext = <<>> <=> Len(BuildSupportedRatesIe.ext) = 0
<1>1. ASSUME NEW s PROVE Len(UpToZero(s)) \in Nat /\ (UpToZero(s) = <<>> <=> Len(UpToZero(s)) = 0)
  <2> DEFINE x == s \o <<0>>
             I == {i \in 1 .. Len(x) : x[i] = 0}
             k == SelectInSeq(x, LAMBDA r : r = 0)
  <2>1. k = IF I # {} THEN Min(I) ELSE 0 BY DEF SelectInSeq
  <2>2. I # {} => Min(I) \in Int
    <3>1. I \in SUBSET Nat OBVIOUS
    <3> HIDE DEF I, x
    <3> SUFFICES ASSUME I # {} PROVE Min(I) \in Int OBVIOUS
    <3>2. \E z \in I : \A y \in I : z <= y BY <3>1, LeastOf
    <3>3. Min(I) \in I BY <3>2 DEF Min
    <3>4. Min(I) \in Nat BY <3>1, <3>3
    <3> QED BY ONLY <3>4
  <2> HIDE DEF I
  <2>3. k - 1 \in Int BY <2>1, <2>2
  <2>4. UpToZero(s) = SubSeq(s, 1, k - 1) BY DEF UpToZero
  <2> HIDE DEF k
  <2>5. ASSUME NEW j \in Int
        PROVE  Len(SubSeq(s, 1, j)) \in Nat /\ (SubSeq(s, 1, j) = <<>> <=> Len(SubSeq(s, 1, j)) = 0)
    <3>1. Len(SubSeq(s, 1, j)) \in Nat OBVIOUS
    <3>2. ASSUME Len(SubSeq(s, 1, j)) = 0 PROVE SubSeq(s, 1, j) = <<>> BY <3>2
    <3>3. ASSUME SubSeq(s, 1, j) = <<>> PROVE Len(SubSeq(s, 1, j)) = 0
      <4> DEFINE z == SubSeq(s, 1, j)
      <4>1. z = <<>> BY <3>3
      <4> HIDE DEF z
      <4>2. Len(z) = 0 BY <4>1
      <4> QED BY <4>2 DEF z
    <3> QED BY <3>1, <3>2, <3>3
  <2> QED BY <2>3, <2>4, <2>5
<1>2. PICK x, y : BuildSupportedRatesIe = [supp |-> UpToZero(x), ext |-> UpToZero(y)]
  BY DEF BuildSupportedRatesIe, RatesFrom
<1> QED BY <1>1, <1>2

(* A header of 24 bytes, with QoS control or without.                      *)
LEMMA HeaderSums ==
  <<24, 2>> \in Seq(Nat) /\ SumOf(<<24, 2>>) = 26 /\ <<24>> \in Seq(Nat) /\ SumOf(<<24>>) = 24
<1>1. 24 \in Nat /\ 2 \in Nat /\ 24 + 2 = 26 OBVIOUS
<1> QED BY <1>1, SumOfOne, SumOfTwo

(* An element with a body of n bytes, left out if it is empty.             *)
LEMMA IePuts ==
  ASSUME NEW n \in Nat, NEW p, p = IF n = 0 THEN <<>> ELSE <<2, n>>
  PROVE  p \in Seq(Nat) /\ SumOf(p) = IeLen(n) /\ IeLen(n) \in Nat
<1>1. CASE n = 0 BY <1>1, SumOfNone DEF IeLen
<1>2. CASE n # 0
  <2>1. <<2, n>> \in Seq(Nat) /\ SumOf(<<2, n>>) = 2 + n
    <3> 2 \in Nat OBVIOUS
    <3> QED BY SumOfTwo
  <2> QED BY <1>2, <2>1 DEF IeLen
<1> QED BY <1>1, <1>2

(* What the functions read, and what they leave.                           *)
BuildInv == headroom \in Int /\ ssidLen \in Nat /\ bitrates \in Seq(Nat) /\ FrameFits

(* lcompat_ieee80211_send_assoc_req writes its elements one by one into    *)
(* the length it computed.                                                 *)
LEMMA AssocFits ==
  ASSUME BuildInv, SendAssocReq
  PROVE  FrameFits'
<1> DEFINE u == Len(BuildSupportedRatesIe.supp)
           e == Len(BuildSupportedRatesIe.ext)
           w == IF BssHasWmm THEN 9 ELSE 0
           p == IF u = 0 THEN <<>> ELSE <<2, u>>
           q == IF e = 0 THEN <<>> ELSE <<2, e>>
           r == IF BssHasWmm THEN <<9>> ELSE <<>>
           l == <<2 + ssidLen>>
           h == <<28>>
<1>1. u \in Nat /\ e \in Nat BY RatesHaveLengths
<1>2. AssocIes = l \o p \o q \o r
  <2>1. (BuildSupportedRatesIe.supp = <<>>) <=> u = 0 BY RatesHaveLengths
  <2>2. (BuildSupportedRatesIe.ext = <<>>) <=> e = 0 BY RatesHaveLengths
  <2> QED BY <2>1, <2>2 DEF AssocIes
<1>3. AssocLen = 28 + 2 + ssidLen + IeLen(u) + IeLen(e) + w BY DEF AssocLen
<1>4. out' = TxFrame("assoc", AssocLen, h \o AssocIes) BY DEF SendAssocReq
<1>5. ssidLen \in Nat /\ headroom \in Int /\ headroom' = headroom BY DEF BuildInv, SendAssocReq, inputs
<1>6. /\ l \in Seq(Nat) /\ SumOf(l) = 2 + ssidLen /\ h \in Seq(Nat) /\ SumOf(h) = 28
  <2>1. 2 + ssidLen \in Nat /\ 28 \in Nat BY <1>5
  <2> QED BY <2>1, SumOfOne
<1>7. r \in Seq(Nat) /\ SumOf(r) = w /\ w \in Nat
  <2>1. 9 \in Nat OBVIOUS
  <2>2. <<9>> \in Seq(Nat) /\ SumOf(<<9>>) = 9 /\ <<>> \in Seq(Nat) /\ SumOf(<<>>) = 0
    BY <2>1, SumOfOne, SumOfNone
  <2> QED BY <2>2
<1> HIDE DEF u, e, w, r, l, h
<1>8. /\ p \in Seq(Nat) /\ SumOf(p) = IeLen(u) /\ IeLen(u) \in Nat
      /\ q \in Seq(Nat) /\ SumOf(q) = IeLen(e) /\ IeLen(e) \in Nat
  BY <1>1, IePuts
<1> HIDE DEF p, q
<1>9. l \o p \in Seq(Nat) /\ SumOf(l \o p) = SumOf(l) + SumOf(p) BY <1>6, <1>8, SumOfBoth
<1>10. l \o p \o q \in Seq(Nat) /\ SumOf(l \o p \o q) = SumOf(l \o p) + SumOf(q)
  BY <1>8, <1>9, SumOfBoth
<1>11. AssocIes \in Seq(Nat) /\ SumOf(AssocIes) = SumOf(l \o p \o q) + SumOf(r)
  BY <1>2, <1>7, <1>10, SumOfBoth
<1>12. h \o AssocIes \in Seq(Nat) /\ SumOf(h \o AssocIes) = SumOf(h) + SumOf(AssocIes)
  BY <1>6, <1>11, SumOfBoth
<1>13. AssocLen \in Nat /\ SumOf(h \o AssocIes) = AssocLen
  BY ONLY <1>3, <1>5, <1>6, <1>7, <1>8, <1>9, <1>10, <1>11, <1>12, SMTT(30)
<1> QED BY <1>4, <1>5, <1>12, <1>13, TxFrameFits

(* lcompat_ieee80211_send_probe_req, which splits the rates of the band.   *)
LEMMA ProbeFits ==
  ASSUME BuildInv, SendProbeReq
  PROVE  FrameFits'
<1> DEFINE n == IF Len(bitrates) < 16 THEN Len(bitrates) ELSE 16
           u == IF n < 8 THEN n ELSE 8
           e == n - u
           p == IF u = 0 THEN <<>> ELSE <<2, u>>
           q == IF e = 0 THEN <<>> ELSE <<2, e>>
           h == <<24, 2, ssidLen>>
           size == 24 + 2 + ssidLen + IeLen(u) + IeLen(e)
<1>1. ssidLen \in Nat /\ headroom \in Int /\ headroom' = headroom /\ bitrates \in Seq(Nat)
  BY DEF BuildInv, SendProbeReq, inputs
<1>2. n \in Nat /\ u \in Nat /\ e \in Nat /\ (n > 0 <=> u # 0) /\ (n > u <=> e # 0)
  <2>1. Len(bitrates) \in Nat BY <1>1
  <2> QED BY ONLY <2>1
<1>3. out' = TxFrame("probe", size, h \o (IF n > 0 THEN <<2, u>> ELSE <<>>)
                                       \o (IF n > u THEN <<2, n - u>> ELSE <<>>))
  BY DEF SendProbeReq
<1> HIDE DEF n, u
<1>4. out' = TxFrame("probe", size, h \o p \o q)
  <2>1. (IF n > 0 THEN <<2, u>> ELSE <<>>) = p BY <1>2
  <2>2. (IF n > u THEN <<2, n - u>> ELSE <<>>) = q BY <1>2
  <2> QED BY <1>3, <2>1, <2>2
<1>5. h \in Seq(Nat) /\ SumOf(h) = 24 + 2 + ssidLen
  <2> 24 \in Nat /\ 2 \in Nat OBVIOUS
  <2> QED BY <1>1, SumOfThree
<1> HIDE DEF e, h
<1>6. /\ p \in Seq(Nat) /\ SumOf(p) = IeLen(u) /\ IeLen(u) \in Nat
      /\ q \in Seq(Nat) /\ SumOf(q) = IeLen(e) /\ IeLen(e) \in Nat
  BY <1>2, IePuts
<1> HIDE DEF p, q
<1>7. h \o p \in Seq(Nat) /\ SumOf(h \o p) = SumOf(h) + SumOf(p) BY <1>5, <1>6, SumOfBoth
<1>8. h \o p \o q \in Seq(Nat) /\ SumOf(h \o p \o q) = SumOf(h \o p) + SumOf(q)
  BY <1>6, <1>7, SumOfBoth
<1>9. size \in Nat /\ SumOf(h \o p \o q) = size BY ONLY <1>1, <1>5, <1>6, <1>7, <1>8, SMTT(30)
<1> HIDE DEF size
<1> QED BY <1>1, <1>4, <1>8, <1>9, TxFrameFits

(* lcompat_ieee80211_build_data_frame                                      *)
LEMMA DataFits ==
  ASSUME BuildInv, NEW len \in Payloads, BuildDataFrame(len)
  PROVE  FrameFits'
<1>1. headroom \in Int /\ headroom' = headroom /\ len \in Nat
  BY BuildAssumption DEF BuildInv, BuildDataFrame, inputs
<1>2. CASE len < 14
  <2> out'.kind = "none" BY <1>2 DEF BuildDataFrame, Nothing
  <2> QED BY DEF FrameFits
<1>3. CASE ~(len < 14)
  <2> DEFINE m == len - 14
             h == IF qos THEN <<24, 2>> ELSE <<24>>
             g == IF qos THEN 2 ELSE 0
             t == <<8, m>>
             size == 24 + g + 8 + m
  <2>1. m \in Nat BY <1>1, <1>3
  <2>2. out' = TxFrame("data", size, h \o t) BY <1>3 DEF BuildDataFrame
  <2> HIDE DEF m
  <2>3. <<24, 2>> \in Seq(Nat) /\ SumOf(<<24, 2>>) = 26 /\ <<24>> \in Seq(Nat) /\ SumOf(<<24>>) = 24
    BY HeaderSums
  <2>4. h \in Seq(Nat) /\ SumOf(h) = 24 + g /\ g \in Nat BY <2>3
  <2>5. t \in Seq(Nat) /\ SumOf(t) = 8 + m
    <3> 8 \in Nat OBVIOUS
    <3> QED BY <2>1, SumOfTwo
  <2> HIDE DEF h, g, t
  <2>6. h \o t \in Seq(Nat) /\ SumOf(h \o t) = SumOf(h) + SumOf(t) BY <2>4, <2>5, SumOfBoth
  <2>7. size \in Nat /\ SumOf(h \o t) = size BY ONLY <2>1, <2>4, <2>5, <2>6
  <2> HIDE DEF size
  <2> QED BY <1>1, <2>2, <2>6, <2>7, TxFrameFits
<1> QED BY <1>2, <1>3

(* The helpers of net/mac80211.h.                                          *)
LEMMA HelpersFit ==
  ASSUME BuildInv,
         \/ \E t \in Tailrooms : ProbereqGet(t)
         \/ \E kind \in {"proberesp", "beacon", "pspoll"} : HeaderOnlyGet(kind)
         \/ \E q \in BOOLEAN : NullfuncGet(q)
  PROVE  FrameFits'
<1>1. headroom \in Int /\ ssidLen \in Nat BY DEF BuildInv
<1>2. ASSUME NEW t \in Tailrooms, ProbereqGet(t) PROVE FrameFits'
  <2>1. headroom' = headroom /\ t \in Nat BY <1>2, BuildAssumption DEF ProbereqGet, inputs
  <2> DEFINE puts == <<24, 2 + ssidLen>>
             size == 24 + 2 + ssidLen
  <2>2. out' = HelperFrame("probereq", size, t, puts) BY <1>2 DEF ProbereqGet
  <2>3. 24 \in Nat /\ 2 + ssidLen \in Nat /\ size \in Nat BY <1>1
  <2>4. puts \in Seq(Nat) /\ SumOf(puts) = 24 + (2 + ssidLen) BY <2>3, SumOfTwo
  <2> HIDE DEF puts
  <2>5. SumOf(puts) = size BY <1>1, <2>4
  <2> HIDE DEF size
  <2> QED BY <1>1, <2>1, <2>2, <2>3, <2>4, <2>5, HelperFrameFits
<1>3. <<24, 2>> \in Seq(Nat) /\ SumOf(<<24, 2>>) = 26 /\ <<24>> \in Seq(Nat) /\ SumOf(<<24>>) = 24
  BY HeaderSums
<1>4. ASSUME NEW kind, HeaderOnlyGet(kind) PROVE FrameFits'
  <2>1. headroom' = headroom /\ out' = HelperFrame(kind, 24, 0, <<24>>) BY <1>4 DEF HeaderOnlyGet, inputs
  <2>2. 24 \in Nat /\ 0 \in Nat OBVIOUS
  <2> QED BY <1>1, <1>3, <2>1, <2>2, HelperFrameFits
<1>5. ASSUME NEW withQos \in BOOLEAN, NullfuncGet(withQos) PROVE FrameFits'
  <2> DEFINE puts == IF withQos THEN <<24, 2>> ELSE <<24>>
             size == IF withQos THEN 26 ELSE 24
  <2>1. headroom' = headroom /\ out' = HelperFrame("nullfunc", size, 0, puts)
    BY <1>5 DEF NullfuncGet, inputs
  <2>2. puts \in Seq(Nat) /\ size \in Nat /\ 0 \in Nat /\ SumOf(puts) = size BY <1>3
  <2> HIDE DEF puts, size
  <2> QED BY <1>1, <2>1, <2>2, HelperFrameFits
<1> QED BY <1>2, <1>4, <1>5

(* Every builder writes into a frame exactly what it asked for when it     *)
(* allocated it, with the driver's headroom before and the caller's        *)
(* tailroom behind, for any hardware, rates of the band, scan result and   *)
(* payload.                                                                *)
THEOREM FramesFit == BuildSpec => []FrameFits
<1>1. BuildInit => BuildInv
  <2> SUFFICES ASSUME BuildInit PROVE BuildInv OBVIOUS
  <2>1. headroom \in Int /\ ssidLen \in Nat /\ bitrates \in Seq(Nat) BY BuildAssumption DEF BuildInit
  <2>2. FrameFits BY DEF BuildInit, FrameFits, Nothing
  <2> QED BY <2>1, <2>2 DEF BuildInv
<1>2. BuildInv /\ [BuildNext]_buildVars => BuildInv'
  <2> SUFFICES ASSUME BuildInv, [BuildNext]_buildVars PROVE BuildInv' OBVIOUS
  <2>1. UNCHANGED inputs
    BY DEF BuildNext, buildVars, inputs, SendAuth, SendAssocReq, SendProbeReq, BuildDataFrame, ProbereqGet,
           HeaderOnlyGet, NullfuncGet
  <2>2. headroom' \in Int /\ ssidLen' \in Nat /\ bitrates' \in Seq(Nat) BY <2>1 DEF BuildInv, inputs
  <2>3. CASE SendAuth
    <3>1. headroom \in Int /\ headroom' = headroom BY <2>1 DEF BuildInv, inputs
    <3>5. 30 \in Nat OBVIOUS
    <3>2. SumOf(<<30>>) = 30 /\ <<30>> \in Seq(Nat) BY <3>5, SumOfOne
    <3>3. out' = TxFrame("auth", 30, <<30>>) BY <2>3 DEF SendAuth
    <3>4. FrameFits' BY <3>1, <3>2, <3>3, <3>5, TxFrameFits
    <3> QED BY <2>2, <3>4 DEF BuildInv
  <2>4. CASE SendAssocReq BY <2>2, <2>4, AssocFits DEF BuildInv
  <2>5. CASE SendProbeReq BY <2>2, <2>5, ProbeFits DEF BuildInv
  <2>6. ASSUME NEW len \in Payloads, BuildDataFrame(len) PROVE BuildInv'
    BY <2>2, <2>6, DataFits DEF BuildInv
  <2>7. CASE \/ \E t \in Tailrooms : ProbereqGet(t)
             \/ \E kind \in {"proberesp", "beacon", "pspoll"} : HeaderOnlyGet(kind)
             \/ \E q \in BOOLEAN : NullfuncGet(q)
    BY <2>2, <2>7, HelpersFit DEF BuildInv
  <2>8. CASE UNCHANGED buildVars BY <2>8 DEF BuildInv, FrameFits, buildVars
  <2> QED BY <2>3, <2>4, <2>5, <2>6, <2>7, <2>8 DEF BuildNext
<1>3. BuildInv => FrameFits BY DEF BuildInv
<1> QED BY <1>1, <1>2, <1>3, PTL DEF BuildSpec
==============================================================================
