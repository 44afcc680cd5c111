------------------------------ MODULE DataProofs ------------------------------
(***************************************************************************)
(* Theorems about the data that the drivers pass on, for any amount of it: *)
(* the counts of the pages of socket buffers (SkbPages), their queues      *)
(* (SkbQueue), the bytes of USB transfers (UsbBuffers) and received frames *)
(* (Ieee80211Rx).  A loop of the code is a fold in the model; that a fold  *)
(* takes one turn after the other is shown first, by the least number for  *)
(* which it would not.                                                     *)
(***************************************************************************)
EXTENDS SkbPages, SkbQueue, UsbBuffers, Ieee80211Rx, FiniteSetTheorems, SequenceTheorems,
        WellFoundedInduction, TLAPS

(***************************************************************************)
(* Loops as folds.                                                         *)
(***************************************************************************)

(* A set of numbers has a least one.                                       *)
LEMMA LeastOf ==
  ASSUME NEW T \in SUBSET Nat, T # {}
  PROVE  \E x \in T : \A y \in T : x <= y
<1>1. \E x \in T : \A y \in T : ~ (<<y, x>> \in OpToRel(<, Nat))
  BY WFMin, NatLessThanWellFounded
<1>2. PICK x \in T : \A y \in T : ~ (<<y, x>> \in OpToRel(<, Nat))
  BY <1>1
<1>3. \A y \in T : ~ (y < x)
  BY <1>2 DEF OpToRel
<1> QED BY <1>3

(* Induction over the numbers, for a set in place of a predicate.          *)
LEMMA SetInd ==
  ASSUME NEW T \in SUBSET Nat, 0 \in T, \A n \in T : n + 1 \in T
  PROVE  T = Nat
<1> SUFFICES ASSUME T # Nat PROVE FALSE OBVIOUS
<1>1. PICK x \in Nat \ T : \A y \in Nat \ T : x <= y
  <2> Nat \ T # {} /\ (Nat \ T) \in SUBSET Nat OBVIOUS
  <2> QED BY LeastOf
<1>2. x # 0 /\ x - 1 \in Nat BY <1>1
<1>3. x - 1 \in T BY <1>1, <1>2
<1> QED BY <1>3, <1>1

(* A fold takes the largest index of a set last.                           *)
LEMMA MaxOf ==
  ASSUME NEW n \in Nat, NEW s \in SUBSET (1 .. n), s # {}
  PROVE  Max(s) \in s /\ \A y \in s : Max(s) >= y
<1> DEFINE T == {n - x : x \in s}
<1>1. T \in SUBSET Nat
  <2> SUFFICES ASSUME NEW x \in s PROVE n - x \in Nat OBVIOUS
  <2> x \in 1 .. n OBVIOUS
  <2> QED OBVIOUS
<1>0. T # {} OBVIOUS
<1>2. PICK m \in T : \A y \in T : m <= y
  <2> HIDE DEF T
  <2> QED BY <1>0, <1>1, LeastOf
<1>3. PICK x \in s : m = n - x BY <1>2
<1>4. \A y \in s : x >= y
  <2> TAKE y \in s
  <2> n - y \in T OBVIOUS
  <2> x \in 1 .. n /\ y \in 1 .. n OBVIOUS
  <2> QED BY <1>2, <1>3
<1>5. \E z \in s : \A y \in s : z >= y BY <1>4
<1> QED BY <1>5 DEF Max

(* What the folds of the library compute, from a base by one step function *)
(* for each index: over every set of indices, or where the value for the   *)
(* set without its largest index is in A. And the values after each turn.  *)
FoldsSets(g, n, base, step) ==
    \A s \in SUBSET (1 .. n) : g[s] = IF s = {} THEN base ELSE step[Max(s)][g[s \ {Max(s)}]]

FoldsTyped(f, n, A, base, step) ==
    /\ f[{}] = base
    /\ \A s \in SUBSET (1 .. n) :
         (s # {} /\ f[s \ {Max(s)}] \in A) => f[s] = step[Max(s)][f[s \ {Max(s)}]]

Accumulates(acc, n, base, step) ==
    acc[0] = base /\ \A k \in 1 .. n : acc[k] = step[k][acc[k - 1]]

(* The recursive function a fold chooses exists, whatever its steps do.    *)
LEMMA FoldExists ==
  ASSUME NEW n \in Nat, NEW A, NEW base \in A, NEW step \in [1 .. n -> [A -> A]]
  PROVE \E g \in [SUBSET (1 .. n) -> A] : FoldsSets(g, n, base, step)
<1> DEFINE Good(k, g) == \A s \in SUBSET (1 .. k) :
                           g[s] = IF s = {} THEN base ELSE step[Max(s)][g[s \ {Max(s)}]]
           Has(k) == k <= n => \E g \in [SUBSET (1 .. k) -> A] : Good(k, g)
           T == {k \in Nat : Has(k)}
<1>1. Has(0)
  <2> DEFINE g == [s \in SUBSET (1 .. 0) |-> base]
  <2>1. g \in [SUBSET (1 .. 0) -> A] OBVIOUS
  <2>2. \A s \in SUBSET (1 .. 0) : s = {} OBVIOUS
  <2>3. Good(0, g) BY <2>1, <2>2
  <2> QED BY <2>1, <2>3
<1>2. ASSUME NEW k \in Nat, Has(k) PROVE Has(k + 1)
  <2> SUFFICES ASSUME k + 1 <= n PROVE \E g \in [SUBSET (1 .. (k + 1)) -> A] : Good(k + 1, g)
    OBVIOUS
  <2>0. k <= n OBVIOUS
  <2>1. PICK h \in [SUBSET (1 .. k) -> A] : Good(k, h)
    <3> HIDE DEF Good
    <3> QED BY <1>2, <2>0
  <2> DEFINE g == [s \in SUBSET (1 .. (k + 1)) |->
                    IF k + 1 \in s THEN step[k + 1][h[s \ {k + 1}]] ELSE h[s]]
  <2>2. \A s \in SUBSET (1 .. (k + 1)) : /\ k + 1 \notin s => s \in SUBSET (1 .. k)
                                       /\ s \ {k + 1} \in SUBSET (1 .. k) BY SMTT(30)
  <2>3. g \in [SUBSET (1 .. (k + 1)) -> A]
    <3> SUFFICES ASSUME NEW s \in SUBSET (1 .. (k + 1))
                 PROVE (IF k + 1 \in s THEN step[k + 1][h[s \ {k + 1}]] ELSE h[s]) \in A OBVIOUS
    <3>1. step[k + 1] \in [A -> A] OBVIOUS
    <3>2. h[s \ {k + 1}] \in A BY <2>1, <2>2
    <3>3. k + 1 \notin s => h[s] \in A BY <2>1, <2>2
    <3> QED BY <3>1, <3>2, <3>3
  <2>4. Good(k + 1, g)
    <3> SUFFICES ASSUME NEW s \in SUBSET (1 .. (k + 1))
                 PROVE g[s] = IF s = {} THEN base ELSE step[Max(s)][g[s \ {Max(s)}]] OBVIOUS
    <3>1. CASE k + 1 \in s
      <4>0. k + 1 \in Nat /\ s # {} BY <3>1
      <4>1. Max(s) \in s /\ Max(s) >= k + 1 BY <3>1, <4>0, MaxOf
      <4>6. Max(s) \in 1 .. (k + 1) BY <4>1
      <4>5. Max(s) = k + 1 BY <4>1, <4>6
      <4>2. s \ {k + 1} \in SUBSET (1 .. (k + 1)) /\ k + 1 \notin s \ {k + 1} OBVIOUS
      <4>3. g[s \ {k + 1}] = h[s \ {k + 1}] BY <4>2
      <4> QED BY <3>1, <4>0, <4>5, <4>3
    <3>2. CASE k + 1 \notin s /\ s # {}
      <4>1. s \in SUBSET (1 .. k) BY <2>2, <3>2
      <4>2. Max(s) \in s BY <4>1, MaxOf, <3>2
      <4>3. s \ {Max(s)} \in SUBSET (1 .. (k + 1)) /\ k + 1 \notin s \ {Max(s)} BY <3>2
      <4>4. h[s] = step[Max(s)][h[s \ {Max(s)}]] BY <4>1, <2>1, <3>2
      <4> QED BY <3>2, <4>3, <4>4
    <3>3. CASE s = {}
      <4>1. g[s] = h[s] /\ s \in SUBSET (1 .. k) BY <3>3
      <4> QED BY <4>1, <2>1, <3>3
    <3> QED BY <3>1, <3>2, <3>3
  <2> HIDE DEF g, Good
  <2> QED BY <2>3, <2>4
<1> HIDE DEF Has
<1>3. T = Nat
  <2>1. T \in SUBSET Nat OBVIOUS
  <2>2. 0 \in T BY <1>1
  <2>3. \A k \in T : k + 1 \in T BY <1>2
  <2> HIDE DEF T
  <2> QED BY <2>1, <2>2, <2>3, SetInd
<1>4. Has(n) BY <1>3
<1>6. PICK g \in [SUBSET (1 .. n) -> A] : Good(n, g)
  <2> n <= n OBVIOUS
  <2> HIDE DEF Good
  <2> QED BY <1>4 DEF Has
<1> QED BY <1>6 DEF FoldsSets

(* The value of a fold is the last of a row of values, each of which is    *)
(* made of the one before by one turn of the loop.                         *)
LEMMA FoldSteps ==
  ASSUME NEW n \in Nat, NEW A, NEW base \in A, NEW step \in [1 .. n -> [A -> A]], NEW f,
         FoldsTyped(f, n, A, base, step)
  PROVE \E acc \in [0 .. n -> A] : Accumulates(acc, n, base, step) /\ acc[n] = f[1 .. n]
<1> DEFINE acc == [k \in 0 .. n |-> f[1 .. k]]
           T == {k \in Nat : k <= n => f[1 .. k] \in A}
<1>1. ASSUME NEW k \in 1 .. n, f[1 .. (k - 1)] \in A
      PROVE f[1 .. k] = step[k][f[1 .. (k - 1)]] /\ f[1 .. k] \in A
  <2>9. k \in Nat /\ k >= 1 /\ k <= n OBVIOUS
  <2>10. k \in 1 .. k BY <2>9
  <2>11. \A i \in 1 .. k : i \in 1 .. n BY <2>9
  <2>1. (1 .. k) # {} /\ (1 .. k) \subseteq (1 .. n) /\ k \in Nat BY <2>9, <2>10, <2>11
  <2> DEFINE S == 1 .. k
  <2>7. S \in SUBSET (1 .. k) /\ S # {} /\ k \in S BY <2>1
  <2>8. Max(S) \in S /\ \A y \in S : Max(S) >= y
    <3> HIDE DEF S
    <3> QED BY <2>1, <2>7, MaxOf
  <2>2. Max(1 .. k) \in 1 .. k /\ Max(1 .. k) >= k BY <2>8, <2>7
  <2>3. Max(1 .. k) = k BY <2>2
  <2>4. (1 .. k) \ {k} = 1 .. (k - 1) OBVIOUS
  <2>5. f[1 .. k] = step[k][f[1 .. (k - 1)]] BY <2>1, <2>3, <2>4, <1>1 DEF FoldsTyped
  <2>6. step[k] \in [A -> A] OBVIOUS
  <2> QED BY <2>5, <2>6, <1>1
<1>2. 1 .. 0 = {} OBVIOUS
<1>3. 0 \in T BY <1>2 DEF FoldsTyped
<1>4. \A k \in T : k + 1 \in T
  <2> SUFFICES ASSUME NEW k \in Nat, k + 1 <= n, f[1 .. k] \in A PROVE f[1 .. (k + 1)] \in A
    BY DEF FoldsTyped
  <2>1. k + 1 \in 1 .. n /\ (k + 1) - 1 = k OBVIOUS
  <2> QED BY <2>1, <1>1
<1>5. T = Nat
  <2> T \in SUBSET Nat OBVIOUS
  <2> HIDE DEF T
  <2> QED BY <1>3, <1>4, SetInd
<1>6. \A k \in 0 .. n : f[1 .. k] \in A
  <2> TAKE k \in 0 .. n
  <2> k \in T BY <1>5
  <2> QED OBVIOUS
<1>7. acc \in [0 .. n -> A] BY <1>6
<1>8. acc[0] = base BY <1>2 DEF FoldsTyped
<1>9. ASSUME NEW k \in 1 .. n PROVE acc[k] = step[k][acc[k - 1]]
  <2> k - 1 \in 0 .. n /\ k \in 0 .. n OBVIOUS
  <2> QED BY <1>1, <1>6
<1>10. acc[n] = f[1 .. n] OBVIOUS
<1> HIDE DEF acc
<1> QED BY <1>7, <1>8, <1>9, <1>10 DEF Accumulates

(***************************************************************************)
(* Powers of two, and the size of what get_order asks for.                 *)
(***************************************************************************)

(* A power of two counts the subsets of a set, and is larger than its      *)
(* exponent.                                                               *)
LEMMA PowerAbove == ASSUME NEW n \in Nat PROVE 2^n \in Nat /\ n < 2^n
<1> DEFINE S == 1 .. n
           One == {{x} : x \in S}
<1>1. IsFiniteSet(S) /\ Cardinality(S) = n BY FS_Interval
<1>2. IsFiniteSet(SUBSET S) /\ Cardinality(SUBSET S) = 2^n BY <1>1, FS_SUBSET
<1>3. 2^n \in Nat BY <1>2, FS_CardinalityType
<1>4. One \in SUBSET SUBSET S OBVIOUS
<1>5. IsFiniteSet(One) /\ Cardinality(One) = n
  <2> DEFINE f == [x \in S |-> {x}]
  <2>1. f \in Bijection(S, One)
    <3>1. f \in [S -> One] OBVIOUS
    <3>2. \A a, b \in S : f[a] = f[b] => a = b OBVIOUS
    <3>3. \A y \in One : \E x \in S : f[x] = y OBVIOUS
    <3> QED BY <3>1, <3>2, <3>3 DEF Bijection, Injection, Surjection, IsInjective
  <2>2. ExistsBijection(S, One) BY <2>1 DEF ExistsBijection
  <2> QED BY <2>2, <1>1, FS_Bijection
<1>6. IsFiniteSet(One \cup {{}}) /\ Cardinality(One \cup {{}}) = n + 1
  <2> {} \notin One OBVIOUS
  <2> QED BY <1>5, FS_AddElement
<1>7. One \cup {{}} \in SUBSET SUBSET S BY <1>4
<1>8. Cardinality(One \cup {{}}) <= Cardinality(SUBSET S) 
  <2> HIDE DEF One
  <2> QED BY <1>7, <1>2, FS_Subset
<1> QED BY <1>2, <1>3, <1>6, <1>8

(* get_order: a power of two pages that holds the size, so that alloc_skb  *)
(* never gets less room than it says `end` is.                             *)
THEOREM OrderFits ==
  ASSUME NEW size \in Nat
  PROVE /\ FrameBytes(size) \in Nat
        /\ size <= FrameBytes(size)
        /\ 0 < FrameBytes(size)
<1> DEFINE sz == IF size = 0 THEN 1 ELSE size
           last == (sz - 1) \div PAGE_SIZE
<1>1. sz \in Nat /\ 1 <= sz /\ size <= sz OBVIOUS
<1> HIDE DEF sz
<1>2. PAGE_SIZE \in Nat \ {0} BY SkbAssumption
<1>3. FrameBytes(size) = PAGE_SIZE * 2^get_order(sz) BY DEF FrameBytes, sz
<1>4. CASE sz <= PAGE_SIZE
  <2>1. get_order(sz) = 0 BY <1>4 DEF get_order
  <2>2. 2^0 = 1 OBVIOUS
  <2> QED BY <1>1, <1>2, <1>3, <1>4, <2>1, <2>2
<1>5. CASE ~(sz <= PAGE_SIZE)
  <2> DEFINE Holds(o) == last < 2^o /\ last >= 2^(o - 1)
             T == {o \in Nat : last < 2^o}
  <2>1. last \in Nat /\ last >= 1 /\ last <= sz - 1 /\ sz - 1 < PAGE_SIZE * (last + 1)
    <3>1. sz - 1 \in Nat /\ sz - 1 >= PAGE_SIZE BY <1>1, <1>2, <1>5
    <3>2. ASSUME NEW a \in Nat, NEW d \in Nat, d > 0, a >= d
          PROVE a \div d \in Nat /\ a \div d >= 1 /\ a \div d <= a /\ a < d * ((a \div d) + 1)
      <4>1. a = d * (a \div d) + (a % d) /\ a % d \in 0 .. d - 1 /\ a \div d \in Int BY <3>2
      <4>2. a \div d >= 1 BY <4>1, <3>2
      <4> QED BY <4>1, <4>2, <3>2
    <3> QED BY <3>1, <3>2, <1>2
  <2> HIDE DEF last
  <2>2. T # {} /\ T \in SUBSET Nat BY <2>1, PowerAbove
  <2>3. PICK o \in T : \A y \in T : o <= y
    <3> HIDE DEF T
    <3> QED BY <2>2, LeastOf
  <2>4. o \in Nat /\ last < 2^o BY <2>3
  <2>5. o # 0
    <3> SUFFICES ASSUME o = 0 PROVE FALSE OBVIOUS
    <3>1. 2^0 = 1 OBVIOUS
    <3>2. last < 2^0 BY <2>4
    <3> QED BY <2>1, <3>1, <3>2
  <2>6. o - 1 \in Nat /\ o - 1 \notin T BY <2>3, <2>5
  <2>7. last >= 2^(o - 1) BY <2>1, <2>6, PowerAbove
  <2>8. o <= last BY <2>1, <2>3, PowerAbove
  <2>9. o \in 1 .. sz /\ Holds(o) BY <2>1, <2>4, <2>5, <2>7, <2>8, <1>1
  <2>10. get_order(sz) = CHOOSE k \in 1 .. sz : Holds(k) BY <1>5 DEF get_order, last
  <2>11. get_order(sz) \in Nat /\ last < 2^get_order(sz) BY <2>9, <2>10, <1>1
  <2>12. 2^get_order(sz) \in Nat /\ last + 1 <= 2^get_order(sz) BY <2>11, <2>1, PowerAbove
  <2>13. ASSUME NEW a \in Nat, NEW b \in Nat, NEW d \in Nat, a <= b
         PROVE d * a <= d * b /\ d * b \in Nat
    BY <2>13
  <2>14. PAGE_SIZE * (last + 1) <= PAGE_SIZE * 2^get_order(sz) /\ PAGE_SIZE * 2^get_order(sz) \in Nat
    BY <2>13, <2>12, <2>1, <1>2
  <2> QED BY <2>14, <2>1, <1>1, <1>2, <1>3
<1> QED BY <1>4, <1>5

(***************************************************************************)
(* Counting the references of buffers to a page.                           *)
(***************************************************************************)
HeadsIn(f, p) == {s \in Skbs : f[s] # None /\ f[s].head = p}
FragsIn(f, p) == {x \in Skbs \X (1 .. MaxFrags) :
                    /\ f[x[1]] # None /\ x[2] <= Len(f[x[1]].frags)
                    /\ f[x[1]].frags[x[2]].page = p}

(* The fragments of a buffer that lie in a page, and how many references   *)
(* the buffer holds with its head and with its fragments.                  *)
FragsOf(b, p) == {i \in DOMAIN b.frags : b.frags[i].page = p}
HeadUse(b, p) == IF b # None /\ b.head = p THEN 1 ELSE 0
FragUse(b, p) == IF b = None THEN 0 ELSE Cardinality(FragsOf(b, p))
Uses(pages, p) == Cardinality({i \in DOMAIN pages : pages[i] = p})


(* Pairs with a fixed first component are as many as the second ones.      *)
LEMMA PairedCount ==
  ASSUME NEW s, NEW I, IsFiniteSet(I)
  PROVE IsFiniteSet({s} \X I) /\ Cardinality({s} \X I) = Cardinality(I)
<1>1. IsFiniteSet({s}) /\ Cardinality({s}) = 1 BY FS_Singleton
<1>2. Cardinality(I) \in Nat BY FS_CardinalityType
<1> QED BY <1>1, <1>2, FS_Product

(* The indices of a sequence moved up by one.                              *)
LEMMA ShiftedCount ==
  ASSUME NEW I \in SUBSET Nat, IsFiniteSet(I)
  PROVE IsFiniteSet({i + 1 : i \in I}) /\ Cardinality({i + 1 : i \in I}) = Cardinality(I)
<1> DEFINE J == {i + 1 : i \in I}
           f == [i \in I |-> i + 1]
<1>1. f \in Bijection(I, J)
  <2>1. f \in [I -> J] OBVIOUS
  <2>2. \A a, b \in I : f[a] = f[b] => a = b OBVIOUS
  <2>3. \A y \in J : \E x \in I : f[x] = y OBVIOUS
  <2> QED BY <2>1, <2>2, <2>3 DEF Bijection, Injection, Surjection, IsInjective
<1>2. ExistsBijection(I, J) BY <1>1 DEF ExistsBijection
<1> QED BY <1>2, FS_Bijection

(* The fragments of a buffer are finitely many.                            *)
LEMMA FragsFinite ==
  ASSUME NEW b \in SkBuffs, NEW p
  PROVE /\ IsFiniteSet(FragsOf(b, p)) /\ Cardinality(FragsOf(b, p)) \in Nat
        /\ FragsOf(b, p) \in SUBSET Nat
        /\ DOMAIN b.frags = 1 .. Len(b.frags) /\ Len(b.frags) \in Nat
<1>1. b.frags \in Seq(SkbFrags) BY DEF SkBuffs
<1>2. DOMAIN b.frags = 1 .. Len(b.frags) /\ Len(b.frags) \in Nat BY <1>1
<1>3. IsFiniteSet(1 .. Len(b.frags))
  <2> Len(b.frags) \in Int /\ 1 \in Int BY <1>2
  <2> QED BY FS_Interval
<1>4. FragsOf(b, p) \in SUBSET (1 .. Len(b.frags)) BY <1>2 DEF FragsOf
<1> QED BY <1>2, <1>3, <1>4, FS_Subset, FS_CardinalityType

(* A buffer's page list, head first, counts both kinds of reference.       *)
LEMMA UsesOfAll ==
  ASSUME NEW b \in SkBuffs, NEW p
  PROVE /\ Uses(<<b.head>> \o FragPages(b), p) = HeadUse(b, p) + FragUse(b, p)
        /\ Uses(FragPages(b), p) = FragUse(b, p)
        /\ Uses(<<b.head>>, p) = HeadUse(b, p)
        /\ Uses(<<>>, p) = 0
        /\ HeadUse(b, p) \in Nat /\ FragUse(b, p) \in Nat
<1> DEFINE l == FragPages(b)
           n == Len(b.frags)
           I == FragsOf(b, p)
           J == {i + 1 : i \in I}
<1>1. IsFiniteSet(I) /\ Cardinality(I) \in Nat /\ I \in SUBSET Nat /\ DOMAIN b.frags = 1 .. n /\ n \in Nat
  BY FragsFinite
<1>2. b # None BY NoneAssumption
<1>3. FragUse(b, p) = Cardinality(I) BY <1>2 DEF FragUse
<1>4. {i \in DOMAIN l : l[i] = p} = I BY DEF FragPages, FragsOf
<1>5. Uses(l, p) = FragUse(b, p) BY <1>3, <1>4 DEF Uses
<1>6. DOMAIN l = 1 .. n /\ l \in Seq(Pages)
  <2>1. DOMAIN l = 1 .. n BY <1>1 DEF FragPages
  <2>2. b.frags \in Seq(SkbFrags) BY DEF SkBuffs
  <2>3. \A i \in 1 .. n : b.frags[i] \in SkbFrags BY <2>2
  <2>4. \A i \in 1 .. n : l[i] \in Pages BY <1>1, <2>3 DEF FragPages, SkbFrags
  <2>5. l = [i \in 1 .. n |-> l[i]] BY <2>1 DEF FragPages
  <2> QED BY <2>1, <2>4, <2>5, <1>1
<1>7. {i \in DOMAIN (<<b.head>> \o l) : (<<b.head>> \o l)[i] = p}
        = IF b.head = p THEN J \cup {1} ELSE J
  <2>1. b.head \in Pages BY DEF SkBuffs
  <2>2. Len(l) = n BY <1>6, <1>1
  <2> DEFINE c == <<b.head>> \o l
  <2>3. DOMAIN c = 1 .. (n + 1) /\ c[1] = b.head /\ \A i \in 1 .. n : c[i + 1] = l[i]
    <3> HIDE DEF l, n
    <3> QED BY <1>1, <1>6, <2>1, <2>2
  <2>4. \A i \in 1 .. (n + 1) : i # 1 => i - 1 \in 1 .. n /\ c[i] = l[i - 1]
    <3> SUFFICES ASSUME NEW i \in 1 .. (n + 1), i # 1
          PROVE i - 1 \in 1 .. n /\ c[i] = l[i - 1] OBVIOUS
    <3>1. i - 1 \in 1 .. n /\ (i - 1) + 1 = i BY <1>1
    <3> HIDE DEF c, l, n
    <3> QED BY <3>1, <2>3
  <2>5. \A i : i \in I <=> i \in 1 .. n /\ l[i] = p BY <1>4, <1>6
  <2>6. 1 \in 1 .. (n + 1) BY <1>1
  <2>7. \A i \in I : i \in 1 .. n /\ i + 1 \in 1 .. (n + 1) /\ c[i + 1] = p BY <2>3, <2>5, <1>1
  <2> DEFINE C == {i \in DOMAIN c : c[i] = p}
  <2> HIDE DEF c, l, I, n
  <2>8. \A i : i \in C => i = 1 \/ i \in J
    <3> SUFFICES ASSUME NEW i \in 1 .. (n + 1), c[i] = p, i # 1 PROVE i \in J BY <2>3
    <3>1. i - 1 \in I /\ (i - 1) + 1 = i BY <2>4, <2>5, <1>1
    <3> QED BY <3>1
  <2>9. \A i \in J : i \in C /\ i # 1 BY <2>7, <2>3, <1>1
  <2>10. 1 \in C <=> b.head = p BY <2>3, <2>6
  <2> HIDE DEF C, J
  <2> C = IF b.head = p THEN J \cup {1} ELSE J BY <2>8, <2>9, <2>10
  <2> QED BY DEF C, c
<1>8. 1 \notin J
  <2> SUFFICES ASSUME NEW i \in I, i + 1 = 1 PROVE FALSE OBVIOUS
  <2> i \in 1 .. n BY <1>1 DEF FragsOf
  <2> QED BY <1>1
<1>9. IsFiniteSet(J) /\ Cardinality(J) = Cardinality(I) BY <1>1, ShiftedCount
<1>10. Cardinality(J \cup {1}) = Cardinality(J) + 1 BY <1>8, <1>9, FS_AddElement
<1>11. Uses(<<b.head>> \o l, p) = HeadUse(b, p) + FragUse(b, p)
  <2> DEFINE C == {i \in DOMAIN (<<b.head>> \o l) : (<<b.head>> \o l)[i] = p}
  <2>1. Uses(<<b.head>> \o l, p) = Cardinality(C) BY DEF Uses
  <2>2. C = IF b.head = p THEN J \cup {1} ELSE J BY <1>7
  <2>3. Cardinality(C) = IF b.head = p THEN Cardinality(I) + 1 ELSE Cardinality(I)
    <3> HIDE DEF C, I, J
    <3> QED BY <2>2, <1>9, <1>10
  <2> HIDE DEF C, I, J, l
  <2> QED BY <2>1, <2>3, <1>1, <1>2, <1>3 DEF HeadUse
<1>12. Uses(<<b.head>>, p) = HeadUse(b, p)
  <2>1. {i \in DOMAIN <<b.head>> : <<b.head>>[i] = p} = IF b.head = p THEN {1} ELSE {} OBVIOUS
  <2> QED BY <2>1, <1>2, FS_Singleton, FS_EmptySet DEF Uses, HeadUse
<1>13. Uses(<<>>, p) = 0
  <2>1. {i \in DOMAIN << >> : << >>[i] = p} = {} OBVIOUS
  <2> QED BY <2>1, FS_EmptySet DEF Uses
<1> QED BY <1>1, <1>3, <1>5, <1>11, <1>12, <1>13 DEF HeadUse

(* Counts are finite.                                                      *)
LEMMA UsersFinite ==
  ASSUME NEW f \in [Skbs -> SkBuffs \cup {None}], NEW p
  PROVE /\ IsFiniteSet(HeadsIn(f, p)) /\ Cardinality(HeadsIn(f, p)) \in Nat
        /\ IsFiniteSet(FragsIn(f, p)) /\ Cardinality(FragsIn(f, p)) \in Nat
<1>1. IsFiniteSet(Skbs) /\ MaxFrags \in Int /\ 1 \in Int BY SkbAssumption
<1>2. IsFiniteSet(1 .. MaxFrags) BY <1>1, FS_Interval
<1>3. IsFiniteSet(Skbs \X (1 .. MaxFrags)) BY <1>1, <1>2, FS_Product
<1>4. HeadsIn(f, p) \in SUBSET Skbs BY DEF HeadsIn
<1>5. FragsIn(f, p) \in SUBSET (Skbs \X (1 .. MaxFrags)) BY DEF FragsIn
<1>6. IsFiniteSet(HeadsIn(f, p)) BY <1>1, <1>4, FS_Subset
<1>7. IsFiniteSet(FragsIn(f, p)) BY <1>3, <1>5, FS_Subset
<1> QED BY <1>6, <1>7, FS_CardinalityType

(* When one buffer changes, the heads in a page change by its own.         *)
LEMMA HeadsChange ==
  ASSUME NEW f \in [Skbs -> SkBuffs \cup {None}], NEW s \in Skbs,
         NEW b \in SkBuffs \cup {None}, NEW p
  PROVE Cardinality(HeadsIn([f EXCEPT ![s] = b], p))
          = Cardinality(HeadsIn(f, p)) - HeadUse(f[s], p) + HeadUse(b, p)
<1> DEFINE g == [f EXCEPT ![s] = b]
           O == HeadsIn(f, p) \ {s}
<1>1. IsFiniteSet(O) /\ Cardinality(O) \in Nat
      /\ Cardinality(O) = Cardinality(HeadsIn(f, p)) - HeadUse(f[s], p)
  <2>1. s \in HeadsIn(f, p) <=> HeadUse(f[s], p) = 1 BY DEF HeadsIn, HeadUse
  <2>2. HeadUse(f[s], p) \in {0, 1} BY DEF HeadUse
  <2> QED BY <2>1, <2>2, UsersFinite, FS_RemoveElement, FS_CardinalityType
<1>2. g[s] = b /\ \A t \in Skbs : t # s => g[t] = f[t] OBVIOUS
<1>3. HeadsIn(g, p) = IF HeadUse(b, p) = 1 THEN O \cup {s} ELSE O
  <2> HIDE DEF g
  <2> QED BY <1>2 DEF HeadsIn, HeadUse
<1>4. s \notin O OBVIOUS
<1>5. Cardinality(O \cup {s}) = Cardinality(O) + 1 BY <1>1, <1>4, FS_AddElement
<1>6. HeadUse(b, p) \in {0, 1} BY DEF HeadUse
<1>7. Cardinality(HeadsIn(g, p)) = Cardinality(O) + HeadUse(b, p)
  <2> HIDE DEF g, O
  <2> QED BY <1>1, <1>3, <1>5, <1>6
<1>8. HeadUse(f[s], p) \in Int /\ Cardinality(HeadsIn(f, p)) \in Nat BY UsersFinite DEF HeadUse
<1> QED BY <1>1, <1>6, <1>7, <1>8

(* The fragments of one buffer among those of all.                         *)
LEMMA OwnFrags ==
  ASSUME NEW f \in [Skbs -> SkBuffs \cup {None}], NEW s \in Skbs, NEW p,
         f[s] # None => Len(f[s].frags) <= MaxFrags
  PROVE LET O == {x \in FragsIn(f, p) : x[1] # s}
        IN /\ IsFiniteSet(O) /\ Cardinality(O) \in Nat /\ FragUse(f[s], p) \in Nat
           /\ Cardinality(FragsIn(f, p)) = Cardinality(O) + FragUse(f[s], p)
<1> DEFINE O == {x \in FragsIn(f, p) : x[1] # s}
           M == {x \in FragsIn(f, p) : x[1] = s}
           I == FragsOf(f[s], p)
<1>1. IsFiniteSet(FragsIn(f, p)) BY UsersFinite
<1>2. O \in SUBSET FragsIn(f, p) /\ M \in SUBSET FragsIn(f, p) OBVIOUS
<1>3. IsFiniteSet(O) /\ IsFiniteSet(M)
  <2> HIDE DEF O, M
  <2> QED BY <1>1, <1>2, FS_Subset
<1>4. FragsIn(f, p) = O \cup M /\ O \cap M = {} OBVIOUS
<1>5. Cardinality(O) \in Nat /\ Cardinality(M) \in Nat BY <1>3, FS_CardinalityType
<1>6. Cardinality(FragsIn(f, p)) = Cardinality(O) + Cardinality(M)
  <2>1. Cardinality(O \cap M) = 0 BY <1>4, FS_EmptySet
  <2> HIDE DEF O, M
  <2>2. Cardinality(O \cup M) = Cardinality(O) + Cardinality(M) - Cardinality(O \cap M)
    BY <1>3, FS_Union
  <2> QED BY <1>4, <1>5, <2>1, <2>2
<1>7. Cardinality(M) = FragUse(f[s], p)
  <2>1. CASE f[s] = None
    <3> M = {} BY <2>1 DEF FragsIn
    <3> QED BY <2>1, FS_EmptySet DEF FragUse
  <2>2. CASE f[s] # None
    <3>1. f[s] \in SkBuffs BY <2>2
    <3>2. IsFiniteSet(I) /\ DOMAIN f[s].frags = 1 .. Len(f[s].frags) /\ Len(f[s].frags) \in Nat
      BY <3>1, FragsFinite
    <3>3. M = {s} \X I
      <4>1. \A i : i \in I <=> i \in 1 .. MaxFrags /\ i <= Len(f[s].frags) /\ f[s].frags[i].page = p
        BY <3>2, <2>2, SkbAssumption DEF FragsOf
      <4>2. \A x \in M : x = <<s, x[2]>> /\ x[2] \in I BY <4>1 DEF FragsIn
      <4>3. \A i \in I : <<s, i>> \in M BY <4>1, <2>2 DEF FragsIn
      <4> HIDE DEF M, I
      <4> QED BY <4>2, <4>3
    <3>4. Cardinality({s} \X I) = Cardinality(I) BY <3>2, PairedCount
    <3> QED BY <3>3, <3>4, <2>2 DEF FragUse
  <2> QED BY <2>1, <2>2
<1> QED BY <1>3, <1>5, <1>6, <1>7

(* When one buffer changes, the fragments in a page change by its own.     *)
LEMMA FragsChange ==
  ASSUME NEW f \in [Skbs -> SkBuffs \cup {None}], NEW s \in Skbs,
         NEW b \in SkBuffs \cup {None}, NEW p,
         f[s] # None => Len(f[s].frags) <= MaxFrags,
         b # None => Len(b.frags) <= MaxFrags
  PROVE Cardinality(FragsIn([f EXCEPT ![s] = b], p))
          = Cardinality(FragsIn(f, p)) - FragUse(f[s], p) + FragUse(b, p)
<1> DEFINE g == [f EXCEPT ![s] = b]
           O == {x \in FragsIn(f, p) : x[1] # s}
           P == {x \in FragsIn(g, p) : x[1] # s}
<1>1. g \in [Skbs -> SkBuffs \cup {None}] /\ g[s] = b OBVIOUS
<1>2. \A t \in Skbs : t # s => g[t] = f[t] OBVIOUS
<1>3. Cardinality(O) \in Nat /\ FragUse(f[s], p) \in Nat
      /\ Cardinality(FragsIn(f, p)) = Cardinality(O) + FragUse(f[s], p)
  BY OwnFrags
<1> HIDE DEF g
<1>4. FragUse(g[s], p) \in Nat /\ Cardinality(FragsIn(g, p)) = Cardinality(P) + FragUse(g[s], p)
  BY <1>1, OwnFrags
<1>5. P = O
  <2>1. \A x \in Skbs \X (1 .. MaxFrags) : x[1] # s => g[x[1]] = f[x[1]] BY <1>2
  <2> QED BY <2>1 DEF FragsIn
<1>6. Cardinality(FragsIn(g, p)) = Cardinality(O) + FragUse(b, p) /\ FragUse(b, p) \in Nat
  <2> HIDE DEF O, P
  <2> QED BY <1>1, <1>4, <1>5
<1>7. Cardinality(FragsIn(g, p)) = Cardinality(FragsIn(f, p)) - FragUse(f[s], p) + FragUse(b, p)
  <2> HIDE DEF O, P
  <2> QED BY <1>3, <1>6
<1> QED BY <1>7 DEF g

(* The types; a page on the list has bytes, and a buffer no more fragments *)
(* than entries.                                                           *)
SkbTypeOK ==
    /\ refs \in [Pages -> Nat] /\ psize \in [Pages -> Nat] /\ held \in [Pages -> Nat]
    /\ skb \in [Skbs -> SkBuffs \cup {None}]
    /\ \A s \in Skbs : Live(s) => Len(skb[s].frags) <= MaxFrags
    /\ \A p \in Pages : refs[p] > 0 => psize[p] > 0

SkbInv == SkbTypeOK /\ RefsExactlyHeld

(* The invariant in terms of the two sets of users, in this state and in   *)
(* the next.                                                               *)
LEMMA RefsByUse ==
  RefsExactlyHeld <=>
    \A p \in Pages : refs[p] = held[p] + Cardinality(HeadsIn(skb, p)) + Cardinality(FragsIn(skb, p))
<1>1. \A p : {s \in Skbs : Live(s) /\ skb[s].head = p} = HeadsIn(skb, p) BY DEF Live, HeadsIn
<1>2. \A p : {x \in Skbs \X (1..MaxFrags) : /\ Live(x[1]) /\ x[2] <= Len(skb[x[1]].frags)
                                            /\ skb[x[1]].frags[x[2]].page = p} = FragsIn(skb, p)
  BY DEF Live, FragsIn
<1> QED BY <1>1, <1>2 DEF RefsExactlyHeld

(* The same, of the next state.                                            *)
LEMMA RefsByUseNext ==
  RefsExactlyHeld' <=>
    \A p \in Pages : refs'[p] = held'[p] + Cardinality(HeadsIn(skb', p)) + Cardinality(FragsIn(skb', p))
<1>1. \A p : {s \in Skbs : Live(s)' /\ skb'[s].head = p} = HeadsIn(skb', p) BY DEF Live, HeadsIn
<1>2. \A p : {x \in Skbs \X (1..MaxFrags) : /\ Live(x[1])' /\ x[2] <= Len(skb'[x[1]].frags)
                                            /\ skb'[x[1]].frags[x[2]].page = p} = FragsIn(skb', p)
  BY DEF Live, FragsIn
<1> QED BY <1>1, <1>2 DEF RefsExactlyHeld

(* What a buffer holds.                                                    *)
LEMMA UseTypes ==
  ASSUME NEW b \in SkBuffs \cup {None}, NEW p
  PROVE HeadUse(b, p) \in Nat /\ FragUse(b, p) \in Nat
<1>1. CASE b = None BY <1>1 DEF HeadUse, FragUse
<1>2. CASE b \in SkBuffs BY <1>2, UsesOfAll
<1> QED BY <1>1, <1>2

(* A function on the pages.                                                *)
PageFcn(f) == f = [p \in Pages |-> f[p]]

(* The counts change by what buffer s and the drivers hold.                *)
Balanced(s, b) ==
    /\ PageFcn(refs')
    /\ \A p \in Pages :
        /\ refs'[p] = refs[p] - held[p] + held'[p]
             - HeadUse(skb[s], p) - FragUse(skb[s], p) + HeadUse(b, p) + FragUse(b, p)
        /\ refs'[p] > 0 => psize'[p] > 0

(* A step that changes one buffer keeps the invariant if the counts of the *)
(* pages change by what the buffer and the drivers hold.                   *)
LEMMA BalancedStep ==
  ASSUME SkbInv, NEW s \in Skbs, NEW b \in SkBuffs \cup {None},
         b # None => Len(b.frags) <= MaxFrags, Becomes(s, b),
         held' \in [Pages -> Nat], psize' \in [Pages -> Nat],
         Balanced(s, b)
  PROVE SkbInv'
<1>1. skb' \in [Skbs -> SkBuffs \cup {None}] /\ skb'[s] = b /\ \A t \in Skbs : t # s => skb'[t] = skb[t]
  BY DEF SkbInv, SkbTypeOK, Becomes
<1>2. \A t \in Skbs : Live(t)' => Len(skb'[t].frags) <= MaxFrags
  BY <1>1 DEF Live, SkbInv, SkbTypeOK
<1>3. ASSUME NEW p \in Pages
      PROVE /\ refs'[p] \in Nat
            /\ refs'[p] = held'[p] + Cardinality(HeadsIn(skb', p)) + Cardinality(FragsIn(skb', p))
  <2>0. skb \in [Skbs -> SkBuffs \cup {None}] /\ skb[s] \in SkBuffs \cup {None} /\ skb' = [skb EXCEPT ![s] = b]
        /\ (skb[s] # None => Len(skb[s].frags) <= MaxFrags)
    BY DEF SkbInv, SkbTypeOK, Becomes, Live
  <2>1. Cardinality(HeadsIn(skb', p)) = Cardinality(HeadsIn(skb, p)) - HeadUse(skb[s], p) + HeadUse(b, p)
    BY <2>0, HeadsChange
  <2>2. Cardinality(FragsIn(skb', p)) = Cardinality(FragsIn(skb, p)) - FragUse(skb[s], p) + FragUse(b, p)
    BY <2>0, FragsChange
  <2>3. Cardinality(HeadsIn(skb', p)) \in Nat /\ Cardinality(FragsIn(skb', p)) \in Nat
        /\ Cardinality(HeadsIn(skb, p)) \in Nat /\ Cardinality(FragsIn(skb, p)) \in Nat
    BY <2>0, <1>1, UsersFinite
  <2>4. HeadUse(skb[s], p) \in Nat /\ FragUse(skb[s], p) \in Nat /\ HeadUse(b, p) \in Nat /\ FragUse(b, p) \in Nat
    BY <2>0, UseTypes
  <2>5. refs[p] = held[p] + Cardinality(HeadsIn(skb, p)) + Cardinality(FragsIn(skb, p))
    BY RefsByUse DEF SkbInv
  <2>6. held[p] \in Nat /\ held'[p] \in Nat BY DEF SkbInv, SkbTypeOK
  <2>7. refs'[p] = refs[p] - held[p] + held'[p]
             - HeadUse(skb[s], p) - FragUse(skb[s], p) + HeadUse(b, p) + FragUse(b, p)
               BY DEF Balanced
  <2> DEFINE H == Cardinality(HeadsIn(skb, p))  F == Cardinality(FragsIn(skb, p))
             G == Cardinality(HeadsIn(skb', p)) D == Cardinality(FragsIn(skb', p))
             u == HeadUse(skb[s], p) v == FragUse(skb[s], p) x == HeadUse(b, p) y == FragUse(b, p)
             r == refs'[p] o == refs[p] h == held[p] k == held'[p]
  <2>8. h \in Nat /\ k \in Nat /\ u \in Nat /\ v \in Nat /\ x \in Nat /\ y \in Nat /\ H \in Nat
        /\ F \in Nat /\ G \in Nat /\ D \in Nat
    BY <2>3, <2>4, <2>6
  <2>9. o = h + H + F /\ r = o - h + k - u - v + x + y /\ G = H - u + x /\ D = F - v + y
    BY <2>1, <2>2, <2>5, <2>7
  <2>10. r \in Nat /\ r = k + G + D
    <3> HIDE DEF H, F, G, D, u, v, x, y, r, o, h, k
    <3> QED BY <2>8, <2>9
  <2> QED BY <2>10
<1>4. refs' \in [Pages -> Nat] BY <1>3 DEF Balanced, PageFcn
<1>5. SkbTypeOK' BY <1>1, <1>2, <1>4 DEF SkbTypeOK, Balanced
<1>6. RefsExactlyHeld' BY <1>3, RefsByUseNext
<1> QED BY <1>5, <1>6 DEF SkbInv

(* A page with no references is held by nobody.                            *)
LEMMA FreePage ==
  ASSUME SkbInv, NEW p \in Pages, refs[p] = 0
  PROVE held[p] = 0 /\ \A s \in Skbs : HeadUse(skb[s], p) = 0 /\ FragUse(skb[s], p) = 0
<1>1. refs[p] = held[p] + Cardinality(HeadsIn(skb, p)) + Cardinality(FragsIn(skb, p))
  BY RefsByUse DEF SkbInv
<1>2. skb \in [Skbs -> SkBuffs \cup {None}] /\ held[p] \in Nat BY DEF SkbInv, SkbTypeOK
<1>3. Cardinality(HeadsIn(skb, p)) \in Nat /\ Cardinality(FragsIn(skb, p)) \in Nat /\ IsFiniteSet(HeadsIn(skb, p))
  BY <1>2, UsersFinite
<1>4. held[p] = 0 /\ Cardinality(HeadsIn(skb, p)) = 0 /\ Cardinality(FragsIn(skb, p)) = 0
  BY <1>1, <1>2, <1>3
<1>5. HeadsIn(skb, p) = {} BY <1>3, <1>4, FS_EmptySet
<1>6. ASSUME NEW s \in Skbs PROVE HeadUse(skb[s], p) = 0 /\ FragUse(skb[s], p) = 0
  <2>1. HeadUse(skb[s], p) = 0 BY <1>5 DEF HeadsIn, HeadUse
  <2>2. skb[s] # None => Len(skb[s].frags) <= MaxFrags BY DEF SkbInv, SkbTypeOK, Live
  <2> DEFINE O == {x \in FragsIn(skb, p) : x[1] # s}
  <2>3. Cardinality(O) \in Nat /\ FragUse(skb[s], p) \in Nat
        /\ Cardinality(FragsIn(skb, p)) = Cardinality(O) + FragUse(skb[s], p)
    BY <1>2, <2>2, OwnFrags
  <2> HIDE DEF O
  <2> QED BY <2>1, <2>3, <1>4
<1> QED BY <1>4, <1>6

(* What a buffer or a driver holds has a reference.                        *)
LEMMA HeldPage ==
  ASSUME SkbInv, NEW p \in Pages, NEW s \in Skbs,
         held[p] > 0 \/ HeadUse(skb[s], p) > 0 \/ FragUse(skb[s], p) > 0
  PROVE refs[p] > 0 /\ psize[p] > 0
<1>1. refs[p] \in Nat BY DEF SkbInv, SkbTypeOK
<1>2. refs[p] # 0 
  <2> SUFFICES ASSUME refs[p] = 0 PROVE FALSE OBVIOUS
  <2> QED BY FreePage
<1> QED BY <1>1, <1>2 DEF SkbInv, SkbTypeOK

(* put_page for each page of a list: the counts go down, and a page that   *)
(* is left has its size.                                                   *)
LEMMA PutEffect ==
  ASSUME SkbInv, NEW pages, \A p \in Pages : Uses(pages, p) \in Nat, PutPages(pages)
  PROVE /\ PageFcn(refs') /\ psize' \in [Pages -> Nat]
        /\ \A p \in Pages : refs'[p] = refs[p] - Uses(pages, p)
        /\ \A p \in Pages : refs'[p] > 0 => psize'[p] > 0
<1>1. PageFcn(refs') /\ psize' \in [Pages -> Nat]
  BY DEF PageFcn, PutPages, SkbInv, SkbTypeOK
<1>2. ASSUME NEW p \in Pages
      PROVE refs'[p] = refs[p] - Uses(pages, p) /\ (refs'[p] > 0 => psize'[p] > 0)
  <2>1. refs'[p] = refs[p] - Uses(pages, p) BY DEF PutPages, Less, Uses
  <2>2. psize'[p] = IF refs'[p] = 0 THEN 0 ELSE psize[p] BY DEF PutPages
  <2>3. refs[p] \in Nat /\ (refs[p] > 0 => psize[p] > 0) BY DEF SkbInv, SkbTypeOK
  <2>4. Uses(pages, p) \in Nat OBVIOUS
  <2>5. refs'[p] > 0 => refs'[p] # 0 /\ refs[p] > 0 BY <2>1, <2>3, <2>4
  <2> QED BY <2>1, <2>2, <2>3, <2>5
<1> QED BY <1>1, <1>2

(* The same with a new page, which is on no list.                          *)
LEMMA AllocEffect ==
  ASSUME SkbInv, NEW q \in Pages, NEW size \in Nat, size > 0, NEW pages,
         \A p \in Pages : Uses(pages, p) \in Nat, AllocThenPut(q, size, pages)
  PROVE /\ PageFcn(refs') /\ psize' \in [Pages -> Nat]
        /\ refs[q] = 0 /\ refs'[q] = 1
        /\ \A p \in Pages \ {q} : refs'[p] = refs[p] - Uses(pages, p)
        /\ \A p \in Pages : refs'[p] > 0 => psize'[p] > 0
<1>1. PageFcn(refs') /\ psize' \in [Pages -> Nat] /\ refs[q] = 0 /\ refs'[q] = 1 /\ psize'[q] = size
  BY DEF PageFcn, AllocThenPut, SkbInv, SkbTypeOK
<1>2. ASSUME NEW p \in Pages \ {q}
      PROVE refs'[p] = refs[p] - Uses(pages, p) /\ (refs'[p] > 0 => psize'[p] > 0)
  <2>1. refs'[p] = refs[p] - Uses(pages, p) BY DEF AllocThenPut, Less, Uses
  <2>2. psize'[p] = IF refs'[p] = 0 THEN 0 ELSE psize[p] BY <2>1 DEF AllocThenPut, Less, Uses
  <2>3. refs[p] \in Nat /\ (refs[p] > 0 => psize[p] > 0) BY DEF SkbInv, SkbTypeOK
  <2>4. Uses(pages, p) \in Nat OBVIOUS
  <2>5. refs'[p] > 0 => refs'[p] # 0 /\ refs[p] > 0 BY <2>1, <2>3, <2>4
  <2> QED BY <2>1, <2>2, <2>3, <2>5
<1> QED BY <1>1, <1>2

(***************************************************************************)
(* Steps that change no buffer.                                            *)
(***************************************************************************)

(* The drivers' references change as the counts do.                        *)
LEMMA DriverStep ==
  ASSUME SkbInv, skb' = skb, PageFcn(refs'), psize' \in [Pages -> Nat], held' \in [Pages -> Nat],
         \A p \in Pages : refs'[p] = refs[p] - held[p] + held'[p],
         \A p \in Pages : refs'[p] > 0 => psize'[p] > 0
  PROVE SkbInv'
<1>1. ASSUME NEW p \in Pages
      PROVE refs'[p] \in Nat /\ refs'[p] = held'[p] + Cardinality(HeadsIn(skb, p)) + Cardinality(FragsIn(skb, p))
  <2>1. refs[p] = held[p] + Cardinality(HeadsIn(skb, p)) + Cardinality(FragsIn(skb, p))
    BY RefsByUse DEF SkbInv
  <2>2. Cardinality(HeadsIn(skb, p)) \in Nat /\ Cardinality(FragsIn(skb, p)) \in Nat
    BY UsersFinite DEF SkbInv, SkbTypeOK
  <2>3. held[p] \in Nat /\ held'[p] \in Nat BY DEF SkbInv, SkbTypeOK
  <2> QED BY <2>1, <2>2, <2>3
<1>2. refs' \in [Pages -> Nat] BY <1>1 DEF PageFcn
<1>3. RefsExactlyHeld' BY <1>1, RefsByUseNext
<1>4. SkbTypeOK' BY <1>2 DEF SkbTypeOK, SkbInv, Live
<1> QED BY <1>3, <1>4 DEF SkbInv

(* get_page, put_page and page_pool_alloc_frag.                            *)
LEMMA PageSteps ==
  ASSUME SkbInv, NEW p \in Pages,
         get_page(p) \/ put_page(p) \/ \E n \in Lengths : page_pool_alloc_frag(p, n)
  PROVE SkbInv'
<1>0. /\ refs \in [Pages -> Nat] /\ psize \in [Pages -> Nat] /\ held \in [Pages -> Nat]
      /\ \A q \in Pages : refs[q] > 0 => psize[q] > 0
  BY DEF SkbInv, SkbTypeOK
<1>1. CASE get_page(p)
  <2>5. psize' = psize /\ held' \in [Pages -> Nat] /\ skb' = skb /\ refs' \in [Pages -> Nat]
    BY <1>0, <1>1 DEF get_page
  <2>1. PageFcn(refs') BY <2>5 DEF PageFcn
  <2>2. \A q \in Pages : refs'[q] = refs[q] - held[q] + held'[q]
    BY <1>0, <1>1 DEF get_page
  <2>3. \A q \in Pages : held[q] > 0 => refs[q] > 0
    <3> SUFFICES ASSUME NEW q \in Pages, held[q] > 0, ~(refs[q] > 0) PROVE FALSE OBVIOUS
    <3> refs[q] = 0 BY <1>0
    <3> QED BY FreePage, <1>0
  <2>4. \A q \in Pages : refs'[q] > 0 => psize'[q] > 0
    BY <1>0, <1>1, <2>3, <2>5 DEF get_page
  <2> QED BY <1>0, <2>1, <2>5, <2>2, <2>4, DriverStep
<1>2. CASE put_page(p)
  <2>2. \A q \in Pages : Uses(<<p>>, q) = IF q = p THEN 1 ELSE 0
    <3> TAKE q \in Pages
    <3>1. {i \in DOMAIN <<p>> : <<p>>[i] = q} = IF q = p THEN {1} ELSE {} OBVIOUS
    <3> QED BY <3>1, FS_Singleton, FS_EmptySet DEF Uses
  <2>1. PageFcn(refs') /\ psize' \in [Pages -> Nat]
        /\ (\A q \in Pages : refs'[q] = refs[q] - Uses(<<p>>, q))
        /\ (\A q \in Pages : refs'[q] > 0 => psize'[q] > 0)
    <3>1. PutPages(<<p>>) BY <1>2 DEF put_page
    <3>2. \A q \in Pages : Uses(<<p>>, q) \in Nat BY <2>2
    <3> QED BY <3>1, <3>2, PutEffect
  <2>3. held' = [held EXCEPT ![p] = @ - 1] /\ held[p] > 0 /\ skb' = skb BY <1>2 DEF put_page
  <2>4. held' \in [Pages -> Nat] BY <1>0, <2>3
  <2>5. \A q \in Pages : refs'[q] = refs[q] - held[q] + held'[q] BY <1>0, <2>1, <2>2, <2>3
  <2> QED BY <2>1, <2>3, <2>4, <2>5, DriverStep
<1>3. ASSUME NEW n \in Lengths, page_pool_alloc_frag(p, n) PROVE SkbInv'
  <2>1. n \in Nat /\ n > 0 BY SkbAssumption DEF Lengths
  <2>3. \A q \in Pages : Uses(<<>>, q) = 0
    <3> TAKE q \in Pages
    <3>1. {i \in DOMAIN << >> : << >>[i] = q} = {} OBVIOUS
    <3> QED BY <3>1, FS_EmptySet DEF Uses
  <2>2. PageFcn(refs') /\ psize' \in [Pages -> Nat]
        /\ refs[p] = 0 /\ refs'[p] = 1
        /\ (\A q \in Pages \ {p} : refs'[q] = refs[q] - Uses(<<>>, q))
        /\ (\A q \in Pages : refs'[q] > 0 => psize'[q] > 0)
    <3>1. AllocThenPut(p, n, <<>>) BY <1>3 DEF page_pool_alloc_frag, PageAlloc
    <3>2. \A q \in Pages : Uses(<<>>, q) \in Nat BY <2>3
    <3> QED BY <3>1, <3>2, <2>1, AllocEffect
  <2>4. held' = [held EXCEPT ![p] = 1] /\ skb' = skb BY <1>3 DEF page_pool_alloc_frag
  <2>5. held[p] = 0 BY <2>2, FreePage
  <2>6. \A q \in Pages : refs'[q] = refs[q] - held[q] + held'[q] BY <1>0, <2>2, <2>3, <2>4, <2>5
  <2> QED BY <1>0, <2>2, <2>4, <2>6, DriverStep
<1> QED BY <1>1, <1>2, <1>3

(***************************************************************************)
(* Steps of one buffer.                                                    *)
(***************************************************************************)

(* The parts of a buffer.                                                  *)
LEMMA BufferParts ==
  ASSUME SkbInv, NEW s \in Skbs, Live(s)
  PROVE /\ skb[s] \in SkBuffs /\ skb[s].head \in Pages /\ skb[s].data \in Nat /\ skb[s].len \in Nat
        /\ skb[s].dlen \in Nat /\ skb[s].tail \in Nat /\ skb[s].end \in Nat
        /\ skb[s].frags \in Seq(SkbFrags) /\ Len(skb[s].frags) <= MaxFrags
BY DEF SkbInv, SkbTypeOK, SkBuffs, Live

(* Operations on the linear part alone: head and fragments stay.           *)
LEMMA LinearStep ==
  ASSUME SkbInv, NEW s \in Skbs, NEW b \in SkBuffs, Live(s), Becomes(s, b),
         b.head = skb[s].head, b.frags = skb[s].frags, UNCHANGED <<refs, psize, held>>
  PROVE SkbInv'
<1>0. /\ refs \in [Pages -> Nat] /\ psize \in [Pages -> Nat] /\ held \in [Pages -> Nat]
      /\ \A q \in Pages : refs[q] > 0 => psize[q] > 0
  BY DEF SkbInv, SkbTypeOK
<1>1. b # None /\ skb[s] # None BY NoneAssumption DEF Live
<1>2. \A p \in Pages : HeadUse(b, p) = HeadUse(skb[s], p) /\ FragUse(b, p) = FragUse(skb[s], p)
  BY <1>1 DEF HeadUse, FragUse, FragsOf
<1>3. \A p \in Pages : HeadUse(b, p) \in Nat /\ FragUse(b, p) \in Nat BY UseTypes
<1>4. Balanced(s, b) BY <1>0, <1>2, <1>3 DEF Balanced, PageFcn
<1>5. Len(b.frags) <= MaxFrags BY BufferParts
<1> QED BY <1>0, <1>4, <1>5, BalancedStep

(* What valid bounds say in numbers.                                       *)
LEMMA ValidParts ==
  ASSUME SkbInv, NEW s \in Skbs, Live(s), lcompat_skb_valid_bounds(skb[s])
  PROVE /\ HeadLen(skb[s]) \in Nat /\ HeadLen(skb[s]) = skb[s].len - skb[s].dlen
        /\ skb[s].dlen <= skb[s].len /\ skb[s].data + HeadLen(skb[s]) <= skb[s].tail
        /\ skb[s].tail <= skb[s].end /\ skb[s].data <= skb[s].tail
BY BufferParts DEF lcompat_skb_valid_bounds, HeadLen

(* Updates of a buffer give a buffer.                                      *)
LEMMA Updated ==
  ASSUME NEW c \in SkBuffs, NEW h \in Pages, NEW n \in Nat, NEW m \in Nat, NEW k \in Nat, NEW f \in Seq(SkbFrags)
  PROVE /\ [c EXCEPT !.tail = n, !.len = m] \in SkBuffs
        /\ [c EXCEPT !.data = n, !.len = m] \in SkBuffs
        /\ [c EXCEPT !.data = n, !.tail = m] \in SkBuffs
        /\ [c EXCEPT !.len = n, !.tail = m] \in SkBuffs
        /\ [c EXCEPT !.frags = f, !.len = n, !.dlen = m] \in SkBuffs
        /\ [c EXCEPT !.frags = f, !.dlen = 0, !.len = n, !.tail = m] \in SkBuffs
        /\ [c EXCEPT !.dlen = k, !.len = n, !.tail = m] \in SkBuffs
        /\ [c EXCEPT !.head = h, !.data = n, !.tail = m, !.end = k] \in SkBuffs
        /\ [c EXCEPT !.head = h, !.tail = n, !.end = m, !.dlen = 0, !.frags = f] \in SkBuffs
        /\ [c EXCEPT !.head = h, !.tail = n, !.len = m, !.dlen = 0, !.frags = f] \in SkBuffs
<1>1. [c EXCEPT !.tail = n, !.len = m] \in SkBuffs BY DEF SkBuffs
<1>2. [c EXCEPT !.data = n, !.len = m] \in SkBuffs BY DEF SkBuffs
<1>3. [c EXCEPT !.data = n, !.tail = m] \in SkBuffs BY DEF SkBuffs
<1>4. [c EXCEPT !.len = n, !.tail = m] \in SkBuffs BY DEF SkBuffs
<1>5. [c EXCEPT !.frags = f, !.len = n, !.dlen = m] \in SkBuffs BY DEF SkBuffs
<1>6. [c EXCEPT !.frags = f, !.dlen = 0, !.len = n, !.tail = m] \in SkBuffs BY DEF SkBuffs
<1>7. [c EXCEPT !.dlen = k, !.len = n, !.tail = m] \in SkBuffs BY DEF SkBuffs
<1>8. [c EXCEPT !.head = h, !.data = n, !.tail = m, !.end = k] \in SkBuffs BY DEF SkBuffs
<1>9. [c EXCEPT !.head = h, !.tail = n, !.end = m, !.dlen = 0, !.frags = f] \in SkBuffs
  BY DEF SkBuffs
<1>10. [c EXCEPT !.head = h, !.tail = n, !.len = m, !.dlen = 0, !.frags = f] \in SkBuffs
  BY DEF SkBuffs
<1> QED BY <1>1, <1>2, <1>3, <1>4, <1>5, <1>6, <1>7, <1>8, <1>9, <1>10

(* The operations on the linear part.                                      *)
LEMMA LinearSteps ==
  ASSUME SkbInv, NEW s \in Skbs, NEW n \in Lengths,
         \/ skb_put(s, n) \/ skb_push(s, n) \/ skb_pull(s, n) \/ skb_reserve(s, n)
         \/ skb_reset_tail_pointer(s)
  PROVE SkbInv'
<1>0. n \in Nat BY SkbAssumption DEF Lengths
<1>l. Live(s) BY DEF skb_put, skb_push, skb_pull, skb_reserve, skb_reset_tail_pointer
<1>p. /\ skb[s] \in SkBuffs /\ skb[s].head \in Pages /\ skb[s].data \in Nat /\ skb[s].len \in Nat
      /\ skb[s].dlen \in Nat /\ skb[s].tail \in Nat /\ skb[s].end \in Nat
      /\ skb[s].frags \in Seq(SkbFrags)
  BY <1>l, BufferParts
<1>1. CASE skb_put(s, n)
  <2> DEFINE b == [skb[s] EXCEPT !.tail = @ + n, !.len = @ + n]
  <2>3. skb[s].tail + n \in Nat /\ skb[s].len + n \in Nat BY <1>0, <1>p
  <2>4. b \in SkBuffs BY <1>p, <2>3, Updated
  <2>1. b \in SkBuffs /\ b.head = skb[s].head /\ b.frags = skb[s].frags BY <1>p, <2>4 DEF SkBuffs
  <2>2. Becomes(s, b) /\ UNCHANGED <<refs, psize, held>> BY <1>1 DEF skb_put
  <2> HIDE DEF b
  <2> QED BY <1>l, <2>1, <2>2, LinearStep
<1>2. CASE skb_push(s, n)
  <2> DEFINE b == [skb[s] EXCEPT !.data = @ - n, !.len = @ + n]
  <2>0. n <= skb[s].data BY <1>2 DEF skb_push
  <2>3. skb[s].data - n \in Nat /\ skb[s].len + n \in Nat BY <1>0, <1>p, <2>0
  <2>4. b \in SkBuffs BY <1>p, <2>3, Updated
  <2>1. b \in SkBuffs /\ b.head = skb[s].head /\ b.frags = skb[s].frags BY <1>p, <2>4 DEF SkBuffs
  <2>2. Becomes(s, b) /\ UNCHANGED <<refs, psize, held>> BY <1>2 DEF skb_push
  <2> HIDE DEF b
  <2> QED BY <1>l, <2>1, <2>2, LinearStep
<1>3. CASE skb_pull(s, n)
  <2> DEFINE b == [skb[s] EXCEPT !.data = @ + n, !.len = @ - n]
  <2>0. n <= skb[s].len BY <1>3 DEF skb_pull
  <2>3. skb[s].data + n \in Nat /\ skb[s].len - n \in Nat BY <1>0, <1>p, <2>0
  <2>4. b \in SkBuffs BY <1>p, <2>3, Updated
  <2>1. b \in SkBuffs /\ b.head = skb[s].head /\ b.frags = skb[s].frags BY <1>p, <2>4 DEF SkBuffs
  <2>2. Becomes(s, b) /\ UNCHANGED <<refs, psize, held>> BY <1>3 DEF skb_pull
  <2> HIDE DEF b
  <2> QED BY <1>l, <2>1, <2>2, LinearStep
<1>4. CASE skb_reserve(s, n)
  <2> DEFINE b == [skb[s] EXCEPT !.data = @ + n, !.tail = @ + n]
  <2>3. skb[s].data + n \in Nat /\ skb[s].tail + n \in Nat BY <1>0, <1>p
  <2>4. b \in SkBuffs BY <1>p, <2>3, Updated
  <2>1. b \in SkBuffs /\ b.head = skb[s].head /\ b.frags = skb[s].frags BY <1>p, <2>4 DEF SkBuffs
  <2>2. Becomes(s, b) /\ UNCHANGED <<refs, psize, held>> BY <1>4 DEF skb_reserve
  <2> HIDE DEF b
  <2> QED BY <1>l, <2>1, <2>2, LinearStep
<1>5. CASE skb_reset_tail_pointer(s)
  <2> DEFINE b == [skb[s] EXCEPT !.len = 0, !.tail = skb[s].data]
  <2>3. 0 \in Nat /\ skb[s].data \in Nat BY <1>p
  <2>4. b \in SkBuffs BY <1>p, <2>3, Updated
  <2>1. b \in SkBuffs /\ b.head = skb[s].head /\ b.frags = skb[s].frags BY <1>p, <2>4 DEF SkBuffs
  <2>2. Becomes(s, b) /\ UNCHANGED <<refs, psize, held>> BY <1>5 DEF skb_reset_tail_pointer
  <2> HIDE DEF b
  <2> QED BY <1>l, <2>1, <2>2, LinearStep
<1> QED BY <1>1, <1>2, <1>3, <1>4, <1>5

(* A buffer put down, with its head and its fragments.                     *)
LEMMA FreeStep ==
  ASSUME SkbInv, NEW s \in Skbs, kfree_skb(s)
  PROVE SkbInv'
<1> DEFINE pages == <<skb[s].head>> \o FragPages(skb[s])
<1>1. Live(s) /\ PutPages(pages) /\ Becomes(s, None) /\ held' = held BY DEF kfree_skb
<1>2. skb[s] \in SkBuffs BY <1>1, BufferParts
<1>3. \A p \in Pages : /\ Uses(pages, p) = HeadUse(skb[s], p) + FragUse(skb[s], p)
                       /\ HeadUse(skb[s], p) \in Nat /\ FragUse(skb[s], p) \in Nat
  BY <1>2, UsesOfAll
<1> HIDE DEF pages
<1>4. /\ PageFcn(refs') /\ psize' \in [Pages -> Nat]
      /\ \A p \in Pages : refs'[p] = refs[p] - Uses(pages, p)
      /\ \A p \in Pages : refs'[p] > 0 => psize'[p] > 0
  <2> \A p \in Pages : Uses(pages, p) \in Nat BY <1>3
  <2> QED BY <1>1, PutEffect
<1>5. \A p \in Pages : refs[p] \in Nat /\ held[p] \in Nat BY DEF SkbInv, SkbTypeOK
<1>6. \A p : HeadUse(None, p) = 0 /\ FragUse(None, p) = 0 BY DEF HeadUse, FragUse
<1>7. Balanced(s, None) BY <1>1, <1>3, <1>4, <1>5, <1>6 DEF Balanced
<1>8. held' \in [Pages -> Nat] BY <1>1 DEF SkbInv, SkbTypeOK
<1> QED BY <1>1, <1>4, <1>7, <1>8, BalancedStep

(* A buffer over a new page of its own: allocated, or copied to.           *)
LEMMA FreshStep ==
  ASSUME SkbInv, NEW s \in Skbs, ~Live(s), NEW b \in SkBuffs, NEW p \in Pages, NEW size \in Nat, size > 0,
         b.head = p, b.frags = <<>>, PageAlloc(p, size), Becomes(s, b), held' = held
  PROVE SkbInv'
<1>1. b # None /\ skb[s] = None BY NoneAssumption DEF Live
<1>2. \A q \in Pages : Uses(<<>>, q) = 0 /\ FragUse(b, q) = 0 /\ HeadUse(b, q) = IF q = p THEN 1 ELSE 0
  <2> TAKE q \in Pages
  <2>1. FragsOf(b, q) = {} BY DEF FragsOf
  <2> QED BY <1>1, <2>1, UsesOfAll, FS_EmptySet DEF FragUse, HeadUse
<1>3. /\ PageFcn(refs') /\ psize' \in [Pages -> Nat]
      /\ refs[p] = 0 /\ refs'[p] = 1
      /\ \A q \in Pages \ {p} : refs'[q] = refs[q] - Uses(<<>>, q)
      /\ \A q \in Pages : refs'[q] > 0 => psize'[q] > 0
  <2> \A q \in Pages : Uses(<<>>, q) \in Nat BY <1>2
  <2> AllocThenPut(p, size, <<>>) BY DEF PageAlloc
  <2> QED BY AllocEffect
<1>4. \A q \in Pages : HeadUse(skb[s], q) = 0 /\ FragUse(skb[s], q) = 0 BY <1>1 DEF HeadUse, FragUse
<1>5. \A q \in Pages : refs[q] \in Nat /\ held[q] \in Nat BY DEF SkbInv, SkbTypeOK
<1>6. Balanced(s, b) BY <1>2, <1>3, <1>4, <1>5, SMTT(30) DEF Balanced
<1>7. Len(b.frags) <= MaxFrags BY SkbAssumption
<1>8. held' \in [Pages -> Nat] BY DEF SkbInv, SkbTypeOK
<1> QED BY <1>3, <1>6, <1>7, <1>8, BalancedStep

(* alloc_skb and skb_copy.                                                 *)
LEMMA AllocStep ==
  ASSUME SkbInv, NEW s \in Skbs, NEW p \in Pages, NEW n \in 0 .. MaxLen, alloc_skb(s, p, n)
  PROVE SkbInv'
<1> DEFINE b == NewSkb(p, n)
<1>1. n \in Nat BY SkbAssumption
<1>2. b \in SkBuffs /\ b.head = p /\ b.frags = <<>> BY <1>1 DEF NewSkb, SkBuffs
<1>3. ~Live(s) /\ PageAlloc(p, FrameBytes(n)) /\ Becomes(s, b) /\ held' = held BY DEF alloc_skb
<1>4. FrameBytes(n) \in Nat /\ FrameBytes(n) > 0 BY <1>1, OrderFits
<1> HIDE DEF b
<1> QED BY <1>2, <1>3, <1>4, FreshStep

(* A buffer copied to another place takes references of its own.           *)
LEMMA CopyStep ==
  ASSUME SkbInv, NEW s \in Skbs, NEW t \in Skbs, NEW p \in Pages, skb_copy(s, t, p)
  PROVE SkbInv'
<1> DEFINE b == [skb[s] EXCEPT !.head = p, !.tail = skb[s].data + HeadLen(skb[s]),
                               !.len = HeadLen(skb[s]), !.dlen = 0, !.frags = <<>>]
<1>1. Live(s) /\ ~Live(t) /\ lcompat_skb_valid_bounds(skb[s]) /\ PageAlloc(p, FrameBytes(skb[s].end))
      /\ Becomes(t, b) /\ held' = held
  BY DEF skb_copy
<1>2. HeadLen(skb[s]) \in Nat BY <1>1, ValidParts
<1>5. skb[s] \in SkBuffs /\ skb[s].data + HeadLen(skb[s]) \in Nat /\ <<>> \in Seq(SkbFrags)
  BY <1>1, <1>2, BufferParts
<1>6. b \in SkBuffs BY <1>2, <1>5, Updated
<1>3. b \in SkBuffs /\ b.head = p /\ b.frags = <<>> BY <1>5, <1>6 DEF SkBuffs
<1>4. FrameBytes(skb[s].end) \in Nat /\ FrameBytes(skb[s].end) > 0 BY <1>1, BufferParts, OrderFits
<1> HIDE DEF b
<1> QED BY <1>1, <1>3, <1>4, FreshStep

(* The buffer takes the driver's reference to the page.                    *)
LEMMA BuildStep ==
  ASSUME SkbInv, NEW s \in Skbs, NEW p \in Pages, build_skb(s, p)
  PROVE SkbInv'
<1> DEFINE b == NewSkb(virt_to_head_page(p, 0), psize[p])
<1>0. /\ refs \in [Pages -> Nat] /\ psize \in [Pages -> Nat] /\ held \in [Pages -> Nat]
      /\ \A q \in Pages : refs[q] > 0 => psize[q] > 0
  BY DEF SkbInv, SkbTypeOK
<1>1. /\ skb[s] = None /\ held[p] > 0 /\ held' = [held EXCEPT ![p] = @ - 1] /\ Becomes(s, b)
      /\ refs' = refs /\ psize' = psize
  BY DEF build_skb, Live
<1>2. refs[p] > 0 /\ psize[p] > 0 BY <1>1, HeldPage
<1>3. virt_to_head_page(p, 0) = p BY <1>0, <1>2 DEF virt_to_head_page
<1>4. b \in SkBuffs /\ b.head = p /\ b.frags = <<>> BY <1>0, <1>3 DEF NewSkb, SkBuffs
<1>5. b # None BY <1>4, NoneAssumption
<1> HIDE DEF b
<1>6. \A q \in Pages : FragUse(b, q) = 0 /\ HeadUse(b, q) = IF q = p THEN 1 ELSE 0
  <2> TAKE q \in Pages
  <2>1. FragsOf(b, q) = {} BY <1>4 DEF FragsOf
  <2> QED BY <1>4, <1>5, <2>1, FS_EmptySet DEF FragUse, HeadUse
<1>7. \A q \in Pages : HeadUse(skb[s], q) = 0 /\ FragUse(skb[s], q) = 0 BY <1>1 DEF HeadUse, FragUse
<1>8. held' \in [Pages -> Nat] BY <1>0, <1>1
<1>9. Balanced(s, b) BY <1>0, <1>1, <1>6, <1>7 DEF Balanced, PageFcn
<1>10. Len(b.frags) <= MaxFrags BY <1>4, SkbAssumption
<1> QED BY <1>0, <1>1, <1>4, <1>8, <1>9, <1>10, BalancedStep

(* The buffer takes the driver's reference with a fragment.                *)
LEMMA AddFragStep ==
  ASSUME SkbInv, NEW s \in Skbs, NEW p \in Pages, NEW off \in Nat, NEW n \in Nat,
         skb_add_rx_frag(s, p, off, n)
  PROVE SkbInv'
<1> DEFINE fs == Append(skb[s].frags, Piece(p, off, n))
           b == [skb[s] EXCEPT !.frags = fs, !.len = @ + n, !.dlen = @ + n]
<1>0. /\ refs \in [Pages -> Nat] /\ psize \in [Pages -> Nat] /\ held \in [Pages -> Nat]
      /\ \A q \in Pages : refs[q] > 0 => psize[q] > 0
  BY DEF SkbInv, SkbTypeOK
<1>1. /\ Live(s) /\ held[p] > 0 /\ held' = [held EXCEPT ![p] = @ - 1] /\ Becomes(s, b)
      /\ refs' = refs /\ psize' = psize /\ Len(skb[s].frags) < MaxFrags
  BY DEF skb_add_rx_frag
<1>2. /\ skb[s] \in SkBuffs /\ skb[s].len \in Nat /\ skb[s].dlen \in Nat /\ skb[s].frags \in Seq(SkbFrags)
  BY <1>1, BufferParts
<1>3. Piece(p, off, n) \in SkbFrags BY DEF Piece, SkbFrags
<1>4. fs \in Seq(SkbFrags) /\ Len(fs) = Len(skb[s].frags) + 1 /\ Len(skb[s].frags) \in Nat
      /\ fs[Len(skb[s].frags) + 1] = Piece(p, off, n)
      /\ \A i \in 1 .. Len(skb[s].frags) : fs[i] = skb[s].frags[i]
  BY <1>2, <1>3
<1>5. b \in SkBuffs
  <2>1. skb[s].len + n \in Nat /\ skb[s].dlen + n \in Nat BY <1>2
  <2> HIDE DEF fs
  <2> QED BY <1>2, <1>4, <2>1, Updated
<1>6. b.head = skb[s].head /\ b.frags = fs BY <1>2 DEF SkBuffs
<1>7. b # None /\ skb[s] # None BY <1>1, <1>5, NoneAssumption DEF Live
<1> HIDE DEF b, fs
<1>8. \A q \in Pages : FragUse(b, q) = FragUse(skb[s], q) + IF q = p THEN 1 ELSE 0
  <2> TAKE q \in Pages
  <2> DEFINE I == FragsOf(skb[s], q)
             k == Len(skb[s].frags) + 1
  <2>1. IsFiniteSet(I) /\ Cardinality(I) \in Nat /\ DOMAIN skb[s].frags = 1 .. Len(skb[s].frags)
    BY <1>2, FragsFinite
  <2>2. k \notin I BY <2>1, <1>4 DEF FragsOf
  <2>3. DOMAIN fs = 1 .. k BY <1>4
  <2>4. FragsOf(b, q) = IF q = p THEN I \cup {k} ELSE I
    <3>1. fs[k].page = p BY <1>4 DEF Piece
    <3>2. \A i \in 1 .. k : i = k \/ i \in 1 .. Len(skb[s].frags) BY <1>4
    <3>3. 1 .. k = (1 .. Len(skb[s].frags)) \cup {k} BY <1>4
    <3> QED BY <1>4, <1>6, <2>1, <2>3, <3>1, <3>3 DEF FragsOf
  <2>5. Cardinality(I \cup {k}) = Cardinality(I) + 1 BY <2>1, <2>2, FS_AddElement
  <2> HIDE DEF I, k
  <2>6. FragUse(b, q) = Cardinality(FragsOf(b, q)) /\ FragUse(skb[s], q) = Cardinality(I)
    BY <1>7 DEF FragUse, I
  <2> QED BY <2>1, <2>4, <2>5, <2>6
<1>9. \A q \in Pages : HeadUse(b, q) = HeadUse(skb[s], q) BY <1>6, <1>7 DEF HeadUse
<1>10. \A q \in Pages : HeadUse(skb[s], q) \in Nat /\ FragUse(skb[s], q) \in Nat BY <1>2, UseTypes
<1>11. held' \in [Pages -> Nat] BY <1>0, <1>1
<1>12. Balanced(s, b)
  <2>1. PageFcn(refs') BY <1>0, <1>1 DEF PageFcn
  <2>2. ASSUME NEW q \in Pages
        PROVE /\ refs'[q] = refs[q] - held[q] + held'[q]
                   - HeadUse(skb[s], q) - FragUse(skb[s], q) + HeadUse(b, q) + FragUse(b, q)
              /\ refs'[q] > 0 => psize'[q] > 0
    <3> DEFINE hu == HeadUse(skb[s], q)  fu == FragUse(skb[s], q)  h == held[q]
               gu == HeadUse(b, q)  gf == FragUse(b, q)  k == held'[q]
    <3>1. refs[q] \in Nat /\ h \in Nat /\ hu \in Nat /\ fu \in Nat BY <1>0, <1>10
    <3>2. gu = hu /\ gf = fu + (IF q = p THEN 1 ELSE 0) /\ k = h - (IF q = p THEN 1 ELSE 0)
      BY <1>0, <1>1, <1>8, <1>9
    <3>3. refs'[q] = refs[q] /\ (refs'[q] > 0 => psize'[q] > 0) BY <1>0, <1>1
    <3> HIDE DEF hu, fu, h, gu, gf, k
    <3>4. refs[q] = refs[q] - h + k - hu - fu + gu + gf BY <3>1, <3>2
    <3> QED BY <3>3, <3>4 DEF hu, fu, h, gu, gf, k
  <2> QED BY <2>1, <2>2 DEF Balanced
<1>13. Len(b.frags) <= MaxFrags BY <1>1, <1>4, <1>6, SkbAssumption
<1> QED BY <1>0, <1>1, <1>5, <1>11, <1>12, <1>13, BalancedStep

(* Trimming puts the fragments if it cuts into the linear part: of the     *)
(* buffer before the step, whatever its lengths have become since.         *)
LEMMA TrimStep ==
  ASSUME SkbInv, NEW s \in Skbs, Live(s), NEW c \in SkBuffs, NEW n \in Nat,
         c.head = skb[s].head, c.frags = skb[s].frags,
         c.dlen <= c.len, n <= c.len,
         PutPages(IF n < HeadLen(c) THEN FragPages(skb[s]) ELSE <<>>),
         Becomes(s, Trimmed(c, n)), held' = held
  PROVE SkbInv'
<1> DEFINE b == Trimmed(c, n)
           pages == IF n < HeadLen(c) THEN FragPages(skb[s]) ELSE <<>>
<1>1. /\ c.head \in Pages /\ c.data \in Nat /\ c.len \in Nat /\ c.dlen \in Nat /\ c.frags \in Seq(SkbFrags)
  BY DEF SkBuffs
<1>2. HeadLen(c) = c.len - c.dlen /\ HeadLen(c) \in Nat BY <1>1 DEF HeadLen
<1>3. skb[s] \in SkBuffs /\ skb[s] # None /\ Len(skb[s].frags) <= MaxFrags BY BufferParts DEF Live
<1>4. /\ b \in SkBuffs /\ b.head = skb[s].head
      /\ b.frags = IF n < HeadLen(c) THEN <<>> ELSE skb[s].frags
  <2>1. c.data + n \in Nat /\ c.data + HeadLen(c) \in Nat /\ <<>> \in Seq(SkbFrags) BY <1>1, <1>2
  <2>2. CASE n < HeadLen(c)
    <3>1. b = [c EXCEPT !.frags = <<>>, !.dlen = 0, !.len = n, !.tail = c.data + n]
      BY <2>2 DEF Trimmed
    <3>2. [c EXCEPT !.frags = <<>>, !.dlen = 0, !.len = n, !.tail = c.data + n] \in SkBuffs
      BY <2>1, Updated, <1>1
    <3>3. b.head = c.head /\ b.frags = <<>> BY <3>1 DEF SkBuffs
    <3> QED BY <2>2, <3>1, <3>2, <3>3
  <2>3. CASE ~(n < HeadLen(c))
    <3>1. b = [c EXCEPT !.dlen = c.dlen - (c.len - n), !.len = n, !.tail = c.data + HeadLen(c)]
      BY <2>3 DEF Trimmed
    <3>2. c.dlen - (c.len - n) \in Nat BY <1>1, <1>2, <2>3
    <3>3. [c EXCEPT !.dlen = c.dlen - (c.len - n), !.len = n, !.tail = c.data + HeadLen(c)] \in SkBuffs
      BY <2>1, <3>2, Updated, <1>1
    <3>4. b.head = c.head /\ b.frags = c.frags BY <3>1 DEF SkBuffs
    <3> QED BY <2>3, <3>1, <3>3, <3>4
  <2> QED BY <2>2, <2>3
<1>5. b # None BY <1>4, NoneAssumption
<1>6. Becomes(s, b) /\ PutPages(pages) OBVIOUS
<1> HIDE DEF b
<1>7. \A q \in Pages : /\ HeadUse(b, q) = HeadUse(skb[s], q) /\ HeadUse(b, q) \in Nat
                       /\ FragUse(b, q) \in Nat /\ FragUse(skb[s], q) \in Nat
                       /\ Uses(pages, q) \in Nat
                       /\ FragUse(skb[s], q) = FragUse(b, q) + Uses(pages, q)
  <2> TAKE q \in Pages
  <2>1. HeadUse(b, q) = HeadUse(skb[s], q) BY <1>3, <1>4, <1>5 DEF HeadUse
  <2>2. HeadUse(b, q) \in Nat /\ FragUse(b, q) \in Nat /\ FragUse(skb[s], q) \in Nat
    BY <1>3, <1>4, UseTypes
  <2>3. Uses(FragPages(skb[s]), q) = FragUse(skb[s], q) /\ Uses(<<>>, q) = 0 BY <1>3, UsesOfAll
  <2>4. CASE n < HeadLen(c)
    <3>1. b.frags = <<>> BY <1>4, <2>4
    <3>2. FragsOf(b, q) = {} BY <3>1 DEF FragsOf
    <3> QED BY <1>5, <2>1, <2>2, <2>3, <2>4, <3>2, FS_EmptySet DEF FragUse
  <2>5. CASE ~(n < HeadLen(c))
    <3>1. b.frags = skb[s].frags BY <1>4, <2>5
    <3>2. FragUse(b, q) = FragUse(skb[s], q) BY <3>1, <1>3, <1>5 DEF FragUse, FragsOf
    <3> QED BY <2>1, <2>2, <2>3, <2>5, <3>2
  <2> QED BY <2>4, <2>5
<1> HIDE DEF pages
<1>8. /\ PageFcn(refs') /\ psize' \in [Pages -> Nat]
      /\ \A p \in Pages : refs'[p] = refs[p] - Uses(pages, p)
      /\ \A p \in Pages : refs'[p] > 0 => psize'[p] > 0
  BY <1>6, <1>7, PutEffect
<1>9. \A q \in Pages : refs[q] \in Nat /\ held[q] \in Nat BY DEF SkbInv, SkbTypeOK
<1>10. Balanced(s, b) BY <1>7, <1>8, <1>9, SMTT(30) DEF Balanced
<1>11. held' \in [Pages -> Nat] /\ Len(b.frags) <= MaxFrags
  BY <1>3, <1>4, SkbAssumption DEF SkbInv, SkbTypeOK
<1> QED BY <1>4, <1>6, <1>8, <1>10, <1>11, BalancedStep

(* skb_trim trims the buffer itself, skb_pad what skb_put made of it.      *)
LEMMA TrimSteps ==
  ASSUME NEW s \in Skbs, NEW n \in Nat, SkbInv, skb_trim(s, n) \/ skb_pad(s, n)
  PROVE SkbInv'
<1>1. CASE skb_trim(s, n)
  <2>1. /\ Live(s) /\ lcompat_skb_valid_bounds(skb[s]) /\ n <= skb[s].len
        /\ PutPages(IF n < HeadLen(skb[s]) THEN FragPages(skb[s]) ELSE <<>>)
        /\ Becomes(s, Trimmed(skb[s], n)) /\ held' = held
    BY <1>1 DEF skb_trim
  <2> QED BY <2>1, BufferParts, ValidParts, TrimStep
<1>2. CASE skb_pad(s, n)
  <2> DEFINE c == [skb[s] EXCEPT !.tail = @ + n, !.len = @ + n]
  <2>1. /\ Live(s) /\ lcompat_skb_valid_bounds(skb[s])
        /\ PutPages(IF skb[s].len < HeadLen(c) THEN FragPages(skb[s]) ELSE <<>>)
        /\ Becomes(s, Trimmed(c, skb[s].len)) /\ held' = held
    BY <1>2 DEF skb_pad
  <2>2. /\ skb[s] \in SkBuffs /\ skb[s].len \in Nat /\ skb[s].tail \in Nat
        /\ skb[s].dlen \in Nat /\ skb[s].dlen <= skb[s].len
        /\ skb[s].head \in Pages /\ skb[s].frags \in Seq(SkbFrags)
    BY <2>1, BufferParts, ValidParts
  <2>3. skb[s].tail + n \in Nat /\ skb[s].len + n \in Nat BY <2>2
  <2>4. c \in SkBuffs BY <2>2, <2>3, Updated
  <2>5. c.head = skb[s].head /\ c.frags = skb[s].frags /\ c.dlen = skb[s].dlen /\ c.len = skb[s].len + n
    BY <2>2 DEF SkBuffs
  <2> HIDE DEF c
  <2>6. c.dlen <= c.len /\ skb[s].len <= c.len BY <2>2, <2>5
  <2> QED BY <2>1, <2>2, <2>4, <2>5, <2>6, TrimStep
<1> QED BY <1>1, <1>2

(* A list of pages names what buffer s holds and buffer b does not.        *)
Released(s, b, pages) ==
    \A q \in Pages : /\ Uses(pages, q) = HeadUse(skb[s], q) + FragUse(skb[s], q) - FragUse(b, q)
                     /\ FragUse(b, q) <= FragUse(skb[s], q)

(* The linear part moves to page p, and the pages of a list are put: the   *)
(* head, and with it what the new buffer no longer holds.                  *)
LEMMA MoveStep ==
  ASSUME SkbInv, NEW s \in Skbs, Live(s), NEW b \in SkBuffs, NEW p \in Pages, NEW size \in Nat, size > 0,
         NEW pages, b.head = p, Len(b.frags) <= MaxFrags,
         Released(s, b, pages),
         AllocThenPut(p, size, pages), Becomes(s, b), held' = held
  PROVE SkbInv'
<1>1. b # None /\ skb[s] # None BY NoneAssumption DEF Live
<1>2. /\ \A q \in Pages : HeadUse(skb[s], q) \in Nat /\ FragUse(skb[s], q) \in Nat
      /\ \A q \in Pages : FragUse(b, q) \in Nat /\ HeadUse(b, q) = IF q = p THEN 1 ELSE 0
  <2>1. skb[s] \in SkBuffs BY BufferParts
  <2> QED BY <1>1, <2>1, UseTypes DEF HeadUse
<1>3. \A q \in Pages :
        /\ Uses(pages, q) = HeadUse(skb[s], q) + FragUse(skb[s], q) - FragUse(b, q)
        /\ Uses(pages, q) \in Nat
  BY <1>2 DEF Released
<1>4. /\ PageFcn(refs') /\ psize' \in [Pages -> Nat]
      /\ refs[p] = 0 /\ refs'[p] = 1
      /\ \A q \in Pages \ {p} : refs'[q] = refs[q] - Uses(pages, q)
      /\ \A q \in Pages : refs'[q] > 0 => psize'[q] > 0
  BY <1>3, AllocEffect
<1>5. HeadUse(skb[s], p) = 0 /\ FragUse(skb[s], p) = 0 BY <1>4, FreePage
<1>6. \A q \in Pages : refs[q] \in Nat /\ held[q] \in Nat BY DEF SkbInv, SkbTypeOK
<1>7. ASSUME NEW q \in Pages
      PROVE refs'[q] = refs[q] - held[q] + held'[q]
              - HeadUse(skb[s], q) - FragUse(skb[s], q) + HeadUse(b, q) + FragUse(b, q)
  <2> DEFINE hu == HeadUse(skb[s], q)  fu == FragUse(skb[s], q)  h == held[q]
             gu == HeadUse(b, q)  gf == FragUse(b, q)  u == Uses(pages, q)  r == refs[q]
  <2>3. /\ r \in Nat /\ h \in Nat /\ hu \in Nat /\ fu \in Nat /\ gf \in Nat /\ u \in Nat
        /\ u = hu + fu - gf /\ gu = IF q = p THEN 1 ELSE 0
    BY <1>2, <1>3, <1>6
  <2>4. held'[q] = h OBVIOUS
  <2>1. CASE q = p
    <3>1. refs'[q] = 1 /\ r = 0 /\ hu = 0 /\ fu = 0 BY <2>1, <1>4, <1>5
    <3> HIDE DEF hu, fu, h, gu, gf, u, r
    <3>2. 1 = r - h + h - hu - fu + gu + gf BY <2>1, <2>3, <3>1
    <3> QED BY <2>4, <3>1, <3>2 DEF hu, fu, h, gu, gf, u, r
  <2>2. CASE q # p
    <3>1. refs'[q] = r - u BY <2>2, <1>4
    <3> HIDE DEF hu, fu, h, gu, gf, u, r
    <3>2. r - u = r - h + h - hu - fu + gu + gf BY <2>2, <2>3
    <3> QED BY <2>4, <3>1, <3>2 DEF hu, fu, h, gu, gf, u, r
  <2> QED BY <2>1, <2>2
<1>8. Balanced(s, b) BY <1>4, <1>7 DEF Balanced
<1>9. held' \in [Pages -> Nat] BY DEF SkbInv, SkbTypeOK
<1> QED BY <1>4, <1>8, <1>9, BalancedStep

(* skb_cow_head puts the old head, skb_linearize the fragments with it.    *)
LEMMA CowStep ==
  ASSUME SkbInv, NEW s \in Skbs, NEW p \in Pages, NEW n \in Lengths, skb_cow_head(s, p, n)
  PROVE SkbInv'
<1> DEFINE end == n + HeadLen(skb[s]) + (skb[s].end - skb[s].tail)
           b == [skb[s] EXCEPT !.head = p, !.data = n, !.tail = n + HeadLen(skb[s]), !.end = end]
<1>1. /\ Live(s) /\ lcompat_skb_valid_bounds(skb[s])
      /\ AllocThenPut(p, FrameBytes(end), <<skb[s].head>>)
      /\ Becomes(s, b) /\ held' = held
  BY DEF skb_cow_head
<1>2. n \in Nat BY SkbAssumption DEF Lengths
<1>3. /\ skb[s] \in SkBuffs /\ skb[s].head \in Pages /\ skb[s].frags \in Seq(SkbFrags)
      /\ skb[s].tail \in Nat /\ skb[s].end \in Nat /\ Len(skb[s].frags) <= MaxFrags
      /\ HeadLen(skb[s]) \in Nat /\ skb[s].tail <= skb[s].end
  BY <1>1, BufferParts, ValidParts
<1>4. n + HeadLen(skb[s]) \in Nat /\ end \in Nat BY <1>2, <1>3
<1>5. FrameBytes(end) \in Nat /\ FrameBytes(end) > 0 BY <1>4, OrderFits
<1> HIDE DEF end
<1>6. b \in SkBuffs BY <1>2, <1>3, <1>4, Updated
<1>7. b.head = p /\ b.frags = skb[s].frags BY <1>3 DEF SkBuffs
<1> HIDE DEF b
<1>8. b # None /\ skb[s] # None BY <1>1, <1>6, NoneAssumption DEF Live
<1>9. \A q \in Pages : FragUse(b, q) = FragUse(skb[s], q) /\ FragUse(b, q) \in Nat
  BY <1>6, <1>7, <1>8, UseTypes DEF FragUse, FragsOf
<1>10. \A q \in Pages : Uses(<<skb[s].head>>, q) = HeadUse(skb[s], q)
  <2> TAKE q \in Pages
  <2>1. {i \in DOMAIN <<skb[s].head>> : <<skb[s].head>>[i] = q} = IF skb[s].head = q THEN {1} ELSE {}
    OBVIOUS
  <2> QED BY <1>8, <2>1, FS_Singleton, FS_EmptySet DEF Uses, HeadUse
<1>11. \A q \in Pages : HeadUse(skb[s], q) \in Nat BY <1>3, UseTypes
<1>12. Released(s, b, <<skb[s].head>>)
  BY <1>9, <1>10, <1>11 DEF Released
<1>14. Len(b.frags) <= MaxFrags BY <1>3, <1>7
<1> QED BY <1>1, <1>5, <1>6, <1>7, <1>12, <1>14, MoveStep

(* Linearizing a buffer moves its fragments into a new head.               *)
LEMMA LinearizeStep ==
  ASSUME SkbInv, NEW s \in Skbs, NEW p \in Pages, skb_linearize(s, p)
  PROVE SkbInv'
<1> DEFINE end == skb[s].data + skb[s].len
           b == [skb[s] EXCEPT !.head = p, !.tail = end, !.end = end, !.dlen = 0, !.frags = <<>>]
           pages == <<skb[s].head>> \o FragPages(skb[s])
<1>1. /\ Live(s) /\ AllocThenPut(p, FrameBytes(end), pages) /\ Becomes(s, b) /\ held' = held
  BY DEF skb_linearize, MovedOff
<1>2. /\ skb[s] \in SkBuffs /\ end \in Nat /\ <<>> \in Seq(SkbFrags) BY <1>1, BufferParts
<1>3. FrameBytes(end) \in Nat /\ FrameBytes(end) > 0 BY <1>2, OrderFits
<1> HIDE DEF end
<1>4. b \in SkBuffs BY <1>2, Updated
<1>5. b.head = p /\ b.frags = <<>> BY <1>2 DEF SkBuffs
<1> HIDE DEF b
<1>6. b # None BY <1>4, NoneAssumption
<1>7. \A q \in Pages : FragUse(b, q) = 0
  <2> TAKE q \in Pages
  <2>1. FragsOf(b, q) = {} BY <1>5 DEF FragsOf
  <2> QED BY <1>6, <2>1, FS_EmptySet DEF FragUse
<1>8. \A q \in Pages : /\ Uses(pages, q) = HeadUse(skb[s], q) + FragUse(skb[s], q)
                       /\ HeadUse(skb[s], q) \in Nat /\ FragUse(skb[s], q) \in Nat
  BY <1>2, UsesOfAll
<1> HIDE DEF pages
<1>9. Released(s, b, pages) BY <1>7, <1>8 DEF Released
<1>10. Len(b.frags) <= MaxFrags BY <1>5, SkbAssumption
<1> QED BY <1>1, <1>3, <1>4, <1>5, <1>9, <1>10, MoveStep

(* At first nobody holds a page; every step and every stutter keeps the    *)
(* counts.                                                                 *)
LEMMA SkbInitInv ==
  ASSUME SkbInit
  PROVE SkbInv
<1>1. SkbTypeOK BY DEF SkbInit, SkbTypeOK, Live
<1>2. \A p \in Pages : HeadsIn(skb, p) = {} /\ FragsIn(skb, p) = {} BY DEF SkbInit, HeadsIn, FragsIn
<1>3. \A p \in Pages : refs[p] = held[p] + Cardinality(HeadsIn(skb, p)) + Cardinality(FragsIn(skb, p))
  <2> TAKE p \in Pages
  <2>1. refs[p] = 0 /\ held[p] = 0 BY DEF SkbInit
  <2>2. Cardinality(HeadsIn(skb, p)) = 0 /\ Cardinality(FragsIn(skb, p)) = 0 BY <1>2, FS_EmptySet
  <2> QED BY <2>1, <2>2
<1>4. RefsExactlyHeld BY <1>3, RefsByUse
<1> QED BY <1>1, <1>4 DEF SkbInv

(* Every step of the buffers keeps the invariant.                          *)
LEMMA SkbStepInv ==
  ASSUME SkbInv, SkbNext
  PROVE SkbInv'
<1>0. Lengths \subseteq Nat /\ 0 .. MaxLen \subseteq Nat /\ 0 .. (MaxLen - 1) \subseteq Nat
  BY SkbAssumption DEF Lengths
<1>1. ASSUME NEW p \in Pages, PageStep(p) PROVE SkbInv'
  BY <1>1, PageSteps, CopyStep DEF PageStep
<1>2. ASSUME NEW s \in Skbs, kfree_skb(s) PROVE SkbInv'
  BY <1>2, FreeStep
<1>3. ASSUME NEW s \in Skbs, SkbStep(s) PROVE SkbInv'
  <2>1. ASSUME NEW p \in Pages, build_skb(s, p) PROVE SkbInv' BY <2>1, BuildStep
  <2>2. ASSUME NEW p \in Pages, skb_linearize(s, p) PROVE SkbInv' BY <2>2, LinearizeStep
  <2>3. ASSUME NEW p \in Pages, NEW n \in Lengths, skb_cow_head(s, p, n)
        PROVE SkbInv' BY <2>3, CowStep
  <2>4. ASSUME NEW p \in Pages, NEW n \in 0 .. MaxLen, alloc_skb(s, p, n)
        PROVE SkbInv' BY <2>4, AllocStep
  <2>5. ASSUME NEW p \in Pages, NEW off \in 0 .. (MaxLen - 1), NEW n \in Lengths, skb_add_rx_frag(s, p, off, n)
        PROVE SkbInv'
    <3> off \in Nat /\ n \in Nat BY <1>0
    <3> QED BY <2>5, AddFragStep
  <2>6. ASSUME NEW n \in Lengths, skb_put(s, n) \/ skb_push(s, n) \/ skb_pull(s, n) \/ skb_reserve(s, n)
        PROVE SkbInv'
    BY <2>6, LinearSteps
  <2>7. ASSUME NEW n \in Lengths, skb_pad(s, n) PROVE SkbInv'
    <3> n \in Nat BY <1>0
    <3> QED BY <2>7, TrimSteps
  <2>8. ASSUME NEW n \in 0 .. MaxLen, skb_trim(s, n) PROVE SkbInv'
    <3> n \in Nat BY <1>0
    <3> QED BY <2>8, TrimSteps
  <2>9. CASE skb_reset_tail_pointer(s)
    <3> 1 \in Lengths BY SkbAssumption DEF Lengths
    <3> QED BY <2>9, LinearSteps
  <2> QED BY <1>3, <2>1, <2>2, <2>3, <2>4, <2>5, <2>6, <2>7, <2>8, <2>9 DEF SkbStep
<1> QED BY <1>1, <1>2, <1>3 DEF SkbNext

(* So does a step elsewhere.                                               *)
LEMMA SkbStutterInv ==
  ASSUME SkbInv, UNCHANGED skbVars
  PROVE SkbInv'
BY DEF SkbInv, SkbTypeOK, RefsExactlyHeld, Live, skbVars

(* The types and the counts, always.                                       *)
LEMMA SkbInvariant == SkbSpec => []SkbInv
<1>1. SkbInit => SkbInv BY SkbInitInv
<1>2. SkbInv /\ [SkbNext]_skbVars => SkbInv' BY SkbStepInv, SkbStutterInv
<1> QED BY <1>1, <1>2, PTL DEF SkbSpec

(* SkbPages!RefsExactlyHeld: whatever a driver calls, lcompat_refcnt of a  *)
(* page is the number of buffers, fragments and drivers that hold it, so   *)
(* put_page frees it with its last holder and never before.                *)
THEOREM PagesRefsExactlyHeld == SkbSpec => []RefsExactlyHeld
<1>1. SkbInv => RefsExactlyHeld BY DEF SkbInv
<1> QED BY <1>1, SkbInvariant, PTL

(***************************************************************************)
(* What a walk meets.                                                      *)
(***************************************************************************)

(* Walk, of any first buffer and any links.                                *)
WalkFrom(first, next) ==
    FoldLeft(LAMBDA w, i : IF w.at = Nil THEN w
                           ELSE [at |-> next[w.at], met |-> Append(w.met, w.at)],
             [at |-> first, met |-> <<>>],
             [i \in 1 .. Cardinality(Buffers) + 1 |-> i]).met

(* The states of the loop, and one turn of it.                             *)
Steps == [at : Buffers \cup {Nil}, met : Seq(Buffers)]
StepFrom(next, w) ==
    IF w.at = Nil THEN w ELSE [at |-> next[w.at], met |-> Append(w.met, w.at)]

(* The loop one turn after the other.                                      *)
LEMMA WalkFold ==
  ASSUME NEW first \in Buffers \cup {Nil}, NEW next \in [Buffers -> Buffers \cup {Nil}]
  PROVE  \E acc \in [0 .. Cardinality(Buffers) + 1 -> Steps] :
           /\ acc[0] = [at |-> first, met |-> <<>>]
           /\ \A k \in 1 .. Cardinality(Buffers) + 1 : acc[k] = StepFrom(next, acc[k - 1])
           /\ WalkFrom(first, next) = acc[Cardinality(Buffers) + 1].met
<1> DEFINE n == Cardinality(Buffers) + 1
           base == [at |-> first, met |-> <<>>]
           step == [i \in 1 .. n |-> [w \in Steps |-> StepFrom(next, w)]]
           sq == [i \in 1 .. n |-> i]
           Eqn(g) == g = [s \in SUBSET (1 .. n) |-> IF s = {} THEN base
                                                    ELSE StepFrom(next, g[s \ {Max(s)}])]
           iter == CHOOSE g : Eqn(g)
<1>1. n \in Nat BY FS_CardinalityType, QueueAssumption
<1>2. base \in Steps BY DEF Steps
<1>3. \A w \in Steps : StepFrom(next, w) \in Steps
  BY QueueAssumption DEF Steps, StepFrom
<1>4. step \in [1 .. n -> [Steps -> Steps]] BY <1>3
<1>5. PICK g \in [SUBSET (1 .. n) -> Steps] : FoldsSets(g, n, base, step)
  <2> HIDE DEF n, base
  <2> HIDE DEF step
  <2> QED BY <1>1, <1>2, <1>4, FoldExists
<1>6. \A s \in SUBSET (1 .. n) :
        s # {} => step[Max(s)][g[s \ {Max(s)}]] = StepFrom(next, g[s \ {Max(s)}])
  <2> SUFFICES ASSUME NEW s \in SUBSET (1 .. n), s # {}
               PROVE step[Max(s)][g[s \ {Max(s)}]] = StepFrom(next, g[s \ {Max(s)}])
    OBVIOUS
  <2>1. Max(s) \in 1 .. n
    <3> HIDE DEF n
    <3> QED BY <1>1, MaxOf
  <2>2. g[s \ {Max(s)}] \in Steps BY <1>5
  <2> QED BY <2>1, <2>2
<1>7. Eqn(g) BY <1>5, <1>6 DEF FoldsSets
<1>8. Eqn(iter) BY <1>7
<1>10. DOMAIN sq = 1 .. n OBVIOUS
<1>11. WalkFrom(first, next) = iter[1 .. n].met
  BY <1>10 DEF WalkFrom, FoldLeft, MapThenFoldSet, StepFrom
<1>12. (1 .. n) \in SUBSET (1 .. n) /\ {} \in SUBSET (1 .. n) OBVIOUS
<1>13. iter[{}] = base BY <1>8, <1>12
<1>14. ASSUME NEW s \in SUBSET (1 .. n), s # {}, iter[s \ {Max(s)}] \in Steps
       PROVE iter[s] = step[Max(s)][iter[s \ {Max(s)}]]
  <2>1. Max(s) \in 1 .. n
    <3> HIDE DEF n
    <3> QED BY <1>1, <1>14, MaxOf
  <2>2. iter[s] = StepFrom(next, iter[s \ {Max(s)}]) BY <1>8, <1>14, <2>1
  <2> QED BY <2>1, <2>2, <1>14
<1>20. FoldsTyped(iter, n, Steps, base, step)
  <2> HIDE DEF n, base, step, iter
  <2> QED BY <1>13, <1>14 DEF FoldsTyped
<1>15. PICK acc \in [0 .. n -> Steps] :
          Accumulates(acc, n, base, step) /\ acc[n] = iter[1 .. n]
  <2> HIDE DEF n, base, step, iter
  <2> QED BY <1>1, <1>2, <1>4, <1>13, <1>20, FoldSteps, SMTT(30)
<1>17. ASSUME NEW k \in 1 .. n PROVE acc[k] = StepFrom(next, acc[k - 1])
  <2> k - 1 \in 0 .. n BY <1>1
  <2> acc[k - 1] \in Steps BY <1>15 DEF Accumulates
  <2> QED BY <1>15 DEF Accumulates
<1> QED BY <1>11, <1>15, <1>17 DEF Accumulates

(* A list of buffers linked from its first to its last, which ends there.  *)
Chained(s, first, last, next) ==
    IF s = <<>> THEN first = Nil /\ last = Nil
    ELSE /\ first = s[1] /\ last = s[Len(s)] /\ next[s[Len(s)]] = Nil
         /\ \A i \in 1 .. Len(s) - 1 : next[s[i]] = s[i + 1]

(* No buffer twice.                                                        *)
Distinct(s) == \A i, j \in 1 .. Len(s) : s[i] = s[j] => i = j

(* Distinct buffers are not more than all of them.                         *)
LEMMA DistinctFit ==
  ASSUME NEW s \in Seq(Buffers), Distinct(s)
  PROVE  Len(s) <= Cardinality(Buffers)
<1>1. IsFiniteSet(Buffers) BY QueueAssumption
<1>0. Len(s) \in Nat /\ Len(s) \in Int /\ 1 \in Int OBVIOUS
<1>2. IsFiniteSet(1 .. Len(s)) /\ Cardinality(1 .. Len(s)) = Len(s)
  BY <1>0, FS_Interval
<1>3. s \in Injection(1 .. Len(s), Buffers) BY DEF Distinct, Injection, IsInjective
<1>5. Cardinality(1 .. Len(s)) <= Cardinality(Buffers) BY <1>1, <1>3, FS_Injection
<1> QED BY <1>2, <1>5

(* A walk along a chain meets the chain.                                   *)
LEMMA WalkOfChain ==
  ASSUME NEW s \in Seq(Buffers), NEW first \in Buffers \cup {Nil}, NEW last,
         NEW next \in [Buffers -> Buffers \cup {Nil}],
         Distinct(s), Chained(s, first, last, next)
  PROVE  WalkFrom(first, next) = s
<1> DEFINE n == Cardinality(Buffers) + 1
           m == Len(s)
           At(k) == IF k < m THEN s[k + 1] ELSE Nil
<1>1. n \in Nat /\ m \in Nat /\ m < n /\ \A i \in 1 .. m : s[i] \in Buffers
  BY DistinctFit, FS_CardinalityType, QueueAssumption
<1>2. PICK acc \in [0 .. n -> Steps] :
           /\ acc[0] = [at |-> first, met |-> <<>>]
           /\ \A k \in 1 .. n : acc[k] = StepFrom(next, acc[k - 1])
           /\ WalkFrom(first, next) = acc[n].met
  BY WalkFold
<1> HIDE DEF n
<1>3. \A k \in 0 .. n : acc[k].met \in Seq(Buffers) BY <1>2 DEF Steps
<1> DEFINE Good(k) == k <= n => /\ acc[k].at = At(k)
                                /\ Len(acc[k].met) = IF k < m THEN k ELSE m
                                /\ \A i \in 1 .. Len(acc[k].met) : acc[k].met[i] = s[i]
           T == {k \in Nat : Good(k)}
<1>4. Good(0)
  <2>1. first = IF m = 0 THEN Nil ELSE s[1] BY DEF Chained
  <2> QED BY <1>1, <1>2, <2>1
<1>5. ASSUME NEW k \in Nat, Good(k) PROVE Good(k + 1)
  <2> SUFFICES ASSUME k + 1 <= n
               PROVE /\ acc[k + 1].at = At(k + 1)
                     /\ Len(acc[k + 1].met) = IF k + 1 < m THEN k + 1 ELSE m
                     /\ \A i \in 1 .. Len(acc[k + 1].met) : acc[k + 1].met[i] = s[i]
    OBVIOUS
  <2>1. k <= n /\ k + 1 \in 1 .. n /\ (k + 1) - 1 = k /\ k \in 0 .. n BY <1>1
  <2>2. acc[k + 1] = StepFrom(next, acc[k]) BY <1>2, <2>1
  <2>3. /\ acc[k].at = At(k) /\ Len(acc[k].met) = IF k < m THEN k ELSE m
        /\ \A i \in 1 .. Len(acc[k].met) : acc[k].met[i] = s[i]
        /\ acc[k].met \in Seq(Buffers)
    BY <1>3, <1>5, <2>1
  <2>4. CASE k >= m
    <3>1. acc[k].at = Nil BY <2>3, <2>4, <1>1
    <3>2. acc[k + 1] = acc[k] BY <2>2, <3>1 DEF StepFrom
    <3> QED BY <1>1, <2>3, <2>4, <3>1, <3>2
  <2>5. CASE k < m
    <3>1. k + 1 \in 1 .. m /\ s[k + 1] \in Buffers BY <1>1, <2>5
    <3>2. acc[k].at = s[k + 1] /\ s[k + 1] # Nil BY <2>3, <2>5, <3>1, QueueAssumption
    <3>3. acc[k + 1] = [at |-> next[s[k + 1]], met |-> Append(acc[k].met, s[k + 1])]
      BY <2>2, <3>2 DEF StepFrom
    <3>4. next[s[k + 1]] = At(k + 1)
      <4>1. s # <<>> BY <3>1
      <4>2. CASE k + 1 = m BY <4>1, <4>2, <1>1 DEF Chained
      <4>3. CASE k + 1 < m
        <5>1. k + 1 \in 1 .. Len(s) - 1 BY <1>1, <4>3
        <5> QED BY <4>1, <4>3, <5>1 DEF Chained
      <4> QED BY <4>2, <4>3, <3>1, <1>1
    <3>5. Len(acc[k].met) = k BY <2>3, <2>5
    <3>6. Len(acc[k + 1].met) = k + 1 BY <2>3, <3>3, <3>5
    <3>7. \A i \in 1 .. k + 1 : acc[k + 1].met[i] = s[i] BY <2>3, <3>3, <3>5
    <3> HIDE DEF At
    <3>8. k + 1 < m \/ k + 1 = m BY <3>1, <1>1
    <3> QED BY <3>3, <3>4, <3>6, <3>7, <3>8
  <2> QED BY <2>4, <2>5, <1>1
<1>6. T = Nat
  <2>1. T \in SUBSET Nat OBVIOUS
  <2>2. 0 \in T BY <1>4
  <2>3. \A k \in T : k + 1 \in T BY <1>5
  <2> HIDE DEF T
  <2> QED BY <2>1, <2>2, <2>3, SetInd
<1>7. Good(n) BY <1>1, <1>6
<1>8. n \in 0 .. n BY <1>1
<1>9. Len(acc[n].met) = m /\ \A i \in 1 .. m : acc[n].met[i] = s[i] BY <1>1, <1>7
<1>10. acc[n].met = s BY <1>3, <1>8, <1>9
<1> QED BY <1>2, <1>10

(***************************************************************************)
(* The queues and the lists of their users.                                *)
(***************************************************************************)
Unshared(l) ==
    \A g, h \in Heads : \A i \in 1 .. Len(l[g]), j \in 1 .. Len(l[h]) :
        l[g][i] = l[h][j] => g = h /\ i = j

(* The heads and links stand for the lists l, which share no buffer.       *)
Represents(l, first, last, counted, next) ==
    /\ l \in [Heads -> Seq(Buffers)]
    /\ first \in [Heads -> Buffers \cup {Nil}] /\ last \in [Heads -> Buffers \cup {Nil}]
    /\ next \in [Buffers -> Buffers \cup {Nil}]
    /\ counted = [h \in Heads |-> Len(l[h])]
    /\ \A h \in Heads : Chained(l[h], first[h], last[h], next)
    /\ Unshared(l)

(* The lists of this state.                                                *)
Walks == [h \in Heads |-> Walk(h)]
QueueInv == Represents(Walks, head, tail, qlen, link)

(* Heads and links stand for one family of lists only: what the walks      *)
(* meet.                                                                   *)
LEMMA WalksRepresented ==
  ASSUME NEW l, NEW first, NEW last, NEW counted, NEW next,
         Represents(l, first, last, counted, next)
  PROVE  l = [h \in Heads |-> WalkFrom(first[h], next)]
<1>1. ASSUME NEW h \in Heads PROVE WalkFrom(first[h], next) = l[h]
  <2>1. l[h] \in Seq(Buffers) /\ first[h] \in Buffers \cup {Nil} /\ last[h] \in Buffers \cup {Nil}
        /\ next \in [Buffers -> Buffers \cup {Nil}] /\ Chained(l[h], first[h], last[h], next)
    BY DEF Represents
  <2>2. Distinct(l[h]) BY DEF Distinct, Represents, Unshared
  <2> DEFINE s == l[h]  a == first[h]  z == last[h]
  <2>3. /\ s \in Seq(Buffers) /\ a \in Buffers \cup {Nil} /\ next \in [Buffers -> Buffers \cup {Nil}]
        /\ Distinct(s) /\ Chained(s, a, z, next)
    BY <2>1, <2>2
  <2> HIDE DEF s, a, z
  <2>4. WalkFrom(a, next) = s BY <2>3, WalkOfChain
  <2> QED BY <2>4 DEF s, a
<1>2. l = [h \in Heads |-> l[h]] BY DEF Represents
<1> QED BY <1>1, <1>2

(* The lists of the next state are those its heads and links stand for.    *)
LEMMA WalksNext ==
  ASSUME NEW l, Represents(l, head', tail', qlen', link')
  PROVE  QueueInv' /\ Walks' = l
<1>1. l = [h \in Heads |-> WalkFrom(head'[h], link')] BY WalksRepresented
<1>3. \A h : Walk(h)' = WalkFrom(head'[h], link')
  BY DEF Walk, WalkFrom, FoldLeft, MapThenFoldSet
<1>2. Walks' = [h \in Heads |-> WalkFrom(head'[h], link')] BY <1>3 DEF Walks
<1> QED BY <1>1, <1>2 DEF QueueInv

(* Buffers of one queue or of two.                                         *)
LEMMA Parts ==
  ASSUME QueueInv, NEW h \in Heads
  PROVE  /\ Walk(h) \in Seq(Buffers) /\ Len(Walk(h)) \in Nat /\ qlen[h] = Len(Walk(h))
         /\ \A i \in 1 .. Len(Walk(h)) : Walk(h)[i] \in Buffers /\ Walk(h)[i] # Nil
         /\ Chained(Walk(h), head[h], tail[h], link)
         /\ Walks[h] = Walk(h)
         /\ head \in [Heads -> Buffers \cup {Nil}] /\ tail \in [Heads -> Buffers \cup {Nil}]
         /\ link \in [Buffers -> Buffers \cup {Nil}] /\ qlen \in [Heads -> Nat]
<1>1. Walks[h] = Walk(h) BY DEF Walks
<1>2. \A g \in Heads : Len(Walks[g]) \in Nat BY DEF QueueInv, Represents
<1> QED BY <1>1, <1>2, QueueAssumption DEF QueueInv, Represents

(* A chain none of whose buffers is linked anew stays one.                 *)
LEMMA ChainKept ==
  ASSUME NEW s \in Seq(Buffers), NEW first, NEW last, NEW next, NEW next2,
         Chained(s, first, last, next), \A i \in 1 .. Len(s) : next2[s[i]] = next[s[i]]
  PROVE  Chained(s, first, last, next2)
<1>1. CASE s = <<>> BY <1>1 DEF Chained
<1>2. CASE s # <<>>
  <2>1. Len(s) \in 1 .. Len(s) BY <1>2
  <2>2. \A i \in 1 .. Len(s) - 1 : i \in 1 .. Len(s) OBVIOUS
  <2> QED BY <1>2, <2>1, <2>2 DEF Chained
<1> QED BY <1>1, <1>2

(* A step that changes the list of one queue: the others are as they were. *)
LEMMA OneQueueStep ==
  ASSUME QueueInv, NEW h \in Heads, NEW s \in Seq(Buffers),
         NEW first \in Buffers \cup {Nil}, NEW last \in Buffers \cup {Nil},
         head' = [head EXCEPT ![h] = first], tail' = [tail EXCEPT ![h] = last],
         qlen' = [qlen EXCEPT ![h] = Len(s)], link' \in [Buffers -> Buffers \cup {Nil}],
         Chained(s, first, last, link'), Distinct(s),
         \A g \in Heads \ {h} : \A i \in 1 .. Len(Walk(g)) :
            /\ link'[Walk(g)[i]] = link[Walk(g)[i]]
            /\ \A j \in 1 .. Len(s) : Walk(g)[i] # s[j]
  PROVE  QueueInv' /\ Walks' = [Walks EXCEPT ![h] = s]
<1> DEFINE l == [Walks EXCEPT ![h] = s]
<1>1. /\ Walks \in [Heads -> Seq(Buffers)] /\ Unshared(Walks)
      /\ head \in [Heads -> Buffers \cup {Nil}] /\ tail \in [Heads -> Buffers \cup {Nil}]
      /\ qlen = [g \in Heads |-> Len(Walks[g])]
  BY DEF QueueInv, Represents
<1>2. l \in [Heads -> Seq(Buffers)] /\ l[h] = s /\ \A g \in Heads \ {h} : l[g] = Walk(g) /\ Walks[g] = Walk(g)
  BY <1>1 DEF Walks
<1> HIDE DEF l
<1>3. ASSUME NEW g \in Heads PROVE Chained(l[g], head'[g], tail'[g], link')
  <2>1. CASE g = h BY <2>1, <1>1, <1>2
  <2>2. CASE g # h
    <3>1. head'[g] = head[g] /\ tail'[g] = tail[g] /\ l[g] = Walk(g) BY <2>2, <1>1, <1>2
    <3> QED BY <2>2, <3>1, Parts, ChainKept, SMTT(30)
  <2> QED BY <2>1, <2>2
<1>4. qlen' = [g \in Heads |-> Len(l[g])]
  <2>1. \A g \in Heads : qlen'[g] = Len(l[g]) BY <1>1, <1>2
  <2>2. qlen' = [g \in Heads |-> qlen'[g]] BY <1>1
  <2> QED BY <2>1, <2>2
<1>5. Unshared(l)
  <2> SUFFICES ASSUME NEW f \in Heads, NEW g \in Heads, NEW i \in 1 .. Len(l[f]), NEW j \in 1 .. Len(l[g]),
                      l[f][i] = l[g][j]
               PROVE  f = g /\ i = j
    BY DEF Unshared
  <2>1. CASE f = h /\ g = h BY <2>1, <1>2 DEF Distinct
  <2>2. CASE f # h /\ g # h BY <2>2, <1>1, <1>2 DEF Unshared
  <2>3. CASE f = h /\ g # h BY <2>3, <1>2
  <2>4. CASE f # h /\ g = h BY <2>4, <1>2
  <2> QED BY <2>1, <2>2, <2>3, <2>4
<1>6. Represents(l, head', tail', qlen', link') BY <1>1, <1>2, <1>3, <1>4, <1>5 DEF Represents
<1> QED BY <1>6, WalksNext DEF l

(* Which queue a buffer is in, and where.                                  *)
LEMMA Elsewhere ==
  ASSUME QueueInv, NEW h \in Heads, NEW i \in 1 .. Len(Walk(h)),
         NEW g \in Heads, NEW j \in 1 .. Len(Walk(g)), Walk(h)[i] = Walk(g)[j]
  PROVE  h = g /\ i = j
<1>1. Walks[h] = Walk(h) /\ Walks[g] = Walk(g) BY DEF Walks
<1> QED BY <1>1 DEF QueueInv, Represents, Unshared

(* A walk meets no buffer twice.                                           *)
LEMMA WalkDistinct ==
  ASSUME QueueInv, NEW h \in Heads
  PROVE  Distinct(Walk(h))
BY Elsewhere DEF Distinct

(* The buffers of a queue by their places.                                 *)
LEMMA Elements ==
  ASSUME QueueInv, NEW h \in Heads
  PROVE  \A b : b \in ToSet(Walk(h)) <=> \E i \in 1 .. Len(Walk(h)) : b = Walk(h)[i]
BY Parts DEF ToSet

(* skb_queue_tail.                                                         *)
LEMMA AppendStep ==
  ASSUME QueueInv, NEW h \in Heads, NEW b \in Buffers, skb_queue_tail(h, b)
  PROVE  QueueInv' /\ List!AddTail(h, b)
<1> DEFINE s == Walk(h)
           t == Append(s, b)
           n == Len(s)
<1>1. /\ s \in Seq(Buffers) /\ n \in Nat /\ qlen[h] = n
      /\ Chained(s, head[h], tail[h], link) /\ Walks[h] = s
      /\ head \in [Heads -> Buffers \cup {Nil}] /\ tail \in [Heads -> Buffers \cup {Nil}]
      /\ link \in [Buffers -> Buffers \cup {Nil}] /\ qlen \in [Heads -> Nat]
      /\ \A i \in 1 .. n : s[i] \in Buffers /\ s[i] # Nil
  BY Parts
<1>2. \A g \in Heads : \A i \in 1 .. Len(Walk(g)) : Walk(g)[i] # b
  BY Elements DEF skb_queue_tail, Unqueued
<1>3. /\ t \in Seq(Buffers) /\ Len(t) = n + 1 /\ t[n + 1] = b /\ \A i \in 1 .. n : t[i] = s[i]
      /\ t # <<>>
  BY <1>1
<1>4. Distinct(s) BY WalkDistinct
<1>5. b # Nil BY QueueAssumption
<1>6. n # 0 => s # <<>> /\ tail[h] = s[n] /\ head[h] = s[1] /\ link[s[n]] = Nil
             /\ \A i \in 1 .. n - 1 : link[s[i]] = s[i + 1]
  BY <1>1 DEF Chained
<1>7. n = 0 => head[h] = Nil /\ tail[h] = Nil BY <1>1 DEF Chained
<1>8. n # 0 => n \in 1 .. n /\ 1 \in 1 .. n BY <1>1
<1>9. link' = IF n = 0 THEN [link EXCEPT ![b] = Nil] ELSE [link EXCEPT ![b] = Nil, ![s[n]] = b]
  BY <1>1, <1>6, <1>7, <1>8 DEF skb_queue_tail
<1>10. head' = [head EXCEPT ![h] = IF n = 0 THEN b ELSE s[1]]
  BY <1>1, <1>6, <1>7, <1>8 DEF skb_queue_tail
<1>11. tail' = [tail EXCEPT ![h] = b] /\ qlen' = [qlen EXCEPT ![h] = Len(t)]
  BY <1>1, <1>3 DEF skb_queue_tail
<1>12. link' \in [Buffers -> Buffers \cup {Nil}] BY <1>1, <1>9
<1>13. link'[b] = Nil
  BY <1>1, <1>2, <1>8, <1>9
<1>14. \A c \in Buffers : c # b /\ (n = 0 \/ c # s[n]) => link'[c] = link[c] BY <1>1, <1>9
<1>15. n # 0 => link'[s[n]] = b BY <1>1, <1>8, <1>9
<1> HIDE DEF s, t, n
<1>16. Chained(t, IF n = 0 THEN b ELSE s[1], b, link')
  <2>1. t[1] = IF n = 0 THEN b ELSE s[1] BY <1>1, <1>3, <1>8
  <2>2. ASSUME NEW i \in 1 .. n PROVE link'[t[i]] = t[i + 1]
    <3>1. CASE i = n BY <3>1, <1>3, <1>15
    <3>2. CASE i # n
      <4>1. i \in 1 .. n - 1 /\ n # 0 /\ n \in 1 .. n /\ i + 1 \in 1 .. n BY <1>1, <3>2
      <4>2. s[i] # s[n] /\ s[i] # b BY <4>1, <3>2, <1>4, <1>2 DEF Distinct, s, n
      <4>3. link'[s[i]] = s[i + 1] BY <4>1, <4>2, <1>1, <1>6, <1>14
      <4> QED BY <4>1, <4>3, <1>3
    <3> QED BY <3>1, <3>2
  <2>3. Len(t) - 1 = n BY <1>1, <1>3
  <2> QED BY <1>3, <1>13, <2>1, <2>2, <2>3 DEF Chained
<1>17. Distinct(t)
  <2> SUFFICES ASSUME NEW i \in 1 .. n + 1, NEW j \in 1 .. n + 1, t[i] = t[j] PROVE i = j
    BY <1>3 DEF Distinct
  <2>1. \A k \in 1 .. n + 1 : k = n + 1 \/ k \in 1 .. n BY <1>1
  <2>2. \A k \in 1 .. n : t[k] # b BY <1>2, <1>3 DEF s, n
  <2> QED BY <2>1, <2>2, <1>3, <1>4 DEF Distinct, n
<1>18. ASSUME NEW g \in Heads \ {h}, NEW i \in 1 .. Len(Walk(g))
       PROVE /\ link'[Walk(g)[i]] = link[Walk(g)[i]]
             /\ \A j \in 1 .. Len(t) : Walk(g)[i] # t[j]
  <2>1. Walk(g)[i] \in Buffers /\ Walk(g)[i] # b BY <1>2, Parts
  <2>2. \A j \in 1 .. n : Walk(g)[i] # s[j] BY Elsewhere DEF s, n
  <2>3. link'[Walk(g)[i]] = link[Walk(g)[i]] BY <1>8, <1>14, <2>1, <2>2
  <2>4. \A k \in 1 .. n + 1 : k = n + 1 \/ k \in 1 .. n BY <1>1
  <2> QED BY <1>3, <2>1, <2>2, <2>3, <2>4
<1>19. (IF n = 0 THEN b ELSE s[1]) \in Buffers \cup {Nil} BY <1>1, <1>8
<1>20. QueueInv' /\ Walks' = [Walks EXCEPT ![h] = t]
  BY <1>3, <1>10, <1>11, <1>12, <1>16, <1>17, <1>18, <1>19, OneQueueStep
<1>21. qlen' = [g \in Heads |-> Len(Walks'[g])] BY <1>20 DEF QueueInv, Represents
<1>22. List!Free(b) BY DEF List!Free, List!ToSet, ToSet, skb_queue_tail, Unqueued
<1> QED BY <1>20, <1>21, <1>22 DEF List!AddTail, List!Becomes, Walks, t, s

(* What OneQueueStep leaves to show of the abstract lists: all the lists   *)
(* and their lengths follow from the one that changed.                     *)
LEMMA ListsBecome ==
  ASSUME QueueInv', NEW h \in Heads, NEW s, Walks' = [Walks EXCEPT ![h] = s]
  PROVE  List!Becomes([Walks EXCEPT ![h] = s])
<1>1. qlen' = [g \in Heads |-> Len(Walks'[g])] BY DEF QueueInv, Represents
<1> QED BY <1>1 DEF List!Becomes, Walks

(* skb_queue_head.                                                         *)
LEMMA PrependStep ==
  ASSUME QueueInv, NEW h \in Heads, NEW b \in Buffers, skb_queue_head(h, b)
  PROVE  QueueInv' /\ List!AddHead(h, b)
<1> DEFINE s == Walk(h)
           t == <<b>> \o s
           n == Len(s)
           z == IF n = 0 THEN b ELSE s[n]
<1>1. /\ s \in Seq(Buffers) /\ n \in Nat /\ qlen[h] = n
      /\ Chained(s, head[h], tail[h], link) /\ Walks[h] = s
      /\ head \in [Heads -> Buffers \cup {Nil}] /\ tail \in [Heads -> Buffers \cup {Nil}]
      /\ link \in [Buffers -> Buffers \cup {Nil}] /\ qlen \in [Heads -> Nat]
      /\ \A i \in 1 .. n : s[i] \in Buffers /\ s[i] # Nil
  BY Parts
<1>2. \A g \in Heads : \A i \in 1 .. Len(Walk(g)) : Walk(g)[i] # b
  BY Elements DEF skb_queue_head, Unqueued
<1>3. /\ t \in Seq(Buffers) /\ Len(t) = n + 1 /\ t[1] = b /\ \A i \in 1 .. n : t[i + 1] = s[i]
      /\ t # <<>>
  BY <1>1
<1>4. Distinct(s) BY WalkDistinct
<1>5. n # 0 => s # <<>> /\ tail[h] = s[n] /\ head[h] = s[1] /\ link[s[n]] = Nil
             /\ \A i \in 1 .. n - 1 : link[s[i]] = s[i + 1]
  BY <1>1 DEF Chained
<1>6. n = 0 => head[h] = Nil /\ tail[h] = Nil BY <1>1 DEF Chained
<1>7. n # 0 => n \in 1 .. n /\ 1 \in 1 .. n BY <1>1
<1>8. /\ link' = [link EXCEPT ![b] = head[h]] /\ head' = [head EXCEPT ![h] = b]
      /\ tail' = [tail EXCEPT ![h] = z] /\ qlen' = [qlen EXCEPT ![h] = Len(t)]
  BY <1>1, <1>3, <1>5, <1>6, <1>7 DEF skb_queue_head
<1>9. z \in Buffers BY <1>1, <1>7
<1>10. link' \in [Buffers -> Buffers \cup {Nil}] /\ link'[b] = head[h]
       /\ \A c \in Buffers : c # b => link'[c] = link[c]
  BY <1>1, <1>8
<1> HIDE DEF s, t, n, z
<1>11. Chained(t, b, z, link')
  <2>1. t[Len(t)] = z
    <3>1. CASE n = 0 BY <3>1, <1>3 DEF z
    <3>2. CASE n # 0 BY <3>2, <1>3, <1>7 DEF z
    <3> QED BY <3>1, <3>2
  <2>2. link'[z] = Nil
    <3>1. CASE n = 0 BY <3>1, <1>6, <1>10 DEF z
    <3>2. CASE n # 0
      <4>1. z = s[n] /\ n \in 1 .. n /\ s[n] # b /\ s[n] \in Buffers
        BY <3>2, <1>1, <1>2, <1>7 DEF z, s, n
      <4> QED BY <4>1, <3>2, <1>5, <1>10
    <3> QED BY <3>1, <3>2
  <2>3. ASSUME NEW i \in 1 .. n PROVE link'[t[i]] = t[i + 1]
    <3>1. CASE i = 1 BY <3>1, <1>3, <1>5, <1>10
    <3>2. CASE i # 1
      <4>1. i - 1 \in 1 .. n - 1 /\ i - 1 \in 1 .. n /\ (i - 1) + 1 = i /\ n # 0 BY <1>1, <3>2
      <4>2. s[i - 1] # b /\ s[i - 1] \in Buffers BY <4>1, <1>1, <1>2 DEF s, n
      <4>3. link'[s[i - 1]] = s[i] BY <4>1, <4>2, <1>5, <1>10
      <4> QED BY <4>1, <4>3, <1>3
    <3> QED BY <3>1, <3>2
  <2>4. Len(t) - 1 = n BY <1>1, <1>3
  <2> QED BY <1>3, <2>1, <2>2, <2>3, <2>4 DEF Chained
<1>12. \A k \in 1 .. n + 1 : k = 1 \/ (k - 1 \in 1 .. n /\ t[k] = s[k - 1])
  <2> SUFFICES ASSUME NEW k \in 1 .. n + 1, k # 1 PROVE k - 1 \in 1 .. n /\ t[k] = s[k - 1] OBVIOUS
  <2>1. k - 1 \in 1 .. n /\ (k - 1) + 1 = k BY <1>1
  <2> QED BY <2>1, <1>3
<1>13. Distinct(t)
  <2> SUFFICES ASSUME NEW i \in 1 .. n + 1, NEW j \in 1 .. n + 1, t[i] = t[j] PROVE i = j
    BY <1>3 DEF Distinct
  <2>1. \A k \in 1 .. n : s[k] # b BY <1>2 DEF s, n
  <2>2. CASE i = 1 BY <2>1, <2>2, <1>3, <1>12
  <2>3. CASE j = 1 BY <2>1, <2>3, <1>3, <1>12
  <2>4. CASE i # 1 /\ j # 1
    <3>1. i - 1 = j - 1 BY <2>4, <1>4, <1>12 DEF Distinct, n
    <3> QED BY <3>1, <1>1
  <2> QED BY <2>2, <2>3, <2>4
<1>14. ASSUME NEW g \in Heads \ {h}, NEW i \in 1 .. Len(Walk(g))
       PROVE /\ link'[Walk(g)[i]] = link[Walk(g)[i]]
             /\ \A j \in 1 .. Len(t) : Walk(g)[i] # t[j]
  <2>1. Walk(g)[i] \in Buffers /\ Walk(g)[i] # b BY <1>2, Parts
  <2>2. \A j \in 1 .. n : Walk(g)[i] # s[j] BY Elsewhere DEF s, n
  <2> QED BY <1>3, <1>10, <1>12, <2>1, <2>2
<1>15. QueueInv' /\ Walks' = [Walks EXCEPT ![h] = t]
  BY <1>3, <1>8, <1>9, <1>10, <1>11, <1>13, <1>14, OneQueueStep, ZenonT(60)
<1>16. List!Becomes([Walks EXCEPT ![h] = t]) BY <1>15, ListsBecome
<1>17. List!Free(b) BY DEF List!Free, List!ToSet, ToSet, skb_queue_head, Unqueued
<1> QED BY <1>1, <1>15, <1>16, <1>17 DEF List!AddHead, Walks, t

(* skb_dequeue: the last element follows when the queue becomes empty.     *)
LEMMA DequeueStep ==
  ASSUME QueueInv, NEW h \in Heads, skb_dequeue(h)
  PROVE  QueueInv' /\ List!Dequeue(h)
<1> DEFINE s == Walk(h)
           t == Tail(s)
           n == Len(s)
           a == link[s[1]]
           z == IF n = 1 THEN Nil ELSE s[n]
<1>1. /\ s \in Seq(Buffers) /\ n \in Nat /\ qlen[h] = n
      /\ Chained(s, head[h], tail[h], link) /\ Walks[h] = s
      /\ head \in [Heads -> Buffers \cup {Nil}] /\ tail \in [Heads -> Buffers \cup {Nil}]
      /\ link \in [Buffers -> Buffers \cup {Nil}] /\ qlen \in [Heads -> Nat]
      /\ \A i \in 1 .. n : s[i] \in Buffers /\ s[i] # Nil
  BY Parts
<1>2. s # <<>> BY <1>1 DEF Chained, skb_dequeue
<1>3. n \in 1 .. n /\ 1 \in 1 .. n BY <1>1, <1>2
<1>4. /\ t \in Seq(Buffers) /\ Len(t) = n - 1 /\ \A i \in 1 .. n - 1 : t[i] = s[i + 1]
  BY <1>1, <1>2
<1>5. Distinct(s) BY WalkDistinct
<1>6. tail[h] = s[n] /\ head[h] = s[1] /\ link[s[n]] = Nil
      /\ \A i \in 1 .. n - 1 : link[s[i]] = s[i + 1]
  BY <1>1, <1>2 DEF Chained
<1>7. a = IF n = 1 THEN Nil ELSE s[2]
  <2>1. CASE n = 1 BY <2>1, <1>6
  <2>2. CASE n # 1
    <3>1. 1 \in 1 .. n - 1 BY <2>2, <1>1, <1>3
    <3> QED BY <3>1, <2>2, <1>6
  <2> QED BY <2>1, <2>2
<1>8. n # 1 => s[2] # Nil /\ s[2] \in Buffers
  <2> SUFFICES ASSUME n # 1 PROVE 2 \in 1 .. n BY <1>1
  <2> QED BY <1>1, <1>3
<1>9. /\ link' = [link EXCEPT ![s[1]] = Nil] /\ head' = [head EXCEPT ![h] = a]
      /\ tail' = [tail EXCEPT ![h] = z] /\ qlen' = [qlen EXCEPT ![h] = Len(t)]
  <2>1. a = Nil <=> n = 1 BY <1>7, <1>8
  <2> QED BY <2>1, <1>1, <1>4, <1>6 DEF skb_dequeue
<1>10. a \in Buffers \cup {Nil} /\ z \in Buffers \cup {Nil} BY <1>1, <1>3
<1>11. link' \in [Buffers -> Buffers \cup {Nil}]
       /\ \A c \in Buffers : c # s[1] => link'[c] = link[c]
  BY <1>1, <1>9
<1> HIDE DEF s, t, n, z, a
<1>12. ASSUME NEW i \in 1 .. n - 1
       PROVE i + 1 \in 1 .. n /\ t[i] \in Buffers /\ t[i] # s[1] /\ link'[t[i]] = link[t[i]] /\ t[i] = s[i + 1]
  <2>1. i + 1 \in 1 .. n /\ i + 1 # 1 BY <1>1
  <2>2. t[i] = s[i + 1] /\ s[i + 1] # s[1] BY <2>1, <1>3, <1>4, <1>5 DEF Distinct, n
  <2> QED BY <2>1, <2>2, <1>1, <1>11
<1>13. Chained(t, a, z, link')
  <2>1. CASE n = 1
    <3>1. t = <<>> BY <2>1, <1>4
    <3> QED BY <2>1, <3>1, <1>7 DEF Chained, z
  <2>2. CASE n # 1
    <3>1. n - 1 \in 1 .. n - 1 /\ 1 \in 1 .. n - 1 /\ (n - 1) + 1 = n /\ t # <<>>
      BY <2>2, <1>3, <1>4
    <3>2. t[1] = a BY <2>2, <3>1, <1>4, <1>7
    <3>3. t[Len(t)] = z /\ link'[t[Len(t)]] = Nil BY <2>2, <3>1, <1>4, <1>6, <1>12 DEF z
    <3>4. ASSUME NEW i \in 1 .. Len(t) - 1 PROVE link'[t[i]] = t[i + 1]
      <4>1. i \in 1 .. n - 1 /\ i + 1 \in 1 .. n - 1 BY <1>1, <1>4
      <4>2. link'[t[i]] = link[s[i + 1]] /\ t[i + 1] = s[(i + 1) + 1] BY <4>1, <1>12
      <4> QED BY <4>1, <4>2, <1>6
    <3> QED BY <3>1, <3>2, <3>3, <3>4 DEF Chained
  <2> QED BY <2>1, <2>2
<1>14. Distinct(t)
  <2> SUFFICES ASSUME NEW i \in 1 .. n - 1, NEW j \in 1 .. n - 1, t[i] = t[j] PROVE i = j
    BY <1>4 DEF Distinct
  <2>1. i + 1 \in 1 .. n /\ j + 1 \in 1 .. n /\ s[i + 1] = s[j + 1] BY <1>12
  <2>2. i + 1 = j + 1
    <3> DEFINE ii == i + 1  jj == j + 1
    <3>1. ii \in 1 .. n /\ jj \in 1 .. n /\ s[ii] = s[jj] BY <2>1
    <3> HIDE DEF ii, jj
    <3>2. ii = jj BY <1>5, <3>1 DEF Distinct, n
    <3> QED BY <3>2 DEF ii, jj
  <2> QED BY <2>2
<1>15. ASSUME NEW g \in Heads \ {h}, NEW i \in 1 .. Len(Walk(g))
       PROVE /\ link'[Walk(g)[i]] = link[Walk(g)[i]]
             /\ \A j \in 1 .. Len(t) : Walk(g)[i] # t[j]
  <2>1. Walk(g)[i] \in Buffers BY Parts
  <2>2. \A j \in 1 .. n : Walk(g)[i] # s[j] BY Elsewhere DEF s, n
  <2> QED BY <1>3, <1>4, <1>11, <1>12, <2>1, <2>2
<1>16. QueueInv' /\ Walks' = [Walks EXCEPT ![h] = t]
  BY <1>4, <1>9, <1>10, <1>11, <1>13, <1>14, <1>15, OneQueueStep
<1>17. List!Becomes([Walks EXCEPT ![h] = t]) BY <1>16, ListsBecome
<1> QED BY <1>1, <1>2, <1>16, <1>17 DEF List!Dequeue, Walks, t

(* A list without its k-th element.                                        *)
LEMMA RemoveAtParts ==
  ASSUME NEW S, NEW s \in Seq(S), NEW k \in 1 .. Len(s)
  PROVE  /\ RemoveAt(s, k) \in Seq(S)
         /\ Len(RemoveAt(s, k)) = Len(s) - 1
         /\ \A i \in 1 .. Len(s) - 1 : RemoveAt(s, k)[i] = IF i < k THEN s[i] ELSE s[i + 1]
<1> DEFINE a == SubSeq(s, 1, k - 1)
           z == SubSeq(s, k + 1, Len(s))
<1>1. k \in Nat /\ Len(s) \in Nat /\ k >= 1 /\ k <= Len(s) OBVIOUS
<1>2. a \in Seq(S) /\ Len(a) = k - 1 /\ \A i \in 1 .. k - 1 : a[i] = s[i]
  BY <1>1
<1>3. z \in Seq(S) /\ Len(z) = Len(s) - k /\ \A i \in 1 .. Len(s) - k : z[i] = s[k + i]
  <2>1. \A i \in 1 .. Len(s) - k : (k + 1) + i - 1 = k + i BY <1>1
  <2> QED BY <1>1, <2>1
<1>4. RemoveAt(s, k) = a \o z BY DEF RemoveAt
<1> HIDE DEF a, z
<1>5. a \o z \in Seq(S) /\ Len(a \o z) = Len(s) - 1 BY <1>1, <1>2, <1>3
<1>6. ASSUME NEW i \in 1 .. Len(s) - 1 PROVE (a \o z)[i] = IF i < k THEN s[i] ELSE s[i + 1]
  <2>1. CASE i < k
    <3>1. i \in 1 .. k - 1 BY <2>1, <1>1
    <3> QED BY <2>1, <3>1, <1>1, <1>2, <1>3
  <2>2. CASE ~(i < k)
    <3>1. i - (k - 1) \in 1 .. Len(s) - k /\ k + (i - (k - 1)) = i + 1 /\ i > k - 1 BY <2>2, <1>1
    <3>2. (a \o z)[i] = z[i - (k - 1)] BY <3>1, <1>1, <1>2, <1>3
    <3> QED BY <2>2, <3>1, <3>2, <1>3
  <2> QED BY <2>1, <2>2
<1> QED BY <1>4, <1>5, <1>6

(* skb_unlink of a buffer of the queue: the element before it becomes the  *)
(* last one if it was the last.                                            *)
LEMMA UnlinkStep ==
  ASSUME QueueInv, NEW h \in Heads, NEW b \in ToSet(Walk(h)), skb_unlink(h, b)
  PROVE  QueueInv' /\ List!Unlink(h, b)
<1> DEFINE s == Walk(h)
           n == Len(s)
<1>1. /\ s \in Seq(Buffers) /\ n \in Nat /\ qlen[h] = n
      /\ Chained(s, head[h], tail[h], link) /\ Walks[h] = s
      /\ head \in [Heads -> Buffers \cup {Nil}] /\ tail \in [Heads -> Buffers \cup {Nil}]
      /\ link \in [Buffers -> Buffers \cup {Nil}] /\ qlen \in [Heads -> Nat]
      /\ \A i \in 1 .. n : s[i] \in Buffers /\ s[i] # Nil
  BY Parts
<1>2. PICK k \in 1 .. n : b = s[k] BY Elements
<1> DEFINE t == RemoveAt(s, k)
           before == {p \in ToSet(s) : link[p] = b}
           a == IF k = 1 THEN link[b] ELSE head[h]
           z == IF k # n THEN tail[h] ELSE IF k = 1 THEN Nil ELSE s[k - 1]
<1>3. s # <<>> /\ n # 0 /\ 1 \in 1 .. n /\ n \in 1 .. n /\ b \in Buffers /\ b # Nil /\ k \in Nat
  BY <1>1, <1>2
<1>4. Distinct(s) BY WalkDistinct
<1>5. tail[h] = s[n] /\ head[h] = s[1] /\ link[s[n]] = Nil
      /\ \A i \in 1 .. n - 1 : link[s[i]] = s[i + 1]
  BY <1>1, <1>3 DEF Chained
<1>6. k # 1 => k - 1 \in 1 .. n - 1 /\ k - 1 \in 1 .. n /\ (k - 1) + 1 = k BY <1>1, <1>2
<1>7. \A i \in 1 .. n : link[s[i]] = b <=> k # 1 /\ i = k - 1
  <2> TAKE i \in 1 .. n
  <2>1. CASE i = n
    <3> k # 1 => k - 1 # n BY <1>1, <1>2
    <3> QED BY <2>1, <1>3, <1>5
  <2>2. CASE i # n
    <3>1. i \in 1 .. n - 1 /\ i + 1 \in 1 .. n BY <2>2, <1>1
    <3>2. link[s[i]] = s[i + 1] BY <3>1, <1>5
    <3>3. s[i + 1] = s[k] <=> i + 1 = k BY <3>1, <1>2, <1>4 DEF Distinct
    <3>4. i + 1 = k <=> k # 1 /\ i = k - 1 BY <1>1, <1>2, <3>1
    <3> QED BY <1>2, <3>2, <3>3, <3>4
  <2> QED BY <2>1, <2>2
<1>8. before = IF k = 1 THEN {} ELSE {s[k - 1]}
  <2>1. \A p : p \in ToSet(s) <=> \E i \in 1 .. n : p = s[i] BY Elements
  <2>2. \A p : p \in before => k # 1 /\ p = s[k - 1]
    <3> HIDE DEF n
    <3> QED BY <1>7, <2>1
  <2>3. k # 1 => s[k - 1] \in before
    <3> HIDE DEF n
    <3> QED BY <1>6, <1>7, <2>1
  <2> HIDE DEF before
  <2> QED BY <2>2, <2>3
<1>9. t \in Seq(Buffers) /\ Len(t) = n - 1
      /\ \A i \in 1 .. n - 1 : t[i] = IF i < k THEN s[i] ELSE s[i + 1]
  BY <1>1, <1>2, RemoveAtParts
<1>10. link[b] = IF k = n THEN Nil ELSE s[k + 1]
  <2> k # n => k \in 1 .. n - 1 BY <1>1, <1>2
  <2> QED BY <1>2, <1>5
<1>11. tail[h] = b <=> k = n BY <1>2, <1>3, <1>4, <1>5 DEF Distinct
<1>12. /\ link' = [p \in Buffers |-> IF p \in before THEN link[b]
                                     ELSE IF p = b THEN Nil ELSE link[p]]
       /\ head' = [head EXCEPT ![h] = a]
       /\ tail' = [tail EXCEPT ![h] = z] /\ qlen' = [qlen EXCEPT ![h] = Len(t)]
  <2>1. /\ IF before # {}
              THEN /\ link' = [p \in Buffers |-> IF p \in before THEN link[b]
                                                 ELSE IF p = b THEN Nil ELSE link[p]]
                   /\ UNCHANGED head
              ELSE /\ link' = [link EXCEPT ![b] = Nil]
                   /\ head' = [head EXCEPT ![h] = link[b]]
        /\ tail' = [tail EXCEPT ![h] = IF @ # b THEN @ ELSE IF before = {} THEN Nil
                                       ELSE CHOOSE p \in before : TRUE]
        /\ qlen' = [qlen EXCEPT ![h] = IF @ > 0 THEN @ - 1 ELSE 0]
    BY DEF skb_unlink
  <2>2. before = {} <=> k = 1 BY <1>8
  <2>3. k # 1 => (CHOOSE p \in before : TRUE) = s[k - 1] BY <1>8
  <2> HIDE DEF before
  <2>4. link' = [p \in Buffers |-> IF p \in before THEN link[b] ELSE IF p = b THEN Nil ELSE link[p]]
    BY <2>1, <1>1
  <2>5. head' = [head EXCEPT ![h] = a] BY <2>1, <2>2, <1>1
  <2>6. tail' = [tail EXCEPT ![h] = z] BY <2>1, <2>2, <2>3, <1>1, <1>11
  <2>7. qlen' = [qlen EXCEPT ![h] = Len(t)]
    <3> HIDE DEF s, n, t
    <3>1. (IF qlen[h] > 0 THEN qlen[h] - 1 ELSE 0) = Len(t) BY <1>1, <1>3, <1>9
    <3> QED BY <2>1, <3>1
  <2> QED BY <2>4, <2>5, <2>6, <2>7
<1>13. a \in Buffers \cup {Nil} /\ z \in Buffers \cup {Nil} BY <1>1, <1>3, <1>6
<1>14. link' \in [Buffers -> Buffers \cup {Nil}]
       /\ \A c \in Buffers : link'[c] = IF k # 1 /\ c = s[k - 1] THEN link[b]
                                        ELSE IF c = b THEN Nil ELSE link[c]
  <2> HIDE DEF before
  <2> QED BY <1>1, <1>3, <1>8, <1>12
<1> HIDE DEF s, t, n, z, a, before
<1>15. ASSUME NEW i \in 1 .. n, i # k
       PROVE  link'[s[i]] = IF k # 1 /\ i = k - 1 THEN link[b] ELSE link[s[i]]
  <2>1. s[i] # b BY <1>2, <1>4, <1>15 DEF Distinct, n
  <2>2. k # 1 => (s[i] = s[k - 1] <=> i = k - 1) BY <1>4, <1>6 DEF Distinct, n
  <2> QED BY <2>1, <2>2, <1>1, <1>14
<1>16. Chained(t, a, z, link')
  <2>1. CASE n = 1
    <3>1. t = <<>> /\ k = 1 BY <2>1, <1>2, <1>9
    <3> QED BY <2>1, <3>1, <1>10 DEF Chained, a, z
  <2>2. CASE n # 1
    <3>1. n - 1 \in 1 .. n - 1 /\ 1 \in 1 .. n - 1 /\ (n - 1) + 1 = n /\ t # <<>>
      BY <2>2, <1>1, <1>3, <1>9
    <3>2. t[1] = a
      <4>1. CASE k = 1
        <5>1. t[1] = s[1 + 1] /\ k # n BY <4>1, <2>2, <3>1, <1>9
        <5> QED BY <4>1, <5>1, <1>10 DEF a
      <4>2. CASE k # 1
        <5>1. 1 < k BY <4>2, <1>2
        <5> QED BY <4>2, <5>1, <3>1, <1>5, <1>9 DEF a
      <4> QED BY <4>1, <4>2
    <3>3. t[Len(t)] = z /\ link'[t[Len(t)]] = Nil
      <4>1. CASE k = n
        <5>1. n - 1 < k /\ k # 1 /\ n - 1 \in 1 .. n /\ n - 1 # k BY <4>1, <2>2, <3>1, <1>1
        <5>2. t[Len(t)] = s[n - 1] BY <5>1, <3>1, <1>9
        <5>3. link'[s[n - 1]] = link[b] BY <4>1, <5>1, <1>15
        <5> QED BY <4>1, <5>1, <5>2, <5>3, <1>10 DEF z
      <4>2. CASE k # n
        <5>1. ~(n - 1 < k) /\ ~(n = k - 1) BY <4>2, <1>1, <1>2
        <5>2. t[Len(t)] = s[n] BY <5>1, <3>1, <1>9
        <5>3. link'[s[n]] = link[s[n]] BY <4>2, <5>1, <1>3, <1>15
        <5> QED BY <4>2, <5>2, <5>3, <1>5 DEF z
      <4> QED BY <4>1, <4>2
    <3>4. ASSUME NEW i \in 1 .. Len(t) - 1 PROVE link'[t[i]] = t[i + 1]
      <4>1. i \in 1 .. n - 1 /\ i + 1 \in 1 .. n - 1 /\ i \in 1 .. n /\ i + 1 \in 1 .. n
        BY <1>1, <1>9
      <4>2. CASE i < k
        <5>1. t[i] = s[i] /\ i # k BY <4>1, <4>2, <1>9
        <5>2. CASE i = k - 1
          <6>1. k # 1 /\ ~(i + 1 < k) /\ i + 1 = k /\ k # n BY <5>2, <4>1, <1>1, <1>2
          <6>2. t[i + 1] = s[k + 1] BY <6>1, <4>1, <1>9
          <6>3. link'[s[i]] = s[k + 1] BY <5>1, <5>2, <6>1, <4>1, <1>10, <1>15
          <6> QED BY <5>1, <6>2, <6>3
        <5>3. CASE i # k - 1
          <6>1. i + 1 < k BY <5>3, <4>1, <4>2, <1>2
          <6>2. t[i + 1] = s[i + 1] BY <6>1, <4>1, <1>9
          <6>3. link'[s[i]] = link[s[i]] BY <5>1, <5>3, <4>1, <1>15
          <6> QED BY <5>1, <6>2, <6>3, <4>1, <1>5
        <5> QED BY <5>2, <5>3
      <4>3. CASE ~(i < k)
        <5>1. ~(i + 1 < k) /\ i + 1 # k /\ ~(i + 1 = k - 1) BY <4>1, <4>3, <1>2
        <5>2. t[i] = s[i + 1] /\ t[i + 1] = s[(i + 1) + 1] BY <4>1, <4>3, <5>1, <1>9
        <5>3. link'[s[i + 1]] = link[s[i + 1]] BY <5>1, <4>1, <1>15
        <5> QED BY <5>2, <5>3, <4>1, <1>5
      <4> QED BY <4>2, <4>3
    <3> QED BY <3>1, <3>2, <3>3, <3>4 DEF Chained
  <2> QED BY <2>1, <2>2
<1>17. \A i \in 1 .. n - 1 : i \in 1 .. n /\ i + 1 \in 1 .. n BY <1>1
<1>18. Distinct(t)
  <2> SUFFICES ASSUME NEW i \in 1 .. n - 1, NEW j \in 1 .. n - 1, t[i] = t[j] PROVE i = j
    BY <1>9 DEF Distinct
  <2> DEFINE u == IF i < k THEN i ELSE i + 1
             v == IF j < k THEN j ELSE j + 1
  <2>1. t[i] = s[u] /\ t[j] = s[v] /\ u \in 1 .. n /\ v \in 1 .. n BY <1>9, <1>17
  <2>2. u = v BY <2>1, <1>4 DEF Distinct, n
  <2> QED BY <2>2, <1>2
<1>19. ASSUME NEW g \in Heads \ {h}, NEW i \in 1 .. Len(Walk(g))
       PROVE /\ link'[Walk(g)[i]] = link[Walk(g)[i]]
             /\ \A j \in 1 .. Len(t) : Walk(g)[i] # t[j]
  <2>1. Walk(g)[i] \in Buffers BY Parts
  <2>2. \A j \in 1 .. n : Walk(g)[i] # s[j] BY Elsewhere DEF s, n
  <2>3. link'[Walk(g)[i]] = link[Walk(g)[i]] BY <2>1, <2>2, <1>2, <1>6, <1>14
  <2>4. \A j \in 1 .. n - 1 : Walk(g)[i] # t[j] BY <2>2, <1>9, <1>17
  <2> QED BY <2>3, <2>4, <1>9
<1>20. QueueInv' /\ Walks' = [Walks EXCEPT ![h] = t]
  BY <1>9, <1>12, <1>13, <1>14, <1>16, <1>18, <1>19, OneQueueStep
<1>21. List!Becomes([Walks EXCEPT ![h] = t]) BY <1>20, ListsBecome
<1>22. k \in DOMAIN Walks[h] /\ Walks[h][k] = b BY <1>1, <1>2 DEF n
<1> QED BY <1>1, <1>20, <1>21, <1>22 DEF List!Unlink, List!RemoveAt, RemoveAt, Walks, t

(* skb_queue_splice_tail_init: the loop of the code as one step, two lists *)
(* become one.                                                             *)
LEMMA SpliceStep ==
  ASSUME QueueInv, NEW from \in Heads, NEW to \in Heads, skb_queue_splice_tail_init(from, to)
  PROVE  QueueInv' /\ List!Splice(from, to)
<1> DEFINE m == Walk(from)
           s == Walk(to)
           t == s \o m
           l == [Walks EXCEPT ![to] = t, ![from] = <<>>]
<1>1. /\ s \in Seq(Buffers) /\ Len(s) \in Nat /\ qlen[to] = Len(s)
      /\ Chained(s, head[to], tail[to], link) /\ Walks[to] = s
      /\ \A i \in 1 .. Len(s) : s[i] \in Buffers /\ s[i] # Nil
  BY Parts
<1>2. /\ m \in Seq(Buffers) /\ Len(m) \in Nat /\ qlen[from] = Len(m)
      /\ Chained(m, head[from], tail[from], link) /\ Walks[from] = m
      /\ \A i \in 1 .. Len(m) : m[i] \in Buffers /\ m[i] # Nil
  BY Parts
<1>3. /\ head \in [Heads -> Buffers \cup {Nil}] /\ tail \in [Heads -> Buffers \cup {Nil}]
      /\ link \in [Buffers -> Buffers \cup {Nil}] /\ qlen \in [Heads -> Nat]
      /\ Walks \in [Heads -> Seq(Buffers)] /\ Unshared(Walks)
      /\ qlen = [h \in Heads |-> Len(Walks[h])]
  BY Parts DEF QueueInv, Represents
<1>4. /\ from # to /\ m # <<>>
      /\ link' = IF tail[to] = Nil THEN link ELSE [link EXCEPT ![tail[to]] = m[1]]
      /\ head' = [head EXCEPT ![from] = Nil, ![to] = IF tail[to] = Nil THEN m[1] ELSE @]
      /\ tail' = [tail EXCEPT ![from] = Nil, ![to] = m[Len(m)]]
      /\ qlen' = [qlen EXCEPT ![from] = @ - Len(m), ![to] = @ + Len(m)]
  BY DEF skb_queue_splice_tail_init
<1>5. Distinct(s) /\ Distinct(m) BY WalkDistinct
<1>6. \A i \in 1 .. Len(s), j \in 1 .. Len(m) : s[i] # m[j] BY <1>4, Elsewhere
<1>7. Len(m) \in 1 .. Len(m) /\ 1 \in 1 .. Len(m) BY <1>2, <1>4
<1>8. s # <<>> => Len(s) \in 1 .. Len(s) /\ 1 \in 1 .. Len(s) BY <1>1
<1>9. tail[to] = Nil <=> s = <<>> BY <1>1, <1>8 DEF Chained
<1>10. link' \in [Buffers -> Buffers \cup {Nil}]
       /\ \A c \in Buffers : link'[c] = IF s # <<>> /\ c = s[Len(s)] THEN m[1] ELSE link[c]
  <2>1. CASE s = <<>> BY <2>1, <1>3, <1>4, <1>9
  <2>2. CASE s # <<>>
    <3>1. tail[to] = s[Len(s)] /\ tail[to] \in Buffers BY <2>2, <1>1, <1>8 DEF Chained
    <3>2. link' = [link EXCEPT ![s[Len(s)]] = m[1]] BY <2>2, <3>1, <1>4, <1>9
    <3> HIDE DEF s, m
    <3> QED BY <2>2, <3>1, <3>2, <1>2, <1>3, <1>7
  <2> QED BY <2>1, <2>2
<1>11. /\ t \in Seq(Buffers) /\ Len(t) = Len(s) + Len(m) /\ t # <<>>
       /\ \A i \in 1 .. Len(s) : t[i] = s[i]
       /\ \A i \in 1 .. Len(m) : t[Len(s) + i] = m[i]
  <2> HIDE DEF s, m
  <2> QED BY <1>1, <1>2, <1>4, <1>7
<1>12. /\ l \in [Heads -> Seq(Buffers)] /\ l[to] = t /\ l[from] = <<>>
       /\ \A h \in Heads \ {from, to} : l[h] = Walk(h) /\ Walks[h] = Walk(h)
  <2> HIDE DEF s, m, t
  <2>1. \A h \in Heads : Walks[h] = Walk(h) BY DEF Walks
  <2>2. l \in [Heads -> Seq(Buffers)]
    <3>1. <<>> \in Seq(Buffers) /\ t \in Seq(Buffers) /\ Walks \in [Heads -> Seq(Buffers)]
      BY <1>3, <1>11
    <3> HIDE DEF Walks
    <3> QED BY <3>1
  <2>3. l[to] = t /\ l[from] = <<>> /\ \A h \in Heads \ {from, to} : l[h] = Walks[h]
    BY <1>3, <1>4
  <2> QED BY <2>1, <2>2, <2>3
<1> HIDE DEF l, t, s, m
<1>13. \A k \in 1 .. Len(t) : \/ k \in 1 .. Len(s) /\ t[k] = s[k]
                             \/ /\ k - Len(s) \in 1 .. Len(m) /\ k = Len(s) + (k - Len(s))
                                /\ t[k] = m[k - Len(s)]
  <2> SUFFICES ASSUME NEW k \in 1 .. Len(t), k \notin 1 .. Len(s)
               PROVE  /\ k - Len(s) \in 1 .. Len(m) /\ k = Len(s) + (k - Len(s))
                      /\ t[k] = m[k - Len(s)]
    BY <1>11
  <2>1. k - Len(s) \in 1 .. Len(m) /\ k = Len(s) + (k - Len(s)) BY <1>1, <1>2, <1>11
  <2> QED BY <2>1, <1>11
<1>14. Chained(t, head'[to], tail'[to], link')
  <2>1. tail'[to] = m[Len(m)] /\ t[Len(t)] = m[Len(m)] BY <1>3, <1>4, <1>7, <1>11
  <2>2. head'[to] = t[1]
    <3>1. CASE s = <<>>
      <4>1. head'[to] = m[1] /\ Len(s) = 0 BY <3>1, <1>3, <1>4, <1>9
      <4>2. t[1] = m[1] BY <4>1, <1>7, <1>11
      <4> QED BY <4>1, <4>2
    <3>2. CASE s # <<>>
      <4>1. head'[to] = head[to] BY <3>2, <1>3, <1>4, <1>9
      <4>2. head[to] = s[1] BY <3>2, <1>1 DEF Chained
      <4> QED BY <3>2, <4>1, <4>2, <1>8, <1>11
    <3> QED BY <3>1, <3>2
  <2>3. \A j \in 1 .. Len(m) : link'[m[j]] = link[m[j]]
    BY <1>2, <1>6, <1>8, <1>10
  <2>4. link'[t[Len(t)]] = Nil BY <2>1, <2>3, <1>2, <1>4, <1>7 DEF Chained
  <2>5. ASSUME NEW i \in 1 .. Len(t) - 1 PROVE link'[t[i]] = t[i + 1]
    <3>0. i \in 1 .. Len(t) /\ i + 1 \in 1 .. Len(t) /\ i \in Nat BY <1>1, <1>2, <1>11
    <3>1. CASE i \in 1 .. Len(s) - 1
      <4>1. i \in 1 .. Len(s) /\ i + 1 \in 1 .. Len(s) /\ Len(s) \in 1 .. Len(s) /\ s # <<>>
        BY <3>1, <1>1
      <4>2. s[i] # s[Len(s)] BY <3>1, <4>1, <1>5 DEF Distinct
      <4>3. link'[s[i]] = link[s[i]] BY <4>1, <4>2, <1>1, <1>10
      <4>4. link[s[i]] = s[i + 1] BY <3>1, <4>1, <1>1 DEF Chained
      <4> QED BY <4>1, <4>3, <4>4, <1>11
    <3>2. CASE i = Len(s)
      <4>1. s # <<>> /\ i \in 1 .. Len(s) BY <3>0, <3>2, <1>1
      <4>2. link'[s[Len(s)]] = m[1] BY <3>2, <4>1, <1>1, <1>10
      <4>3. t[i + 1] = m[1] BY <3>2, <1>7, <1>11
      <4> QED BY <3>2, <4>1, <4>2, <4>3, <1>11
    <3>3. CASE i > Len(s)
      <4> DEFINE j == i - Len(s)
      <4>1. j \in 1 .. Len(m) - 1 /\ j \in 1 .. Len(m) /\ j + 1 \in 1 .. Len(m)
            /\ i = Len(s) + j /\ i + 1 = Len(s) + (j + 1)
        BY <3>0, <3>3, <1>1, <1>2, <1>11
      <4>2. t[i] = m[j] /\ t[i + 1] = m[j + 1] BY <4>1, <1>11, SMTT(30)
      <4>3. link[m[j]] = m[j + 1] BY <4>1, <1>2, <1>4 DEF Chained
      <4> QED BY <4>1, <4>2, <4>3, <2>3
    <3> QED BY <3>0, <3>1, <3>2, <3>3, <1>1
  <2> QED BY <1>11, <2>1, <2>2, <2>4, <2>5 DEF Chained
<1>15. ASSUME NEW h \in Heads PROVE Chained(l[h], head'[h], tail'[h], link')
  <2>1. CASE h = to BY <2>1, <1>12, <1>14
  <2>2. CASE h = from BY <2>2, <1>3, <1>4, <1>12 DEF Chained
  <2>3. CASE h \notin {from, to}
    <3>1. head'[h] = head[h] /\ tail'[h] = tail[h] /\ l[h] = Walk(h) BY <2>3, <1>3, <1>4, <1>12
    <3>2. ASSUME NEW i \in 1 .. Len(Walk(h)) PROVE link'[Walk(h)[i]] = link[Walk(h)[i]]
      <4>1. Walk(h)[i] \in Buffers BY Parts
      <4>2. s # <<>> => Walk(h)[i] # s[Len(s)] BY <2>3, <1>8, Elsewhere DEF s
      <4> QED BY <4>1, <4>2, <1>10
    <3> QED BY <3>1, <3>2, Parts, ChainKept
  <2> QED BY <2>1, <2>2, <2>3
<1>16. qlen' = [h \in Heads |-> Len(l[h])]
  <2>1. ASSUME NEW h \in Heads PROVE qlen'[h] = Len(l[h])
    <3>1. CASE h = to
      <4>1. qlen'[to] = qlen[to] + Len(m) BY <1>3, <1>4
      <4> QED BY <3>1, <4>1, <1>1, <1>11, <1>12
    <3>2. CASE h = from
      <4>1. qlen'[from] = qlen[from] - Len(m) BY <1>3, <1>4
      <4>2. qlen'[from] = 0 BY <4>1, <1>2
      <4> QED BY <3>2, <4>2, <1>12
    <3>3. CASE h \notin {from, to}
      <4>1. qlen'[h] = qlen[h] BY <3>3, <1>3, <1>4
      <4> QED BY <3>3, <4>1, <1>3, <1>12
    <3> QED BY <3>1, <3>2, <3>3
  <2>2. qlen' = [h \in Heads |-> qlen'[h]] BY <1>3, <1>4
  <2> QED BY <2>1, <2>2
<1>17. Unshared(l)
  <2> SUFFICES ASSUME NEW g \in Heads, NEW h \in Heads, NEW i \in 1 .. Len(l[g]), NEW j \in 1 .. Len(l[h]),
                      l[g][i] = l[h][j]
               PROVE  g = h /\ i = j
    BY DEF Unshared
  <2>1. Len(<<>>) = 0 OBVIOUS
  <2>2. g # from /\ h # from BY <2>1, <1>12
  <2>3. CASE g = to /\ h = to
    <3>1. i \in 1 .. Len(t) /\ j \in 1 .. Len(t) /\ t[i] = t[j] BY <2>3, <1>12
    <3>2. CASE i \in 1 .. Len(s) /\ j \in 1 .. Len(s)
      BY <2>3, <3>1, <3>2, <1>5, <1>11 DEF Distinct
    <3>3. CASE i \in 1 .. Len(s) /\ j \notin 1 .. Len(s) BY <3>1, <3>3, <1>6, <1>11, <1>13
    <3>4. CASE i \notin 1 .. Len(s) /\ j \in 1 .. Len(s) BY <3>1, <3>4, <1>6, <1>11, <1>13
    <3>5. CASE i \notin 1 .. Len(s) /\ j \notin 1 .. Len(s)
      <4>1. /\ i - Len(s) \in 1 .. Len(m) /\ t[i] = m[i - Len(s)] /\ i = Len(s) + (i - Len(s))
            /\ j - Len(s) \in 1 .. Len(m) /\ t[j] = m[j - Len(s)] /\ j = Len(s) + (j - Len(s))
        BY <3>1, <3>5, <1>13
      <4>2. m[i - Len(s)] = m[j - Len(s)] BY <3>1, <4>1
      <4> DEFINE u == i - Len(s)  v == j - Len(s)
      <4>3. u \in 1 .. Len(m) /\ v \in 1 .. Len(m) /\ m[u] = m[v] BY <4>1, <4>2
      <4> HIDE DEF u, v
      <4>4. u = v BY <4>3, <1>5 DEF Distinct
      <4> QED BY <2>3, <4>1, <4>4 DEF u, v
    <3> QED BY <3>2, <3>3, <3>4, <3>5
  <2>4. CASE g = to /\ h # to
    <3>1. i \in 1 .. Len(t) /\ l[h] = Walk(h) /\ t[i] = Walk(h)[j] BY <2>2, <2>4, <1>12
    <3>2. (\A k \in 1 .. Len(s) : s[k] # Walk(h)[j]) /\ (\A k \in 1 .. Len(m) : m[k] # Walk(h)[j])
      BY <2>2, <2>4, <3>1, Elsewhere DEF s, m
    <3> QED BY <3>1, <3>2, <1>13
  <2>5. CASE g # to /\ h = to
    <3>1. j \in 1 .. Len(t) /\ l[g] = Walk(g) /\ t[j] = Walk(g)[i] BY <2>2, <2>5, <1>12
    <3>2. (\A k \in 1 .. Len(s) : s[k] # Walk(g)[i]) /\ (\A k \in 1 .. Len(m) : m[k] # Walk(g)[i])
      BY <2>2, <2>5, <3>1, Elsewhere DEF s, m
    <3> QED BY <3>1, <3>2, <1>13
  <2>6. CASE g # to /\ h # to
    <3>1. l[g] = Walk(g) /\ l[h] = Walk(h) BY <2>2, <2>6, <1>12
    <3> QED BY <3>1, Elsewhere
  <2> QED BY <2>3, <2>4, <2>5, <2>6
<1>18. head' \in [Heads -> Buffers \cup {Nil}] /\ tail' \in [Heads -> Buffers \cup {Nil}]
  BY <1>2, <1>3, <1>4, <1>7
<1>19. Represents(l, head', tail', qlen', link')
  BY <1>10, <1>12, <1>15, <1>16, <1>17, <1>18 DEF Represents
<1>20. QueueInv' /\ Walks' = l BY <1>19, WalksNext
<1>21. List!Becomes(l) BY <1>16, <1>20 DEF List!Becomes, Walks
<1> QED BY <1>1, <1>2, <1>4, <1>20, <1>21 DEF List!Splice, Walks, l, t, s, m

(* Empty queues are empty lists, and every step is one of the lists or a   *)
(* stutter.                                                                *)
LEMMA QueueInitInv ==
  ASSUME QueueInit
  PROVE  QueueInv /\ List!Init
<1> DEFINE l == [h \in Heads |-> <<>>]
<1>1. Represents(l, head, tail, qlen, link)
  BY DEF QueueInit, Represents, Chained, Unshared
<1> HIDE DEF l
<1>2. l = [h \in Heads |-> WalkFrom(head[h], link)] BY <1>1, WalksRepresented
<1>3. Walks = [h \in Heads |-> WalkFrom(head[h], link)] BY DEF Walks, Walk, WalkFrom
<1>4. Walks = l BY <1>2, <1>3
<1> QED BY <1>1, <1>4 DEF QueueInv, QueueInit, List!Init, Walks, l

(* Every step of the queues keeps the invariant.                           *)
LEMMA QueueStepInv ==
  ASSUME QueueInv, [QueueNext]_queueVars
  PROVE  QueueInv' /\ [List!Next]_<<Walks, qlen>>
<1>1. ASSUME NEW h \in Heads, skb_dequeue(h) PROVE QueueInv' /\ List!Next
  BY <1>1, DequeueStep DEF List!Next
<1>2. ASSUME NEW h \in Heads, NEW b \in Buffers, skb_queue_tail(h, b) PROVE QueueInv' /\ List!Next
  BY <1>2, AppendStep DEF List!Next
<1>3. ASSUME NEW h \in Heads, NEW b \in Buffers, skb_queue_head(h, b) PROVE QueueInv' /\ List!Next
  BY <1>3, PrependStep DEF List!Next
<1>4. ASSUME UNCHANGED queueVars PROVE QueueInv' /\ UNCHANGED <<Walks, qlen>>
  <2>1. Represents(Walks, head', tail', qlen', link') BY <1>4 DEF QueueInv, queueVars
  <2> DEFINE l == Walks
  <2>2. QueueInv' /\ Walks' = Walks
    <3>1. Walks = [h \in Heads |-> WalkFrom(head'[h], link')] BY <2>1, WalksRepresented
    <3>2. \A h : Walk(h)' = WalkFrom(head'[h], link')
      BY DEF Walk, WalkFrom, FoldLeft, MapThenFoldSet
    <3>3. Walks' = Walks BY <3>1, <3>2 DEF Walks
    <3> QED BY <2>1, <3>3 DEF QueueInv
  <2> QED BY <2>2, <1>4 DEF queueVars
<1>5. ASSUME NEW h \in Heads, NEW b \in Buffers, skb_unlink(h, b)
      PROVE  QueueInv' /\ (List!Next \/ UNCHANGED <<Walks, qlen>>)
  <2>1. CASE b \in ToSet(Walk(h)) BY <2>1, <1>5, UnlinkStep DEF List!Next
  <2>2. CASE b \notin ToSet(Walk(h)) BY <2>2, <1>4, <1>5 DEF skb_unlink
  <2> QED BY <2>1, <2>2
<1>6. ASSUME NEW h \in Heads, NEW to \in Heads, skb_queue_splice_tail_init(h, to)
      PROVE  QueueInv' /\ List!Next
  BY <1>6, SpliceStep DEF List!Next
<1> QED BY <1>1, <1>2, <1>3, <1>4, <1>5, <1>6 DEF QueueNext

(* SkbQueue!IsAList: whatever order the functions are called in, the heads *)
(* and links are FrameQueue's lists, and each step is the list operation   *)
(* its name says. A stale tail or a circle would end the refinement.       *)
THEOREM QueuesAreLists == QueueInit /\ [][QueueNext]_queueVars => IsAList
<1>1. QueueInit => QueueInv /\ List!Init BY QueueInitInv
<1>2. QueueInv /\ [QueueNext]_queueVars => QueueInv' /\ [List!Next]_<<Walks, qlen>> BY QueueStepInv
<1>3. [List!Next]_<<Walks, qlen>> <=> [List!Next]_<<[h \in Heads |-> Walk(h)], qlen>> BY DEF Walks
<1> QED BY <1>1, <1>2, <1>3, PTL DEF IsAList, List!Spec

(***************************************************************************)
(* Loops that lengthen: rows of concatenations, rows of sums.              *)
(***************************************************************************)

(* A loop of n turns has a row of values.                                  *)
LEMMA RowExists ==
  ASSUME NEW n \in Nat, NEW A, NEW base \in A, NEW step \in [1 .. n -> [A -> A]]
  PROVE  \E acc \in [0 .. n -> A] : Accumulates(acc, n, base, step)
<1>1. PICK g \in [SUBSET (1 .. n) -> A] : FoldsSets(g, n, base, step) BY FoldExists
<1>2. FoldsTyped(g, n, A, base, step)
  <2> {} \in SUBSET (1 .. n) OBVIOUS
  <2> QED BY <1>1 DEF FoldsSets, FoldsTyped
<1> QED BY <1>2, FoldSteps

(* What holds of 0 and is kept by each turn holds of each of the n turns.  *)
LEMMA TurnInd ==
  ASSUME NEW n \in Nat, NEW T \in SUBSET (0 .. n), 0 \in T, \A k \in 1 .. n : k - 1 \in T => k \in T
  PROVE  T = 0 .. n
<1> DEFINE U == {k \in Nat : k <= n => k \in T}
<1>1. U \in SUBSET Nat /\ 0 \in U OBVIOUS
<1>2. \A k \in U : k + 1 \in U
  <2> SUFFICES ASSUME NEW k \in Nat, k + 1 <= n, k \in T PROVE k + 1 \in T OBVIOUS
  <2> k + 1 \in 1 .. n /\ (k + 1) - 1 = k OBVIOUS
  <2> QED OBVIOUS
<1>3. U = Nat
  <2> HIDE DEF U
  <2> QED BY <1>1, <1>2, SetInd
<1>4. \A k \in 0 .. n : k \in T
  <2> TAKE k \in 0 .. n
  <2> k \in U /\ k <= n BY <1>3
  <2> QED OBVIOUS
<1> HIDE DEF U
<1> QED BY <1>4

Concats(acc, n, parts) == acc[0] = <<>> /\ \A k \in 1 .. n : acc[k] = acc[k - 1] \o parts[k]

(* FlattenSeq takes its sequences one after the other.                     *)
LEMMA FlattenSteps ==
  ASSUME NEW A, NEW n \in Nat, NEW parts \in [1 .. n -> Seq(A)]
  PROVE  \E acc \in [0 .. n -> Seq(A)] : Concats(acc, n, parts) /\ FlattenSeq(parts) = acc[n]
<1> DEFINE step == [k \in 1 .. n |-> [a \in Seq(A) |-> a \o parts[k]]]
           Eqn(f) == f = [i \in 1 .. n |-> IF i = 1 THEN parts[i] ELSE f[i - 1] \o parts[i]]
           flat == CHOOSE f : Eqn(f)
<1>0. parts \in Seq(Seq(A)) /\ Len(parts) = n /\ DOMAIN parts = 1 .. n OBVIOUS
<1>1. step \in [1 .. n -> [Seq(A) -> Seq(A)]] OBVIOUS
<1>2. <<>> \in Seq(A) OBVIOUS
<1>3. PICK acc \in [0 .. n -> Seq(A)] : Accumulates(acc, n, <<>>, step)
  <2> HIDE DEF step
  <2> QED BY <1>1, <1>2, RowExists
<1>4. acc[0] = <<>> BY <1>3 DEF Accumulates
<1>5. ASSUME NEW k \in 1 .. n PROVE acc[k] = acc[k - 1] \o parts[k]
  <2> k - 1 \in 0 .. n OBVIOUS
  <2> acc[k - 1] \in Seq(A) OBVIOUS
  <2> QED BY <1>3 DEF Accumulates
<1>6. CASE n = 0
  <2> parts = <<>> BY <1>0, <1>6
  <2> FlattenSeq(parts) = <<>> BY <1>0, <1>6 DEF FlattenSeq
  <2> QED BY <1>4, <1>5, <1>6 DEF Concats
<1>7. CASE n # 0
  <2> DEFINE w == [i \in 1 .. n |-> acc[i]]
  <2>1. ASSUME NEW i \in 1 .. n PROVE w[i] = IF i = 1 THEN parts[i] ELSE w[i - 1] \o parts[i]
    <3>1. i - 1 \in 0 .. n /\ acc[i - 1] \in Seq(A) /\ parts[i] \in Seq(A) OBVIOUS
    <3>2. CASE i = 1
      <4> acc[1] = acc[0] \o parts[1] BY <3>2, <1>5
      <4> acc[i] = <<>> \o parts[i] BY <3>2, <1>4
      <4> QED BY <3>1, <3>2
    <3>3. CASE i # 1
      <4> i - 1 \in 1 .. n BY <3>3
      <4> QED BY <3>3, <1>5
    <3> QED BY <3>2, <3>3
  <2>2. Eqn(w) BY <2>1
  <2>3. Eqn(flat)
    <3> HIDE DEF w, Eqn
    <3> QED BY <2>2
  <2>4. FlattenSeq(parts) = flat[n] BY <1>0, <1>7 DEF FlattenSeq
  <2>5. flat[1] = parts[1] /\ \A i \in 2 .. n : flat[i] = flat[i - 1] \o parts[i]
    <3> 1 \in 1 .. n BY <1>7
    <3> \A i \in 1 .. n : flat[i] = IF i = 1 THEN parts[i] ELSE flat[i - 1] \o parts[i] BY <2>3
    <3> HIDE DEF flat
    <3>1. flat[1] = parts[1] OBVIOUS
    <3>2. ASSUME NEW i \in 2 .. n PROVE flat[i] = flat[i - 1] \o parts[i]
      <4> i \in 1 .. n /\ i # 1 OBVIOUS
      <4> QED OBVIOUS
    <3> QED BY <3>1, <3>2
  <2> DEFINE T == {k \in 0 .. n : k = 0 \/ flat[k] = acc[k]}
  <2>6. T = 0 .. n
    <3>1. 0 \in T /\ T \in SUBSET (0 .. n) OBVIOUS
    <3>2. ASSUME NEW k \in 1 .. n, k - 1 \in T PROVE k \in T
      <4>1. CASE k = 1
        <5>1. w[1] = parts[1] BY <2>1, <4>1
        <5>2. k \in 1 .. n /\ k \in 0 .. n OBVIOUS
        <5> HIDE DEF flat
        <5> QED BY <5>1, <5>2, <2>5, <4>1
      <4>2. CASE k # 1
        <5>1. k \in 2 .. n /\ k \in 0 .. n /\ k - 1 # 0 BY <4>2
        <5> HIDE DEF flat, w
        <5>2. flat[k] = flat[k - 1] \o parts[k] BY <5>1, <2>5
        <5>3. acc[k] = acc[k - 1] \o parts[k] BY <1>5
        <5>4. flat[k - 1] = acc[k - 1] BY <3>2, <5>1
        <5> QED BY <5>1, <5>2, <5>3, <5>4
      <4> QED BY <4>1, <4>2
    <3> HIDE DEF T
    <3> QED BY <3>1, <3>2, TurnInd
  <2>7. n \in T
    <3> n \in 0 .. n OBVIOUS
    <3> HIDE DEF T
    <3> QED BY <2>6
  <2>8. flat[n] = acc[n]
    <3> HIDE DEF flat, w
    <3> QED BY <2>7, <1>7
  <2> QED BY <2>4, <2>8, <1>4, <1>5 DEF Concats
<1> QED BY <1>6, <1>7

Sums(b, n, s) == b[0] = 0 /\ \A k \in 1 .. n : b[k] = b[k - 1] + s[k]

(* The fold that sums lengths is the last of a row of sums.                *)
LEMMA SumFold ==
  ASSUME NEW s \in Seq(Nat)
  PROVE  \E b \in [0 .. Len(s) -> Nat] : Sums(b, Len(s), s) /\ SumOf(s) = b[Len(s)]
<1> DEFINE n == Len(s)
           step == [i \in 1 .. n |-> [w \in Nat |-> w + s[i]]]
           Eqn(g) == g = [r \in SUBSET (1 .. n) |-> IF r = {} THEN 0
                                                    ELSE g[r \ {Max(r)}] + s[Max(r)]]
           iter == CHOOSE g : Eqn(g)
<1>1. n \in Nat /\ DOMAIN s = 1 .. n /\ \A i \in 1 .. n : s[i] \in Nat OBVIOUS
<1>4. step \in [1 .. n -> [Nat -> Nat]] BY <1>1
<1>5. PICK g \in [SUBSET (1 .. n) -> Nat] : FoldsSets(g, n, 0, step)
  <2> 0 \in Nat OBVIOUS
  <2> HIDE DEF n, step
  <2> QED BY <1>1, <1>4, FoldExists
<1>6. \A r \in SUBSET (1 .. n) :
        r # {} => step[Max(r)][g[r \ {Max(r)}]] = g[r \ {Max(r)}] + s[Max(r)]
  <2> SUFFICES ASSUME NEW r \in SUBSET (1 .. n), r # {}
               PROVE step[Max(r)][g[r \ {Max(r)}]] = g[r \ {Max(r)}] + s[Max(r)]
    OBVIOUS
  <2>1. Max(r) \in 1 .. n
    <3> HIDE DEF n
    <3> QED BY <1>1, MaxOf
  <2>2. g[r \ {Max(r)}] \in Nat BY <1>5
  <2> QED BY <2>1, <2>2
<1>7. Eqn(g) BY <1>5, <1>6 DEF FoldsSets
<1>8. Eqn(iter) BY <1>7
<1>11. SumOf(s) = iter[1 .. n]
  BY <1>1 DEF SumOf, FoldLeft, MapThenFoldSet
<1>12. (1 .. n) \in SUBSET (1 .. n) /\ {} \in SUBSET (1 .. n) OBVIOUS
<1>13. iter[{}] = 0 BY <1>8, <1>12
<1>14. ASSUME NEW r \in SUBSET (1 .. n), r # {}, iter[r \ {Max(r)}] \in Nat
       PROVE iter[r] = step[Max(r)][iter[r \ {Max(r)}]]
  <2>1. Max(r) \in 1 .. n
    <3> HIDE DEF n
    <3> QED BY <1>1, <1>14, MaxOf
  <2>2. iter[r] = iter[r \ {Max(r)}] + s[Max(r)] BY <1>8, <1>14, <2>1
  <2> QED BY <2>1, <2>2, <1>14
<1>20. FoldsTyped(iter, n, Nat, 0, step)
  <2> HIDE DEF n, step, iter
  <2> QED BY <1>13, <1>14 DEF FoldsTyped
<1>15. PICK b \in [0 .. n -> Nat] : Accumulates(b, n, 0, step) /\ b[n] = iter[1 .. n]
  <2> DEFINE base == 0
             N == Nat
  <2> base \in N OBVIOUS
  <2> HIDE DEF n, step, iter, base
  <2>1. FoldsTyped(iter, n, N, base, step) BY <1>20 DEF base
  <2>2. n \in Nat /\ step \in [1 .. n -> [N -> N]] BY <1>1, <1>4
  <2> HIDE DEF N
  <2>3. \E b \in [0 .. n -> N] : Accumulates(b, n, base, step) /\ b[n] = iter[1 .. n]
    BY <2>1, <2>2, FoldSteps
  <2> QED BY <2>3 DEF base, N
<1>17. ASSUME NEW k \in 1 .. n PROVE b[k] = b[k - 1] + s[k]
  <2> k - 1 \in 0 .. n BY <1>1
  <2> b[k - 1] \in Nat BY <1>15
  <2> QED BY <1>15 DEF Accumulates
<1> QED BY <1>11, <1>15, <1>17 DEF Accumulates, Sums

(* The row of sums has every prefix's sum.                                 *)
LEMMA PrefixSums ==
  ASSUME NEW s \in Seq(Nat)
  PROVE  \E b \in [0 .. Len(s) -> Nat] :
            /\ Sums(b, Len(s), s)
            /\ SumOf(s) = b[Len(s)]
            /\ \A k \in 0 .. Len(s) : SumOf(SubSeq(s, 1, k)) = b[k]
<1>1. PICK b \in [0 .. Len(s) -> Nat] : Sums(b, Len(s), s) /\ SumOf(s) = b[Len(s)] BY SumFold
<1>2. ASSUME NEW k \in 0 .. Len(s) PROVE SumOf(SubSeq(s, 1, k)) = b[k]
  <2> DEFINE p == SubSeq(s, 1, k)
  <2>1. p \in Seq(Nat) /\ Len(p) = k /\ \A j \in 1 .. k : p[j] = s[j] OBVIOUS
  <2> HIDE DEF p
  <2>2. PICK c \in [0 .. Len(p) -> Nat] : Sums(c, Len(p), p) /\ SumOf(p) = c[Len(p)]
    BY <2>1, SumFold
  <2> DEFINE T == {j \in 0 .. k : c[j] = b[j]}
  <2>3. T = 0 .. k
    <3>1. T \in SUBSET (0 .. k) /\ 0 \in T BY <1>1, <2>2 DEF Sums
    <3>2. ASSUME NEW j \in 1 .. k, j - 1 \in T PROVE j \in T
      <4>1. j \in 1 .. Len(s) /\ j \in 1 .. Len(p) /\ j \in 0 .. k BY <2>1
      <4>2. b[j] = b[j - 1] + s[j] BY <4>1, <1>1 DEF Sums
      <4>3. c[j] = c[j - 1] + p[j] BY <4>1, <2>2 DEF Sums
      <4> QED BY <4>1, <4>2, <4>3, <3>2, <2>1
    <3> HIDE DEF T
    <3> QED BY <3>1, <3>2, TurnInd, SMTT(30)
  <2>4. k \in T BY <2>3
  <2> QED BY <2>4, <2>1, <2>2 DEF p
<1> QED BY <1>1, <1>2

(* Two sequences, one after the other.                                     *)
LEMMA CatIs ==
  ASSUME NEW A, NEW x \in Seq(A), NEW y \in Seq(A)
  PROVE  /\ x \o y \in Seq(A) /\ Len(x \o y) = Len(x) + Len(y)
         /\ \A i \in 1 .. Len(x) : (x \o y)[i] = x[i]
         /\ \A i \in 1 .. Len(y) : (x \o y)[Len(x) + i] = y[i]
OBVIOUS

(* A sequence that reads as x and then y is their concatenation.           *)
LEMMA CatEquals ==
  ASSUME NEW A, NEW x \in Seq(A), NEW y \in Seq(A), NEW z \in Seq(A), Len(z) = Len(x) + Len(y),
         \A i \in 1 .. Len(x) : z[i] = x[i],
         \A i \in 1 .. Len(y) : z[Len(x) + i] = y[i]
  PROVE  x \o y = z
<1>1. x \o y \in Seq(A) /\ Len(x \o y) = Len(z) BY CatIs
<1>2. ASSUME NEW i \in 1 .. Len(z) PROVE (x \o y)[i] = z[i]
  <2>1. CASE i <= Len(x)
    <3> i \in 1 .. Len(x) BY <2>1
    <3> QED BY CatIs
  <2>2. CASE i > Len(x)
    <3> DEFINE j == i - Len(x)
    <3>1. j \in 1 .. Len(y) /\ Len(x) + j = i BY <2>2
    <3> HIDE DEF j
    <3>2. (x \o y)[Len(x) + j] = y[j] /\ z[Len(x) + j] = y[j] BY <3>1, CatIs
    <3> QED BY <3>1, <3>2
  <2> QED BY <2>1, <2>2
<1> QED BY <1>1, <1>2, SeqEqual

(* A part of a sequence.                                                   *)
LEMMA PartIs ==
  ASSUME NEW A, NEW x \in Seq(A), NEW l \in Nat, NEW m \in Nat, l + m <= Len(x)
  PROVE  /\ SubSeq(x, l + 1, l + m) \in Seq(A) /\ Len(SubSeq(x, l + 1, l + m)) = m
         /\ \A i \in 1 .. m : SubSeq(x, l + 1, l + m)[i] = x[l + i]
OBVIOUS

(* A sequence cut after its first m elements.                              *)
LEMMA PrefixIs ==
  ASSUME NEW A, NEW x \in Seq(A), NEW m \in 0 .. Len(x)
  PROVE  /\ SubSeq(x, 1, m) \in Seq(A) /\ Len(SubSeq(x, 1, m)) = m
         /\ \A i \in 1 .. m : SubSeq(x, 1, m)[i] = x[i]
OBVIOUS

(* Cutting two pieces one after the other at len bytes cuts their whole at *)
(* len.                                                                    *)
LEMMA CutConcat ==
  ASSUME NEW A, NEW x \in Seq(A), NEW y \in Seq(A), NEW len \in Nat
  PROVE  SubSeq(x, 1, Lesser(len, Len(x)))
           \o SubSeq(y, 1, IF Len(x) >= len THEN 0 ELSE Lesser(Len(y), len - Len(x)))
         = SubSeq(x \o y, 1, Lesser(len, Len(x) + Len(y)))
<1> DEFINE l == Lesser(len, Len(x))
           m == IF Len(x) >= len THEN 0 ELSE Lesser(Len(y), len - Len(x))
           n == Lesser(len, Len(x) + Len(y))
           xy == x \o y
           sx == SubSeq(x, 1, l)
           sy == SubSeq(y, 1, m)
           s == SubSeq(xy, 1, n)
<1>1. l \in 0 .. Len(x) /\ m \in 0 .. Len(y) /\ n \in 0 .. Len(x) + Len(y) BY DEF Lesser
<1>2. l + m = n /\ (m > 0 => l = Len(x))
  <2>1. ASSUME NEW a \in Nat, NEW b \in Nat
        PROVE LET mm == IF a >= len THEN 0 ELSE Lesser(b, len - a)
              IN Lesser(len, a) + mm = Lesser(len, a + b) /\ (mm > 0 => Lesser(len, a) = a)
    BY <2>1 DEF Lesser
  <2>2. Len(x) \in Nat /\ Len(y) \in Nat OBVIOUS
  <2> QED BY <2>1, <2>2
<1> HIDE DEF l, m, n
<1>3. xy \in Seq(A) /\ Len(xy) = Len(x) + Len(y)
      /\ (\A i \in 1 .. Len(x) : xy[i] = x[i]) /\ \A i \in 1 .. Len(y) : xy[Len(x) + i] = y[i]
  BY CatIs
<1> HIDE DEF xy
<1>4. sx \in Seq(A) /\ Len(sx) = l /\ \A i \in 1 .. l : sx[i] = x[i] BY <1>1, PrefixIs
<1>5. sy \in Seq(A) /\ Len(sy) = m /\ \A i \in 1 .. m : sy[i] = y[i] BY <1>1, PrefixIs
<1>6. s \in Seq(A) /\ Len(s) = n /\ \A i \in 1 .. n : s[i] = xy[i]
  <2> n \in 0 .. Len(xy) BY <1>1, <1>3
  <2> QED BY <1>3, PrefixIs
<1> HIDE DEF sx, sy, s
<1>7. \A i \in 1 .. l : s[i] = sx[i]
  <2> TAKE i \in 1 .. l
  <2> i \in 1 .. n /\ i \in 1 .. Len(x) BY <1>1, <1>2
  <2> QED BY <1>3, <1>4, <1>6
<1>8. \A i \in 1 .. m : s[l + i] = sy[i]
  <2> TAKE i \in 1 .. m
  <2> l + i \in 1 .. n /\ i \in 1 .. Len(y) /\ l = Len(x) BY <1>1, <1>2
  <2> QED BY <1>3, <1>5, <1>6
<1>9. sx \o sy = s
  <2>1. Len(s) = Len(sx) + Len(sy) BY <1>2, <1>4, <1>5, <1>6
  <2>2. \A i \in 1 .. Len(sx) : s[i] = sx[i] BY <1>4, <1>7
  <2>3. \A i \in 1 .. Len(sy) : s[Len(sx) + i] = sy[i] BY <1>4, <1>5, <1>8
  <2> QED BY <2>1, <2>2, <2>3, <1>4, <1>5, <1>6, CatEquals
<1> QED BY <1>9 DEF l, m, n, sx, sy, s, xy

(* The first n bytes of y, and then those of x.                            *)
Mixed(n, y, x) == [i \in 1 .. Len(x) |-> IF i <= n THEN y[i] ELSE x[i]]

(* The elements of a mixture: n from the buffer, the others as before.     *)
LEMMA MixedIs ==
  ASSUME NEW A, NEW x \in Seq(A), NEW y \in Seq(A), NEW n \in Nat, n <= Len(y)
  PROVE  /\ Mixed(n, y, x) \in Seq(A) /\ Len(Mixed(n, y, x)) = Len(x)
         /\ \A i \in 1 .. Len(x) : Mixed(n, y, x)[i] = IF i <= n THEN y[i] ELSE x[i]
<1>1. \A i \in 1 .. Len(x) : (IF i <= n THEN y[i] ELSE x[i]) \in A
  <2> TAKE i \in 1 .. Len(x)
  <2> i <= n => i \in 1 .. Len(y) OBVIOUS
  <2> QED OBVIOUS
<1> QED BY <1>1 DEF Mixed

(* Copying n elements of a buffer over a piece makes such a mixture.       *)
LEMMA OverMixed ==
  ASSUME NEW A, NEW x \in Seq(A), NEW y \in Seq(A), NEW n \in Nat, n <= Len(y), n <= Len(x)
  PROVE  Over(SubSeq(y, 1, n), x) = Mixed(n, y, x)
<1> DEFINE p == SubSeq(y, 1, n)
           r == SubSeq(x, n + 1, Len(x))
           z == Mixed(n, y, x)
<1>1. p \in Seq(A) /\ Len(p) = n /\ \A i \in 1 .. n : p[i] = y[i]
  <2> n \in 0 .. Len(y) OBVIOUS
  <2> QED BY PrefixIs
<1>2. r \in Seq(A) /\ Len(r) = Len(x) - n /\ \A i \in 1 .. Len(x) - n : r[i] = x[n + i]
  <2> DEFINE d == Len(x) - n
  <2>1. d \in Nat /\ n + d = Len(x) OBVIOUS
  <2> HIDE DEF d
  <2>2. n + d <= Len(x) BY <2>1
  <2>3. SubSeq(x, n + 1, n + d) \in Seq(A) /\ Len(SubSeq(x, n + 1, n + d)) = d
        /\ \A i \in 1 .. d : SubSeq(x, n + 1, n + d)[i] = x[n + i] BY <2>1, <2>2, PartIs
  <2>4. r = SubSeq(x, n + 1, n + d) BY <2>1
  <2> HIDE DEF r
  <2> QED BY <2>3, <2>4 DEF d
<1>3. z \in Seq(A) /\ Len(z) = Len(x)
      /\ \A i \in 1 .. Len(x) : z[i] = IF i <= n THEN y[i] ELSE x[i] BY MixedIs
<1>4. Over(p, x) = p \o r BY <1>1 DEF Over
<1> HIDE DEF p, r, z
<1>5. \A i \in 1 .. Len(p) : z[i] = p[i] BY <1>1, <1>3
<1>6. \A i \in 1 .. Len(r) : z[Len(p) + i] = r[i] BY <1>1, <1>2, <1>3
<1>7. p \o r = z
  <2> Len(z) = Len(p) + Len(r) BY <1>1, <1>2, <1>3
  <2> QED BY <1>1, <1>2, <1>3, <1>5, <1>6, CatEquals
<1> QED BY <1>4, <1>7 DEF p, z

(* Of a buffer with at least n bytes p are taken from place q on, where x   *)
(* is what was filled before and y what shall be: as many as it has place  *)
(* for, up to n in all.                                                    *)
Taken(A, x, y, buf, n, p, q) ==
    /\ x \in Seq(A) /\ y \in Seq(A) /\ buf \in Seq(A)
    /\ n \in Nat /\ n <= Len(buf) /\ p \in Nat /\ q \in Nat
    /\ IF Len(x) >= n THEN p = 0 /\ q = n ELSE p = Lesser(Len(y), n - Len(x)) /\ q = Len(x)

(* Pieces of a buffer copied over two pieces mix the buffer into their     *)
(* whole.                                                                  *)
LEMMA MixedConcat ==
  ASSUME NEW A, NEW x, NEW y, NEW buf, NEW n, NEW p, NEW q, Taken(A, x, y, buf, n, p, q)
  PROVE  Mixed(Lesser(n, Len(x)), buf, x) \o Over(SubSeq(buf, q + 1, q + p), y)
         = Mixed(Lesser(n, Len(x) + Len(y)), buf, x \o y)
<1> DEFINE b == SubSeq(buf, q + 1, q + p)
           xy == x \o y
           l == Mixed(Lesser(n, Len(x)), buf, x)
           m == Mixed(p, b, y)
           nn == Lesser(n, Len(x) + Len(y))
           r == Mixed(nn, buf, xy)
<1>20. x \in Seq(A) /\ y \in Seq(A) /\ buf \in Seq(A) BY DEF Taken
<1>21. /\ n \in Nat /\ n <= Len(buf) /\ p \in Nat /\ q \in Nat /\ Len(x) \in Nat /\ Len(y) \in Nat
       /\ IF Len(x) >= n THEN p = 0 /\ q = n ELSE p = Lesser(Len(y), n - Len(x)) /\ q = Len(x)
  BY <1>20 DEF Taken
<1>1. p <= Len(y) /\ q + p <= Len(buf) BY <1>21 DEF Lesser
<1>2. b \in Seq(A) /\ Len(b) = p /\ \A i \in 1 .. p : b[i] = buf[q + i] BY <1>1, <1>20, <1>21, PartIs
<1> HIDE DEF b
<1>3. SubSeq(b, 1, p) = b BY <1>2
<1>4. Over(b, y) = m
  <2> Over(SubSeq(b, 1, p), y) = Mixed(p, b, y) BY <1>1, <1>2, <1>20, <1>21, OverMixed
  <2> QED BY <1>3
<1>5. xy \in Seq(A) /\ Len(xy) = Len(x) + Len(y)
      /\ (\A i \in 1 .. Len(x) : xy[i] = x[i]) /\ \A i \in 1 .. Len(y) : xy[Len(x) + i] = y[i]
  BY <1>20, CatIs
<1> HIDE DEF xy
<1>6. l \in Seq(A) /\ Len(l) = Len(x)
      /\ \A i \in 1 .. Len(x) : l[i] = IF i <= Lesser(n, Len(x)) THEN buf[i] ELSE x[i]
  <2> DEFINE g == Lesser(n, Len(x))
  <2>1. g \in Nat /\ g <= Len(buf) BY <1>21 DEF Lesser
  <2> HIDE DEF g
  <2>2. /\ Mixed(g, buf, x) \in Seq(A) /\ Len(Mixed(g, buf, x)) = Len(x)
        /\ \A i \in 1 .. Len(x) : Mixed(g, buf, x)[i] = IF i <= g THEN buf[i] ELSE x[i]
    BY <1>20, <2>1, MixedIs
  <2> QED BY <2>2 DEF g
<1>7. m \in Seq(A) /\ Len(m) = Len(y)
      /\ \A i \in 1 .. Len(y) : m[i] = IF i <= p THEN b[i] ELSE y[i]
  <2> p <= Len(b) BY <1>2
  <2> QED BY <1>2, <1>20, <1>21, MixedIs
<1>0. nn \in Nat /\ nn <= Len(buf) BY <1>21 DEF Lesser
<1>10. \A i \in 1 .. Len(x) : i <= Lesser(n, Len(x)) <=> i <= nn BY <1>21 DEF Lesser
<1>11. \A i \in 1 .. Len(y) : /\ i <= p <=> Len(x) + i <= nn
                              /\ i <= p => q = Len(x) BY <1>21 DEF Lesser
<1> HIDE DEF nn
<1>8. r \in Seq(A) /\ Len(r) = Len(xy)
      /\ \A i \in 1 .. Len(xy) : r[i] = IF i <= nn THEN buf[i] ELSE xy[i]
  <2> HIDE DEF r
  <2>1. xy \in Seq(A) BY <1>5
  <2>2. /\ Mixed(nn, buf, xy) \in Seq(A) /\ Len(Mixed(nn, buf, xy)) = Len(xy)
        /\ \A i \in 1 .. Len(xy) : Mixed(nn, buf, xy)[i] = IF i <= nn THEN buf[i] ELSE xy[i]
    BY <2>1, <1>0, <1>20, MixedIs
  <2> QED BY <2>2 DEF r
<1> HIDE DEF l, m, r
<1>12. \A i \in 1 .. Len(x) : r[i] = l[i]
  <2> TAKE i \in 1 .. Len(x)
  <2> i \in 1 .. Len(xy) BY <1>5
  <2> QED BY <1>5, <1>6, <1>8, <1>10
<1>13. \A i \in 1 .. Len(y) : r[Len(x) + i] = m[i]
  <2> TAKE i \in 1 .. Len(y)
  <2>1. Len(x) + i \in 1 .. Len(xy) BY <1>5
  <2>2. r[Len(x) + i] = IF Len(x) + i <= nn THEN buf[Len(x) + i] ELSE xy[Len(x) + i] BY <2>1, <1>8
  <2>3. ASSUME i <= p PROVE b[i] = buf[Len(x) + i]
    <3>1. q = Len(x) BY <1>11, <2>3
    <3>2. i \in 1 .. p BY <2>3
    <3>3. b[i] = buf[q + i] BY <1>2, <3>2
    <3> QED BY <3>1, <3>3
  <2> QED BY <2>2, <2>3, <1>5, <1>7, <1>11
<1>9. l \o m = r
  <2>1. Len(r) = Len(l) + Len(m) BY <1>5, <1>6, <1>7, <1>8
  <2>2. \A i \in 1 .. Len(l) : r[i] = l[i] BY <1>6, <1>12
  <2>3. \A i \in 1 .. Len(m) : r[Len(l) + i] = m[i] BY <1>6, <1>7, <1>13
  <2> QED BY <2>1, <2>2, <2>3, <1>6, <1>7, <1>8, CatEquals
<1> QED BY <1>9, <1>4 DEF l, m, r, b, nn, xy

(***************************************************************************)
(* USB transfers: what the pieces of the scatter list carry (UsbBuffers).  *)
(***************************************************************************)

(* Bytes are named by two numbers.                                         *)
Byte == Nat \X Nat

(* The bytes of the fragments, with the rows b of the sums of their lengths*)
(* and u of what is joined.                                                *)
LaidOut(b, u) ==
    /\ b \in [0 .. Len(frags) -> Nat] /\ u \in [0 .. Len(frags) -> Seq(Byte)]
    /\ Sums(b, Len(frags), frags)
    /\ Concats(u, Len(frags), [k \in DOMAIN frags |-> FragBytes(k)])
    /\ \A k \in 0 .. Len(frags) : SumOf(SubSeq(frags, 1, k)) = b[k] /\ Len(u[k]) = b[k]
    /\ Total = b[Len(frags)] /\ UrbBytes = u[Len(frags)]

(* The bytes of a fragment are as many as its length.                      *)
LEMMA FragBytesIs ==
  ASSUME frags \in Seq(Nat), NEW k \in 1 .. Len(frags)
  PROVE  FragBytes(k) \in Seq(Byte) /\ Len(FragBytes(k)) = frags[k]
         /\ FragBytes(k) = [j \in 1 .. frags[k] |-> <<k, j>>]
<1>1. frags[k] \in Nat /\ k \in Nat OBVIOUS
<1>2. \A j \in 1 .. frags[k] : <<k, j>> \in Byte BY <1>1 DEF Byte
<1> QED BY <1>1, <1>2 DEF FragBytes

(* The fragments of a URB have a layout: sums of lengths, whole so far.    *)
LEMMA UrbLaidOut ==
  ASSUME frags \in Seq(Nat) PROVE \E b, u : LaidOut(b, u)
<1> DEFINE n == Len(frags)
           parts == [k \in DOMAIN frags |-> FragBytes(k)]
<1>1. n \in Nat /\ DOMAIN frags = 1 .. n OBVIOUS
<1>2. parts \in [1 .. n -> Seq(Byte)] BY FragBytesIs
<1>3. PICK b \in [0 .. n -> Nat] :
            /\ Sums(b, n, frags) /\ SumOf(frags) = b[n]
            /\ \A k \in 0 .. n : SumOf(SubSeq(frags, 1, k)) = b[k]
  BY PrefixSums
<1>4. PICK u \in [0 .. n -> Seq(Byte)] : Concats(u, n, parts) /\ FlattenSeq(parts) = u[n]
  <2> HIDE DEF n, parts
  <2> QED BY <1>1, <1>2, FlattenSteps
<1>5. ASSUME NEW k \in 0 .. n PROVE Len(u[k]) = b[k]
  <2> DEFINE T == {j \in 0 .. n : Len(u[j]) = b[j]}
  <2>1. T \in SUBSET (0 .. n) /\ 0 \in T BY <1>3, <1>4 DEF Sums, Concats
  <2>2. ASSUME NEW j \in 1 .. n, j - 1 \in T PROVE j \in T
    <3>1. b[j] = b[j - 1] + frags[j] BY <1>3 DEF Sums
    <3>0. parts[j] = FragBytes(j) BY <1>1
    <3>2. u[j] = u[j - 1] \o FragBytes(j)
      <4> HIDE DEF parts
      <4> QED BY <3>0, <1>4 DEF Concats
    <3>3. Len(FragBytes(j)) = frags[j] /\ FragBytes(j) \in Seq(Byte) BY FragBytesIs
    <3>4. j - 1 \in 0 .. n /\ j \in 0 .. n OBVIOUS
    <3>5. u[j - 1] \in Seq(Byte) BY <3>4
    <3>6. Len(u[j]) = Len(u[j - 1]) + frags[j] BY <3>2, <3>3, <3>5, CatIs
    <3>7. Len(u[j - 1]) = b[j - 1] BY <2>2
    <3> QED BY <3>1, <3>4, <3>6, <3>7
  <2>3. T = 0 .. n
    <3> HIDE DEF T, n
    <3> QED BY <1>1, <2>1, <2>2, TurnInd
  <2> QED BY <2>3
<1>6. LaidOut(b, u) BY <1>3, <1>4, <1>5 DEF LaidOut, Total, UrbBytes
<1> QED BY <1>6

(* What is taken of a fragment, and what was copied before it.             *)
LEMMA PiecesAre ==
  ASSUME frags \in Seq(Nat), NEW b, NEW u, LaidOut(b, u), NEW k \in 1 .. Len(frags), NEW len \in Nat
  PROVE  /\ Pieces(len)[k][1] = IF b[k - 1] >= len THEN 0 ELSE Lesser(frags[k], len - b[k - 1])
         /\ Pieces(len)[k][2] = IF b[k - 1] >= len THEN len ELSE b[k - 1]
         /\ b[k - 1] \in Nat /\ frags[k] \in Nat /\ b[k] = b[k - 1] + frags[k]
<1>1. k - 1 \in 0 .. Len(frags) /\ k \in DOMAIN frags OBVIOUS
<1>2. SumOf(SubSeq(frags, 1, k - 1)) = b[k - 1] BY <1>1 DEF LaidOut
<1>3. b[k - 1] \in Nat /\ frags[k] \in Nat BY <1>1 DEF LaidOut
<1>4. Pieces(len)[k] = IF b[k - 1] >= len THEN <<0, len>>
                       ELSE <<Lesser(frags[k], len - b[k - 1]), b[k - 1]>>
  BY <1>1, <1>2 DEF Pieces
<1>5. b[k] = b[k - 1] + frags[k] BY DEF LaidOut, Sums
<1> QED BY <1>3, <1>4, <1>5

(* The copy from the URB is the front part of its bytes.                   *)
LEMMA CopyFromIs ==
  ASSUME frags \in Seq(Nat), NEW len \in 0 .. Total
  PROVE  /\ UrbBytes \in Seq(Byte) /\ Len(UrbBytes) = Total /\ Total \in Nat
         /\ SgCopyFrom(len) = SubSeq(UrbBytes, 1, len)
<1> DEFINE n == Len(frags)
           parts == [k \in DOMAIN frags |-> SubSeq(FragBytes(k), 1, Pieces(len)[k][1])]
<1>0. n \in Nat /\ DOMAIN frags = 1 .. n OBVIOUS
<1>1. PICK b, u : LaidOut(b, u) BY UrbLaidOut
<1>9. n \in 0 .. n BY <1>0
<1>2. UrbBytes \in Seq(Byte) /\ Len(UrbBytes) = Total /\ Total \in Nat /\ Total = b[n]
      /\ UrbBytes = u[n]
  BY <1>1, <1>9 DEF LaidOut
<1>10. len \in Nat BY <1>2
<1>3. parts \in [1 .. n -> Seq(Byte)]
  <2> SUFFICES ASSUME NEW k \in 1 .. n
               PROVE SubSeq(FragBytes(k), 1, Pieces(len)[k][1]) \in Seq(Byte) BY <1>0
  <2> DEFINE p == Pieces(len)[k][1]
  <2>3. p = (IF b[k - 1] >= len THEN 0 ELSE Lesser(frags[k], len - b[k - 1]))
        /\ b[k - 1] \in Nat /\ frags[k] \in Nat BY <1>1, <1>10, PiecesAre
  <2> HIDE DEF p
  <2>4. p \in 0 .. frags[k] BY <2>3, <1>10 DEF Lesser
  <2>1. Pieces(len)[k][1] \in 0 .. frags[k] BY <2>4 DEF p
  <2>2. FragBytes(k) \in Seq(Byte) /\ Len(FragBytes(k)) = frags[k] BY FragBytesIs
  <2> QED BY <2>1, <2>2, PrefixIs
<1>4. PICK c \in [0 .. n -> Seq(Byte)] : Concats(c, n, parts) /\ FlattenSeq(parts) = c[n]
  <2> HIDE DEF n, parts
  <2> QED BY <1>0, <1>3, FlattenSteps
<1> DEFINE T == {k \in 0 .. n : c[k] = SubSeq(u[k], 1, Lesser(len, b[k]))}
<1>5. 0 \in T
  <2> c[0] = <<>> /\ u[0] = <<>> /\ b[0] = 0 BY <1>1, <1>4 DEF LaidOut, Concats, Sums
  <2>1. Lesser(len, 0) = 0 BY <1>10 DEF Lesser
  <2>2. SubSeq(<<>>, 1, 0) = <<>> OBVIOUS
  <2>3. 0 \in 0 .. n BY <1>0
  <2> QED BY <2>1, <2>2, <2>3
<1>6. ASSUME NEW k \in 1 .. n, k - 1 \in T PROVE k \in T
  <2> DEFINE x == u[k - 1]
             y == FragBytes(k)
             m == IF Len(x) >= len THEN 0 ELSE Lesser(Len(y), len - Len(x))
  <2>0. k - 1 \in 0 .. n /\ k \in 0 .. n OBVIOUS
  <2>1. x \in Seq(Byte) /\ Len(x) = b[k - 1] BY <1>1, <2>0 DEF LaidOut
  <2>2. y \in Seq(Byte) /\ Len(y) = frags[k] BY FragBytesIs
  <2>3. u[k] = x \o y BY <1>1, <1>0 DEF LaidOut, Concats
  <2>9. Pieces(len)[k][1] = m BY <1>1, <1>10, <2>1, <2>2, PiecesAre
  <2>4. parts[k] = SubSeq(y, 1, m)
    <3> parts[k] = SubSeq(y, 1, Pieces(len)[k][1]) BY <1>0
    <3> HIDE DEF y, m, parts
    <3> QED BY <2>9
  <2>5. c[k] = c[k - 1] \o parts[k] BY <1>4 DEF Concats
  <2>6. c[k - 1] = SubSeq(x, 1, Lesser(len, Len(x))) BY <1>6, <2>1
  <2>7. b[k] = Len(x) + Len(y) BY <1>1, <1>10, <2>1, <2>2, PiecesAre
  <2> HIDE DEF x, y, parts
  <2>8. c[k] = SubSeq(x \o y, 1, Lesser(len, Len(x) + Len(y)))
    BY <1>10, <2>1, <2>2, <2>4, <2>5, <2>6, CutConcat
  <2> QED BY <2>0, <2>3, <2>7, <2>8
<1>7. T = 0 .. n
  <2>1. T \in SUBSET (0 .. n) OBVIOUS
  <2> HIDE DEF T, n
  <2> QED BY <1>0, <1>5, <1>6, <2>1, TurnInd
<1>8. c[n] = SubSeq(u[n], 1, Lesser(len, b[n])) BY <1>7, <1>9
<1>11. Lesser(len, b[n]) = len BY <1>2, <1>10 DEF Lesser
<1>12. SgCopyFrom(len) = FlattenSeq(parts) BY DEF SgCopyFrom
<1> HIDE DEF n, parts
<1> QED BY <1>2, <1>4, <1>8, <1>11, <1>12

(* The copy to the URB puts the front part of the buffer before the rest of*)
(* its bytes.                                                              *)
LEMMA CopyToIs ==
  ASSUME frags \in Seq(Nat), NEW len \in 0 .. Total, NEW buf \in Seq(Byte), len <= Len(buf)
  PROVE  FlattenSeq(SgCopyTo(buf, len)) = Over(SubSeq(buf, 1, len), UrbBytes)
<1> DEFINE n == Len(frags)
           part(k) == Over(SubSeq(buf, Pieces(len)[k][2] + 1, Pieces(len)[k][2] + Pieces(len)[k][1]),
                           FragBytes(k))
           parts == [k \in DOMAIN frags |-> part(k)]
<1>0. n \in Nat /\ DOMAIN frags = 1 .. n OBVIOUS
<1>1. PICK b, u : LaidOut(b, u) BY UrbLaidOut
<1>9. n \in 0 .. n BY <1>0
<1>2. UrbBytes \in Seq(Byte) /\ Len(UrbBytes) = Total /\ Total \in Nat /\ Total = b[n]
      /\ UrbBytes = u[n]
  BY <1>1, <1>9 DEF LaidOut
<1>10. len \in Nat BY <1>2
<1>13. ASSUME NEW k \in 1 .. n
       PROVE /\ Pieces(len)[k][1] \in 0 .. frags[k] /\ Pieces(len)[k][2] \in Nat
             /\ Pieces(len)[k][2] + Pieces(len)[k][1] <= Len(buf)
             /\ IF b[k - 1] >= len THEN Pieces(len)[k][1] = 0 /\ Pieces(len)[k][2] = len
                ELSE Pieces(len)[k][1] = Lesser(frags[k], len - b[k - 1]) /\ Pieces(len)[k][2] = b[k - 1]
  BY <1>1, <1>10, PiecesAre, SMTT(30) DEF Lesser
<1>3. parts \in [1 .. n -> Seq(Byte)]
  <2> SUFFICES ASSUME NEW k \in 1 .. n PROVE part(k) \in Seq(Byte) BY <1>0
  <2> DEFINE p == Pieces(len)[k][1]
             q == Pieces(len)[k][2]
             s == SubSeq(buf, q + 1, q + p)
             y == FragBytes(k)
  <2>1. p \in 0 .. frags[k] /\ p \in Nat /\ q \in Nat /\ q + p <= Len(buf) BY <1>13
  <2>2. y \in Seq(Byte) /\ Len(y) = frags[k] BY FragBytesIs
  <2> HIDE DEF p, q, y
  <2>3. s \in Seq(Byte) /\ Len(s) = p BY <2>1, PartIs
  <2> HIDE DEF s
  <2>4. SubSeq(s, 1, p) = s BY <2>3
  <2>5. p <= Len(s) /\ p <= Len(y) BY <2>1, <2>2, <2>3
  <2>8. Over(SubSeq(s, 1, p), y) = Mixed(p, s, y) BY <2>1, <2>2, <2>3, <2>5, OverMixed
  <2>6. Over(SubSeq(s, 1, p), y) = Mixed(p, s, y) /\ Mixed(p, s, y) \in Seq(Byte)
    BY <2>1, <2>2, <2>3, <2>5, <2>8, MixedIs
  <2>7. Over(s, y) \in Seq(Byte) BY <2>4, <2>6
  <2> QED BY <2>7 DEF p, q, s, y
<1>4. PICK c \in [0 .. n -> Seq(Byte)] : Concats(c, n, parts) /\ FlattenSeq(parts) = c[n]
  <2> HIDE DEF n, parts
  <2> QED BY <1>0, <1>3, FlattenSteps
<1> DEFINE T == {k \in 0 .. n : c[k] = Mixed(Lesser(len, b[k]), buf, u[k])}
<1>5. 0 \in T
  <2> c[0] = <<>> /\ u[0] = <<>> /\ b[0] = 0 BY <1>1, <1>4 DEF LaidOut, Concats, Sums
  <2> Mixed(Lesser(len, 0), buf, <<>>) = <<>> BY DEF Mixed
  <2> QED BY <1>0
<1>6. ASSUME NEW k \in 1 .. n, k - 1 \in T PROVE k \in T
  <2> DEFINE x == u[k - 1]
             y == FragBytes(k)
             p == Pieces(len)[k][1]
             q == Pieces(len)[k][2]
  <2>0. k - 1 \in 0 .. n /\ k \in 0 .. n OBVIOUS
  <2>1. x \in Seq(Byte) /\ Len(x) = b[k - 1] BY <1>1, <2>0 DEF LaidOut
  <2>2. y \in Seq(Byte) /\ Len(y) = frags[k] BY FragBytesIs
  <2>3. u[k] = x \o y BY <1>1, <1>0 DEF LaidOut, Concats
  <2>4. parts[k] = Over(SubSeq(buf, q + 1, q + p), y) BY <1>0
  <2>5. c[k] = c[k - 1] \o parts[k] BY <1>4 DEF Concats
  <2>6. c[k - 1] = Mixed(Lesser(len, Len(x)), buf, x) BY <1>6, <2>1
  <2>7. b[k] = Len(x) + Len(y) BY <1>1, <1>10, <2>1, <2>2, PiecesAre
  <2>9. p \in Nat /\ q \in Nat
        /\ IF Len(x) >= len THEN p = 0 /\ q = len
           ELSE p = Lesser(Len(y), len - Len(x)) /\ q = Len(x)
    BY <1>13, <2>1, <2>2
  <2> HIDE DEF x, y, p, q, parts
  <2>11. Mixed(Lesser(len, Len(x)), buf, x) \o Over(SubSeq(buf, q + 1, q + p), y)
         = Mixed(Lesser(len, Len(x) + Len(y)), buf, x \o y)
    <3>1. Taken(Byte, x, y, buf, len, p, q) BY <1>10, <2>1, <2>2, <2>9 DEF Taken
    <3> QED BY <3>1, MixedConcat
  <2>8. c[k] = Mixed(Lesser(len, Len(x) + Len(y)), buf, x \o y) BY <2>4, <2>5, <2>6, <2>11
  <2> QED BY <2>0, <2>3, <2>7, <2>8
<1>7. T = 0 .. n
  <2>1. T \in SUBSET (0 .. n) OBVIOUS
  <2> HIDE DEF T, n
  <2> QED BY <1>0, <1>5, <1>6, <2>1, TurnInd
<1>8. c[n] = Mixed(Lesser(len, b[n]), buf, u[n]) BY <1>7, <1>9
<1>11. Lesser(len, b[n]) = len BY <1>2, <1>10 DEF Lesser
<1>12. SgCopyTo(buf, len) = parts BY DEF SgCopyTo
<1>14. Over(SubSeq(buf, 1, len), UrbBytes) = Mixed(len, buf, UrbBytes)
  <2> len <= Len(UrbBytes) BY <1>2
  <2> QED BY <1>2, <1>10, OverMixed
<1> HIDE DEF n, parts
<1> QED BY <1>2, <1>4, <1>8, <1>11, <1>12, <1>14

(* Types, as far as what arrives depends on them.                          *)
BufferTypeOK ==
    /\ frags \in Seq(Nat) /\ tlen \in Int /\ dirIn \in BOOLEAN
    /\ sgbuf \in Seq(Byte)
    /\ slen \in Nat

(* No transfer is longer than the fragments it is made of.                 *)
Fits == ustate = "submitted" /\ IsSg => slen <= Total

BufferInv == BufferTypeOK /\ Fits /\ BytesArrive

(* The bounce buffer is grown to what a transfer needs.                    *)
LEMMA GrownIs ==
  ASSUME sgbuf \in Seq(Byte), NEW len \in Nat
  PROVE  Grown(len) \in Seq(Byte) /\ Len(Grown(len)) >= len /\ Len(Grown(len)) \in Nat
<1>1. CASE len <= Len(sgbuf) BY <1>1 DEF Grown
<1>2. CASE len > Len(sgbuf)
  <2> DEFINE d == len - Len(sgbuf)
             e == [j \in 1 .. d |-> Fresh]
  <2>1. d \in Nat /\ Len(sgbuf) + d = len BY <1>2
  <2>2. Fresh \in Byte BY DEF Fresh, Byte
  <2> HIDE DEF d
  <2>3. e \in Seq(Byte) /\ Len(e) = d BY <2>1, <2>2
  <2> HIDE DEF e
  <2>4. Grown(len) = sgbuf \o e BY <1>2 DEF Grown, d, e
  <2>5. sgbuf \o e \in Seq(Byte) /\ Len(sgbuf \o e) = len BY <2>1, <2>3, CatIs
  <2> QED BY <2>4, <2>5
<1> QED BY <1>1, <1>2

(* Bytes written over the front of a buffer that has room for them.        *)
LEMMA OverIs ==
  ASSUME NEW A, NEW x \in Seq(A), NEW y \in Seq(A), Len(x) <= Len(y)
  PROVE  Over(x, y) \in Seq(A) /\ Len(Over(x, y)) = Len(y) /\ SubSeq(Over(x, y), 1, Len(x)) = x
<1> DEFINE m == Mixed(Len(x), x, y)
<1>1. SubSeq(x, 1, Len(x)) = x OBVIOUS
<1>2. Len(x) \in Nat /\ Len(x) <= Len(x) OBVIOUS
<1>3. Over(SubSeq(x, 1, Len(x)), y) = m BY <1>2, OverMixed
<1>4. m \in Seq(A) /\ Len(m) = Len(y) /\ \A i \in 1 .. Len(y) : m[i] = IF i <= Len(x) THEN x[i] ELSE y[i]
  BY <1>2, MixedIs
<1> HIDE DEF m
<1>5. SubSeq(m, 1, Len(x)) \in Seq(A) /\ Len(SubSeq(m, 1, Len(x))) = Len(x)
      /\ \A i \in 1 .. Len(x) : SubSeq(m, 1, Len(x))[i] = m[i]
  <2> Len(x) \in 0 .. Len(m) BY <1>4
  <2> QED BY <1>4, PrefixIs
<1>6. \A i \in 1 .. Len(x) : SubSeq(m, 1, Len(x))[i] = x[i] BY <1>4, <1>5
<1>7. SubSeq(m, 1, Len(x)) = x BY <1>5, <1>6, SeqEqual
<1> QED BY <1>1, <1>3, <1>4, <1>7

(* The first bytes of the device.                                          *)
LEMMA FirstBytesAre ==
  ASSUME NEW n \in Nat
  PROVE  FirstBytes(n) \in Seq(Byte) /\ Len(FirstBytes(n)) = n
<1> \A j \in 1 .. n : <<0, j>> \in Byte BY DEF Byte
<1> QED BY DEF FirstBytes

(* Submitting a URB keeps the invariant: what it sends are the bytes its   *)
(* fragments hold, cut at the length of the transfer.                      *)
LEMMA SubmitKeeps ==
  ASSUME BufferInv, SubmitBuffer PROVE BufferInv'
<1> DEFINE len == DataLen
           grown == Grown(len)
           front == SgCopyFrom(len)
           buf == IF dirIn THEN grown ELSE Over(front, grown)
<1> USE DEF BufferInv, BufferTypeOK
<1>0. Total \in Nat
  <2> PICK b, u : LaidOut(b, u) BY UrbLaidOut
  <2> Len(frags) \in 0 .. Len(frags) OBVIOUS
  <2> QED BY DEF LaidOut
<1>1. CASE ustate' = "idle" /\ sgbuf' = sgbuf
  <2>1. DataLen \in Int BY <1>0 DEF DataLen
  <2>2. slen' \in Nat BY <2>1 DEF SubmitBuffer
  <2>3. UNCHANGED <<frags, tlen, dirIn, sync>> BY DEF SubmitBuffer
  <2> QED BY <1>1, <2>2, <2>3 DEF BytesArrive, Fits
<1>2. CASE /\ len >= 0 /\ slen' = len
           /\ sgbuf' = IF IsSg THEN buf ELSE sgbuf
           /\ \/ ustate' = "submitted" /\ SubmitNativeUrb(buf, len)
              \/ ustate' = "idle"
  <2>1. /\ len >= 0 /\ slen' = len
        /\ sgbuf' = (IF IsSg THEN buf ELSE sgbuf)
        /\ ustate' \in {"submitted", "idle"}
        /\ ustate' = "submitted" => SubmitNativeUrb(buf, len)
        /\ UNCHANGED <<frags, tlen, dirIn, answer, sync>>
    BY <1>2 DEF SubmitBuffer
  <2>2. IsSg' = IsSg /\ UrbBytes' = UrbBytes BY <2>1 DEF IsSg, UrbBytes, FragBytes
  <2>3. CASE ~IsSg
    <3>1. len \in Nat BY <2>1, <2>3 DEF DataLen
    <3> HIDE DEF len, buf
    <3> QED BY <2>1, <2>2, <2>3, <3>1 DEF BytesArrive, Fits, SubmitNativeUrb
  <2>4. CASE IsSg
    <3>0. Total' = Total BY <2>1 DEF Total
    <3>1. len \in 0 .. Total /\ len \in Nat BY <1>0, <2>1, <2>4 DEF DataLen
    <3> HIDE DEF len
    <3>2. UrbBytes \in Seq(Byte) /\ Len(UrbBytes) = Total /\ front = SubSeq(UrbBytes, 1, len)
      BY <3>1, CopyFromIs
    <3>3. front \in Seq(Byte) /\ Len(front) = len
      <4> len \in 0 .. Len(UrbBytes) BY <3>1, <3>2
      <4> QED BY <3>2, PrefixIs
    <3>4. grown \in Seq(Byte) /\ Len(grown) >= len /\ Len(grown) \in Nat BY <3>1, GrownIs
    <3> HIDE DEF front, grown
    <3>5. Over(front, grown) \in Seq(Byte) /\ Len(Over(front, grown)) = Len(grown)
          /\ SubSeq(Over(front, grown), 1, len) = front
      <4> Len(front) <= Len(grown) BY <3>3, <3>4
      <4> QED BY <3>3, <3>4, OverIs
    <3>6. buf \in Seq(Byte) /\ Len(buf) >= len /\ (~dirIn => SubSeq(buf, 1, len) = front)
      BY <3>4, <3>5
    <3> HIDE DEF buf
    <3>7. ustate' = "submitted" /\ ~dirIn => wire' = SubSeq(UrbBytes, 1, len) BY <2>1, <2>4, <3>2, <3>6 DEF SubmitNativeUrb
    <3>8. Fits' BY <2>1, <3>0, <3>1 DEF Fits
    <3> QED BY <2>1, <2>2, <2>4, <3>1, <3>6, <3>7, <3>8 DEF BytesArrive
  <2> QED BY <2>3, <2>4
<1> QED BY <1>1, <1>2 DEF SubmitBuffer

(* The concatenation of one sequence is that sequence.                     *)
LEMMA FlattenOne ==
  ASSUME NEW A, NEW x \in Seq(A) PROVE FlattenSeq(<<x>>) = x
<1> DEFINE parts == <<x>>
<1>1. parts \in [1 .. 1 -> Seq(A)] /\ parts[1] = x OBVIOUS
<1>2. PICK acc \in [0 .. 1 -> Seq(A)] : Concats(acc, 1, parts) /\ FlattenSeq(parts) = acc[1]
  <2> HIDE DEF parts
  <2> QED BY <1>1, FlattenSteps
<1>3. acc[1] = <<>> \o parts[1] /\ acc[0] = <<>> 
  <2> 1 \in 1 .. 1 /\ 1 - 1 = 0 OBVIOUS
  <2> HIDE DEF parts
  <2> QED BY <1>2 DEF Concats
<1> QED BY <1>1, <1>2, <1>3

(* Completing a URB keeps the invariant: what the driver reads are the     *)
(* bytes that arrived, over what the fragments held.                       *)
LEMMA CompleteKeeps ==
  ASSUME BufferInv, NEW event \in NativeEvents, NEW n \in 0 .. slen + 1, CompleteBuffer(event, n)
  PROVE  BufferInv'
<1> USE DEF BufferInv, BufferTypeOK
<1> DEFINE r == Clamped(UrbStatus(event), n)
           wrote == FirstBytes(Lesser(n, slen))
           buf == IF dirIn /\ IsSg THEN Over(wrote, sgbuf) ELSE sgbuf
           copied == r[1] = 0 /\ dirIn /\ r[2] > 0
<1>1. /\ ustate = "submitted" /\ ustate' = "done"
      /\ sgbuf' = buf
      /\ answer' = [status |-> IF copied /\ IsSg /\ Total < r[2] THEN -22 ELSE r[1],
                  actual |-> r[2],
                  bytes |-> IF ~IsSg THEN IF dirIn THEN <<wrote>> ELSE <<>>
                            ELSE IF copied THEN SgCopyTo(buf, r[2])
                            ELSE [k \in DOMAIN frags |-> FragBytes(k)]]
      /\ UNCHANGED <<frags, tlen, dirIn, slen, wire, uses, sync>>
  BY DEF CompleteBuffer, FirstBytes
<1>2. n \in Nat /\ slen \in Nat OBVIOUS
<1>3. Lesser(n, slen) \in Nat /\ Lesser(n, slen) <= slen BY DEF Lesser
<1>4. wrote \in Seq(Byte) /\ Len(wrote) = Lesser(n, slen) BY <1>3, FirstBytesAre
<1>5. IsSg' = IsSg /\ UrbBytes' = UrbBytes BY <1>1 DEF IsSg, UrbBytes, FragBytes
<1>6. r[1] = 0 => r[2] = n /\ n <= slen
  <2> DEFINE st == UrbStatus(event)
  <2> HIDE DEF st
  <2>1. r = IF st = 0 /\ n > slen THEN <<-75, slen>> ELSE <<st, n>> BY DEF Clamped, st
  <2> QED BY <2>1, <1>2
<1> HIDE DEF r
<1>7. IsSg => Len(sgbuf) >= slen BY <1>1 DEF BytesArrive
<1>8. buf \in Seq(Byte) /\ (dirIn /\ IsSg => SubSeq(buf, 1, Len(wrote)) = wrote /\ Len(buf) >= slen)
  <2>1. CASE dirIn /\ IsSg
    <3> HIDE DEF wrote
    <3>1. Len(wrote) <= Len(sgbuf) BY <1>3, <1>4, <1>7, <2>1
    <3> QED BY <2>1, <3>1, <1>4, <1>7, OverIs
  <2> QED BY <2>1
<1>9. ASSUME answer'.status = 0
      PROVE /\ answer'.actual = n /\ n <= slen
            /\ dirIn => FlattenSeq(answer'.bytes) =
                IF IsSg THEN Over(FirstBytes(n), UrbBytes) ELSE FirstBytes(n)
  <2> HIDE DEF buf, wrote
  <2>1. r[1] = 0 /\ r[2] = n /\ n <= slen /\ ~(copied /\ IsSg /\ Total < n) BY <1>1, <1>6, <1>9
  <2>2. answer'.actual = n BY <1>1, <2>1
  <2>3. Lesser(n, slen) = n /\ wrote = FirstBytes(n) BY <1>2, <2>1 DEF Lesser, wrote
  <2>4. CASE dirIn /\ ~IsSg
    <3> answer'.bytes = <<wrote>> BY <1>1, <2>4
    <3> FlattenSeq(<<wrote>>) = wrote BY <1>4, FlattenOne
    <3> QED BY <2>1, <2>2, <2>3, <2>4
  <2>5. CASE dirIn /\ IsSg /\ n > 0
    <3>0. Total \in Nat
      <4> PICK b, u : LaidOut(b, u) BY UrbLaidOut
      <4> Len(frags) \in 0 .. Len(frags) OBVIOUS
      <4> QED BY DEF LaidOut
    <3>1. answer'.bytes = SgCopyTo(buf, n) BY <1>1, <2>1, <2>5
    <3>2. n \in 0 .. Total /\ n <= Len(buf) BY <2>1, <2>5, <1>2, <1>8, <3>0
    <3>3. FlattenSeq(SgCopyTo(buf, n)) = Over(SubSeq(buf, 1, n), UrbBytes) BY <1>8, <3>2, CopyToIs
    <3>4. SubSeq(buf, 1, n) = FirstBytes(n) BY <1>4, <1>8, <2>3, <2>5
    <3> QED BY <2>1, <2>2, <2>5, <3>1, <3>3, <3>4
  <2>6. CASE dirIn /\ IsSg /\ n = 0
    <3>1. answer'.bytes = [k \in DOMAIN frags |-> FragBytes(k)] BY <1>1, <2>1, <2>6
    <3>2. FlattenSeq(answer'.bytes) = UrbBytes BY <3>1 DEF UrbBytes
    <3>0. 0 \in 0 .. Total
      <4> PICK b, u : LaidOut(b, u) BY UrbLaidOut
      <4> Len(frags) \in 0 .. Len(frags) OBVIOUS
      <4> QED BY DEF LaidOut
    <3>3. UrbBytes \in Seq(Byte) BY <3>0, CopyFromIs
    <3>4. FirstBytes(0) = <<>> BY DEF FirstBytes
    <3>5. Over(<<>>, UrbBytes) = UrbBytes BY <3>3 DEF Over
    <3> QED BY <2>1, <2>2, <2>6, <3>2, <3>4, <3>5
  <2> QED BY <1>2, <2>1, <2>2, <2>4, <2>5, <2>6
<1>10. BufferTypeOK' /\ Fits' BY <1>1, <1>8 DEF Fits
<1>12. ASSUME answer'.status # 0, IsSg PROVE FlattenSeq(answer'.bytes) = UrbBytes
  <2>1. ~copied
    <3>1. ASSUME copied PROVE r[1] = 0 /\ r[2] = n /\ n <= slen BY <1>6, <3>1
    <3>2. slen <= Total /\ Total \in Int
      <4> PICK b, u : LaidOut(b, u) BY UrbLaidOut
      <4> Len(frags) \in 0 .. Len(frags) OBVIOUS
      <4> QED BY <1>1, <1>12 DEF Fits, LaidOut
    <3> QED BY <1>1, <1>2, <1>12, <3>1, <3>2
  <2>2. answer'.bytes = [k \in DOMAIN frags |-> FragBytes(k)] BY <1>1, <1>12, <2>1
  <2> QED BY <2>2 DEF UrbBytes
<1>11. BytesArrive' BY <1>1, <1>5, <1>9, <1>12 DEF BytesArrive
<1> QED BY <1>10, <1>11

(* A synchronous transfer leaves the URB alone.                            *)
LEMMA SyncKeeps ==
  ASSUME BufferInv, NEW native, NEW n \in 0 .. 1, ControlMsg(native, n) \/ BulkMsg(native, n)
  PROVE  BufferInv'
<1> USE DEF BufferInv, BufferTypeOK
<1>1. UNCHANGED <<frags, tlen, dirIn, sgbuf, ustate, slen, wire, answer, uses>>
  BY DEF ControlMsg, BulkMsg
<1>2. sync'.native # "success" => sync'.result < 0 /\ sync'.length = 0
  <2>1. SyncRetlen(native) \in {-75, -110, -71, -22, -5} BY DEF SyncRetlen
  <2>2. native # "success" => SyncXfer(native, n) = SyncRetlen(native) BY DEF SyncXfer
  <2> QED BY <2>1, <2>2 DEF ControlMsg, BulkMsg, Lesser
<1>3. IsSg' = IsSg /\ UrbBytes' = UrbBytes /\ Total' = Total
  BY <1>1 DEF IsSg, UrbBytes, FragBytes, Total
<1> QED BY <1>1, <1>2, <1>3 DEF BytesArrive, Fits

(* No transfer is under way at first.                                      *)
LEMMA BufferInitInv == BuffersInit => BufferInv
<1> SUFFICES ASSUME BuffersInit PROVE BufferInv OBVIOUS
<1>0. <<>> \in Seq(Nat) /\ <<>> \in Seq(Byte) OBVIOUS
<1>3. dirIn \in BOOLEAN BY Zenon DEF BuffersInit
<1>4. 0 \in Int /\ 0 \in Nat OBVIOUS
<1>1. BufferTypeOK BY <1>0, <1>3, <1>4, Zenon DEF BuffersInit, BufferTypeOK
<1>2. BytesArrive /\ Fits BY DEF BuffersInit, BytesArrive, Fits, NoSync
<1> QED BY <1>1, <1>2 DEF BufferInv

(* Every step of the transfers keeps the invariant.                        *)
LEMMA BufferStepInv == BufferInv /\ BuffersNext => BufferInv'
<1> SUFFICES ASSUME BufferInv, BuffersNext PROVE BufferInv' OBVIOUS
<1>1. ASSUME NEW fs \in FragLists, NEW n \in TransferLengths, NEW in \in BOOLEAN, FillUrb(fs, n, in)
      PROVE BufferInv'
  <2> fs \in Seq(Nat) /\ n \in Int BY UsbBuffersAssumption
  <2>1. BufferTypeOK' BY <1>1 DEF FillUrb, BufferInv, BufferTypeOK
  <2>2. ustate' = "filled" /\ sync' = NoSync BY <1>1 DEF FillUrb
  <2>3. BytesArrive' /\ Fits' BY <2>2 DEF BytesArrive, Fits, NoSync
  <2> QED BY <2>1, <2>3 DEF BufferInv
<1>2. CASE Reuse
  <2>0. <<>> \in Seq(Nat) OBVIOUS
  <2>4. dirIn' \in BOOLEAN BY <1>2, Zenon DEF Reuse
  <2>5. 0 \in Int OBVIOUS
  <2>1. BufferTypeOK' BY <1>2, <2>0, <2>4, <2>5, Zenon DEF Reuse, BufferInv, BufferTypeOK
  <2>2. ustate' = "idle" /\ sync' = sync BY <1>2 DEF Reuse
  <2>3. BytesArrive' /\ Fits' BY <2>2 DEF BytesArrive, Fits, BufferInv
  <2> QED BY <2>1, <2>3 DEF BufferInv
<1> QED BY <1>1, <1>2, SubmitKeeps, CompleteKeeps, SyncKeeps DEF BuffersNext

(* So does a step elsewhere.                                               *)
LEMMA BufferStutterInv == BufferInv /\ UNCHANGED bufferVars => BufferInv'
BY DEF bufferVars, BufferInv, BufferTypeOK, Fits, BytesArrive, IsSg, UrbBytes, FragBytes, Total

(* The device is given the driver's bytes in their order, its own bytes are*)
(* put in their places, and a failed transfer puts none into a scatterlist,*)
(* whatever fragments a URB has, how it changes between submissions and    *)
(* what lengths the host reports (usb.c): BytesArrive.                     *)
THEOREM UrbBytesArrive == BuffersSpec => []BytesArrive
<1>1. BufferInv => BytesArrive BY DEF BufferInv
<1>2. BuffersSpec => []BufferInv BY BufferInitInv, BufferStepInv, BufferStutterInv, PTL DEF BuffersSpec
<1> QED BY <1>1, <1>2, PTL

(***************************************************************************)
(* Received frames (Ieee80211Rx).                                          *)
(***************************************************************************)

AllFrames == RxFrames \cup Later
Msdus == UNION {Range(f.msdus) : f \in AllFrames}
Addrs == {f.a1 : f \in AllFrames} \cup {f.a2 : f \in AllFrames} \cup {f.a3 : f \in AllFrames}
         \cup {m.dst : m \in Msdus} \cup {m.src : m \in Msdus}
EthFrames == [dst : Addrs, src : Addrs, proto : {m.proto : m \in Msdus}, len : Int]

(* What is known of a received frame.                                      *)
LEMMA FrameIs ==
  ASSUME NEW f \in AllFrames
  PROVE  /\ f.len \in Nat /\ f.msdus \in Seq(Msdus) /\ Len(f.msdus) \in Nat /\ Len(f.msdus) >= 1
         /\ f.a1 \in Addrs /\ f.a3 \in Addrs /\ f.a2 \in Addrs
         /\ f.amsdu => ieee80211_is_data_qos(f.fc)
         /\ f.htc => f.amsdu
         /\ DOMAIN f.msdus = 1 .. Len(f.msdus)
         /\ \A i \in 1 .. Len(f.msdus) : f.msdus[i] \in Msdus
<1>1. /\ f.len \in Nat
      /\ f.msdus \in Seq(Range(f.msdus)) \ {<<>>}
      /\ f.amsdu => ieee80211_is_data_qos(f.fc)
      /\ f.htc => f.amsdu
  BY RxAssumption DEF AllFrames
<1> DEFINE S == Range(f.msdus)
<1>2. f.msdus \in Seq(S) /\ f.msdus # <<>> BY <1>1
<1>3. S \subseteq Msdus BY DEF Msdus
<1> HIDE DEF S
<1>4. Len(f.msdus) \in Nat /\ Len(f.msdus) >= 1 /\ DOMAIN f.msdus = 1 .. Len(f.msdus) BY <1>2, EmptySeq
<1>5. \A i \in 1 .. Len(f.msdus) : f.msdus[i] \in Msdus BY <1>2, <1>3, <1>4
<1>6. f.msdus \in Seq(Msdus)
  <2> DEFINE s == f.msdus
  <2>1. s = [i \in 1 .. Len(s) |-> s[i]] BY <1>2
  <2> QED BY <2>1, <1>4, <1>5
<1> QED BY <1>1, <1>4, <1>5, <1>6 DEF Addrs

(* The fields of one of its MSDUs.                                         *)
LEMMA MsduIs ==
  ASSUME NEW m \in Msdus
  PROVE  m.len \in Nat /\ m.dst \in Addrs /\ m.src \in Addrs
         /\ BuildEthSkb(m) \in Seq(EthFrames)
<1>1. PICK f \in AllFrames : m \in Range(f.msdus) BY DEF Msdus
<1>2. m.len \in Nat BY <1>1, RxAssumption DEF AllFrames
<1>3. m.dst \in Addrs /\ m.src \in Addrs BY DEF Addrs
<1>4. EthFrame(m, m.dst, m.src, m.len - LlcSnapLen) \in EthFrames
  BY <1>2, <1>3 DEF EthFrame, EthFrames, LlcSnapLen, EthHdrLen
<1> QED BY <1>2, <1>3, <1>4 DEF BuildEthSkb

(* The length of a subframe with its padding is the first multiple of four *)
(* that holds it.                                                          *)
LEMMA PaddedIs ==
  ASSUME NEW m, m.len \in Nat, NEW o \in Nat, o % 4 = 0
  PROVE  /\ Padded(m) \in Nat /\ Padded(m) >= 14 + m.len /\ Padded(m) % 4 = 0
         /\ (o + Padded(m)) % 4 = 0
         /\ (CHOOSE k \in o .. o + m.len + 20 :
                 k % 4 = 0 /\ o + 14 + m.len <= k /\ k < o + 18 + m.len) = o + Padded(m)
<1> DEFINE l == m.len
           P == Padded(m)
<1>1. P = ((17 + l) \div 4) * 4 BY DEF Padded, EthHdrLen
<1>2. l \in Nat OBVIOUS
<1> HIDE DEF l, P
<1>3. P \in Nat /\ P >= 14 + l /\ P < 18 + l /\ P % 4 = 0 /\ (o + P) % 4 = 0 BY <1>1, <1>2
<1> DEFINE Good(k) == k % 4 = 0 /\ o + 14 + l <= k /\ k < o + 18 + l
<1>4. o + P \in o .. o + l + 20 /\ Good(o + P) BY <1>2, <1>3
<1>5. \A k \in o .. o + l + 20 : Good(k) => k = o + P BY <1>2, <1>3
<1>6. (CHOOSE k \in o .. o + l + 20 : Good(k)) = o + P
  <2> HIDE DEF Good
  <2> QED BY <1>4, <1>5
<1> QED BY <1>3, <1>6 DEF l, P

(* Where what follows a row of subframes begins, as the layout says it.    *)
EndOf(s) ==
    FoldLeft(LAMBDA o, m : CHOOSE k \in o .. o + m.len + 20 :
                 k % 4 = 0 /\ o + 14 + m.len <= k /\ k < o + 18 + m.len,
             0, s)

Ends(off, n, s) == off[0] = 0 /\ \A k \in 1 .. n : off[k] = off[k - 1] + Padded(s[k])

Fours == {o \in Nat : o % 4 = 0}
NextFour(o, m) == CHOOSE k \in o .. o + m.len + 20 :
                 k % 4 = 0 /\ o + 14 + m.len <= k /\ k < o + 18 + m.len

(* The end that the layout gives a row of subframes is the last of a row of*)
(* ends, each a multiple of four.                                          *)
LEMMA EndFold ==
  ASSUME NEW s \in Seq(Msdus)
  PROVE  \E off \in [0 .. Len(s) -> Fours] : Ends(off, Len(s), s) /\ EndOf(s) = off[Len(s)]
<1> DEFINE n == Len(s)
           step == [i \in 1 .. n |-> [o \in Fours |-> NextFour(o, s[i])]]
           base == 0
           Eqn(g) == g = [r \in SUBSET (1 .. n) |-> IF r = {} THEN base
                                                    ELSE NextFour(g[r \ {Max(r)}], s[Max(r)])]
           iter == CHOOSE g : Eqn(g)
<1>1. n \in Nat /\ DOMAIN s = 1 .. n /\ \A i \in 1 .. n : s[i] \in Msdus OBVIOUS
<1>2. \A o \in Fours, m \in Msdus :
         NextFour(o, m) = o + Padded(m) /\ o + Padded(m) \in Fours
  <2> SUFFICES ASSUME NEW o \in Fours, NEW m \in Msdus
               PROVE NextFour(o, m) = o + Padded(m) /\ o + Padded(m) \in Fours OBVIOUS
  <2>1. o \in Nat /\ o % 4 = 0 BY DEF Fours
  <2>2. m.len \in Nat BY MsduIs
  <2>3. /\ Padded(m) \in Nat /\ (o + Padded(m)) % 4 = 0 /\ NextFour(o, m) = o + Padded(m)
    BY <2>1, <2>2, PaddedIs DEF NextFour
  <2> QED BY <2>1, <2>3 DEF Fours
<1>3. base \in Fours BY DEF Fours
<1>4. step \in [1 .. n -> [Fours -> Fours]]
  <2> HIDE DEF n
  <2> QED BY <1>1, <1>2
<1>5. PICK g \in [SUBSET (1 .. n) -> Fours] : FoldsSets(g, n, base, step)
  <2> HIDE DEF n, step, base
  <2> QED BY <1>1, <1>3, <1>4, FoldExists
<1>6. \A r \in SUBSET (1 .. n) :
        r # {} => step[Max(r)][g[r \ {Max(r)}]] = NextFour(g[r \ {Max(r)}], s[Max(r)])
  <2> SUFFICES ASSUME NEW r \in SUBSET (1 .. n), r # {}
               PROVE step[Max(r)][g[r \ {Max(r)}]] = NextFour(g[r \ {Max(r)}], s[Max(r)])
    OBVIOUS
  <2>1. Max(r) \in 1 .. n
    <3> HIDE DEF n
    <3> QED BY <1>1, MaxOf
  <2>2. g[r \ {Max(r)}] \in Fours BY <1>5
  <2> QED BY <2>1, <2>2
<1>7. Eqn(g) BY <1>5, <1>6 DEF FoldsSets
<1>8. Eqn(iter) BY <1>7
<1>11. EndOf(s) = iter[1 .. n]
  BY <1>1 DEF EndOf, FoldLeft, MapThenFoldSet, NextFour
<1>12. (1 .. n) \in SUBSET (1 .. n) /\ {} \in SUBSET (1 .. n) OBVIOUS
<1>13. iter[{}] = base BY <1>8, <1>12
<1>14. ASSUME NEW r \in SUBSET (1 .. n), r # {}, iter[r \ {Max(r)}] \in Fours
       PROVE iter[r] = step[Max(r)][iter[r \ {Max(r)}]]
  <2>1. Max(r) \in 1 .. n
    <3> HIDE DEF n
    <3> QED BY <1>1, <1>14, MaxOf
  <2>2. iter[r] = NextFour(iter[r \ {Max(r)}], s[Max(r)]) BY <1>8, <1>14, <2>1
  <2> QED BY <2>1, <2>2, <1>14
<1>20. FoldsTyped(iter, n, Fours, base, step)
  <2> HIDE DEF n, step, iter, base
  <2> QED BY <1>13, <1>14 DEF FoldsTyped
<1>15. PICK off \in [0 .. n -> Fours] : Accumulates(off, n, base, step) /\ off[n] = iter[1 .. n]
  <2> HIDE DEF n, step, iter, base
  <2> QED BY <1>1, <1>3, <1>4, <1>20, FoldSteps
<1>17. ASSUME NEW k \in 1 .. n PROVE off[k] = off[k - 1] + Padded(s[k])
  <2>1. k - 1 \in 0 .. n BY <1>1
  <2>2. off[k - 1] \in Fours BY <2>1, <1>15
  <2>3. off[k] = step[k][off[k - 1]] BY <1>15 DEF Accumulates
  <2>4. off[k] = NextFour(off[k - 1], s[k]) BY <2>2, <2>3
  <2>5. s[k] \in Msdus BY <1>1
  <2> QED BY <1>2, <2>2, <2>4, <2>5
<1> QED BY <1>11, <1>15, <1>17 DEF Accumulates, Ends

(* Where the layout puts each subframe.                                    *)
LEMMA OffsetsAre ==
  ASSUME NEW s \in Seq(Msdus)
  PROVE  \E off \in [0 .. Len(s) -> Nat] :
            /\ Ends(off, Len(s), s)
            /\ \A k \in 1 .. Len(s) : Offset(s, k) = off[k - 1]
<1>1. PICK b \in [0 .. Len(s) -> Fours] : Ends(b, Len(s), s) BY EndFold
<1>0. \A k \in 0 .. Len(s) : b[k] \in Nat BY <1>1 DEF Fours
<1>2. ASSUME NEW i \in 1 .. Len(s) PROVE Offset(s, i) = b[i - 1]
  <2> DEFINE k == i - 1
             p == SubSeq(s, 1, k)
  <2>0. k \in 0 .. Len(s) /\ k \in Nat OBVIOUS
  <2>5. Offset(s, i) = EndOf(p) BY DEF Offset, EndOf
  <2> HIDE DEF k
  <2>1. p \in Seq(Msdus) /\ Len(p) = k /\ \A j \in 1 .. k : p[j] = s[j]
    BY <2>0
  <2> HIDE DEF p
  <2>2. PICK c \in [0 .. Len(p) -> Fours] : Ends(c, Len(p), p) /\ EndOf(p) = c[Len(p)]
    BY <2>1, EndFold
  <2> DEFINE T == {j \in 0 .. k : c[j] = b[j]}
  <2>3. T = 0 .. k
    <3>1. T \in SUBSET (0 .. k) /\ 0 \in T BY <1>1, <2>0, <2>2 DEF Ends
    <3>2. ASSUME NEW j \in 1 .. k, j - 1 \in T PROVE j \in T
      <4>1. j \in 1 .. Len(s) /\ j \in 1 .. Len(p) /\ j \in 0 .. k BY <2>0, <2>1
      <4>2. b[j] = b[j - 1] + Padded(s[j]) BY <4>1, <1>1 DEF Ends
      <4>3. c[j] = c[j - 1] + Padded(p[j]) BY <4>1, <2>2 DEF Ends
      <4>4. p[j] = s[j] /\ c[j - 1] = b[j - 1] BY <2>1, <3>2
      <4> QED BY <4>1, <4>2, <4>3, <4>4
    <3> HIDE DEF T
    <3> QED BY <2>0, <3>1, <3>2, TurnInd
  <2>4. k \in T BY <2>0, <2>3
  <2> QED BY <2>4, <2>1, <2>2, <2>5 DEF k
<1> QED BY <1>0, <1>1, <1>2

(* The states of the loop over an A-MSDU.                                  *)
LoopStates == [out : Seq(EthFrames), remaining : Int, done : BOOLEAN]

(* What one turn of the loop does.                                         *)
LEMMA DeaggregateIs ==
  ASSUME NEW acc \in LoopStates, NEW m \in Msdus
  PROVE  /\ Deaggregate(acc, m) \in LoopStates
         /\ (acc.done \/ acc.remaining < 14 \/ m.len = 0 \/ m.len > acc.remaining - 14) =>
               /\ Deaggregate(acc, m).done /\ Deaggregate(acc, m).out = acc.out
         /\ ~ (acc.done \/ acc.remaining < 14 \/ m.len = 0 \/ m.len > acc.remaining - 14) =>
               /\ Deaggregate(acc, m).out = acc.out \o BuildEthSkb(m)
               /\ Deaggregate(acc, m).remaining = acc.remaining - Padded(m)
               /\ Deaggregate(acc, m).done = (acc.remaining < Padded(m))
<1>1. m.len \in Nat /\ BuildEthSkb(m) \in Seq(EthFrames) BY MsduIs
<1>2. Padded(m) \in Nat
  <2> 0 \in Nat /\ 0 % 4 = 0 OBVIOUS
  <2> QED BY <1>1, PaddedIs
<1>3. acc.out \in Seq(EthFrames) /\ acc.remaining \in Int /\ acc.done \in BOOLEAN BY DEF LoopStates
<1> DEFINE stop == acc.done \/ acc.remaining < 14 \/ m.len = 0 \/ m.len > acc.remaining - 14
           last == [acc EXCEPT !.done = TRUE]
           more == [out |-> acc.out \o BuildEthSkb(m), remaining |-> acc.remaining - Padded(m),
                    done |-> acc.remaining < Padded(m)]
<1>4. Deaggregate(acc, m) = IF stop THEN last ELSE more
  <2>1. (acc.remaining - EthHdrLen) - (Padded(m) - EthHdrLen) = acc.remaining - Padded(m)
    BY <1>2, <1>3 DEF EthHdrLen
  <2>2. (acc.remaining - Padded(m) < 0) = (acc.remaining < Padded(m)) BY <1>2, <1>3
  <2>3. acc.remaining - EthHdrLen < 0 <=> acc.remaining < 14 BY <1>3 DEF EthHdrLen
  <2> QED BY <2>1, <2>2, <2>3 DEF Deaggregate, EthHdrLen
<1>5. last \in LoopStates /\ last.done = TRUE /\ last.out = acc.out BY <1>3 DEF LoopStates
<1>6. more \in LoopStates
  <2>1. acc.out \o BuildEthSkb(m) \in Seq(EthFrames) BY <1>1, <1>3
  <2>2. acc.remaining - Padded(m) \in Int /\ (acc.remaining < Padded(m)) \in BOOLEAN BY <1>2, <1>3
  <2> QED BY <2>1, <2>2 DEF LoopStates
<1>7. more.out = acc.out \o BuildEthSkb(m) /\ more.remaining = acc.remaining - Padded(m)
      /\ more.done = (acc.remaining < Padded(m)) OBVIOUS
<1> HIDE DEF last, more
<1> QED BY <1>4, <1>5, <1>6, <1>7

Turns(acc, n, first, s) == acc[0] = first /\ \A k \in 1 .. n : acc[k] = Deaggregate(acc[k - 1], s[k])

(* The loop over the MSDUs has a row of states.                            *)
LEMMA LoopFold ==
  ASSUME NEW s \in Seq(Msdus), NEW base \in LoopStates
  PROVE  \E acc \in [0 .. Len(s) -> LoopStates] :
            Turns(acc, Len(s), base, s) /\ FoldLeft(Deaggregate, base, s) = acc[Len(s)]
<1> DEFINE n == Len(s)
           step == [i \in 1 .. n |-> [a \in LoopStates |-> Deaggregate(a, s[i])]]
           Eqn(g) == g = [r \in SUBSET (1 .. n) |-> IF r = {} THEN base
                                                    ELSE Deaggregate(g[r \ {Max(r)}], s[Max(r)])]
           iter == CHOOSE g : Eqn(g)
<1>1. n \in Nat /\ DOMAIN s = 1 .. n /\ \A i \in 1 .. n : s[i] \in Msdus OBVIOUS
<1>2. \A a \in LoopStates, m \in Msdus : Deaggregate(a, m) \in LoopStates
  BY DeaggregateIs
<1>4. step \in [1 .. n -> [LoopStates -> LoopStates]]
  <2> HIDE DEF n
  <2> QED BY <1>1, <1>2
<1>5. PICK g \in [SUBSET (1 .. n) -> LoopStates] : FoldsSets(g, n, base, step)
  <2> HIDE DEF n, step
  <2> QED BY <1>1, <1>4, FoldExists
<1>6. \A r \in SUBSET (1 .. n) :
        r # {} => step[Max(r)][g[r \ {Max(r)}]] = Deaggregate(g[r \ {Max(r)}], s[Max(r)])
  <2> SUFFICES ASSUME NEW r \in SUBSET (1 .. n), r # {}
               PROVE step[Max(r)][g[r \ {Max(r)}]] = Deaggregate(g[r \ {Max(r)}], s[Max(r)])
    OBVIOUS
  <2>1. Max(r) \in 1 .. n
    <3> HIDE DEF n
    <3> QED BY <1>1, MaxOf
  <2>2. g[r \ {Max(r)}] \in LoopStates BY <1>5
  <2> QED BY <2>1, <2>2
<1>7. Eqn(g) BY <1>5, <1>6 DEF FoldsSets
<1>8. Eqn(iter) BY <1>7
<1>11. FoldLeft(Deaggregate, base, s) = iter[1 .. n]
  BY <1>1 DEF FoldLeft, MapThenFoldSet
<1>12. (1 .. n) \in SUBSET (1 .. n) /\ {} \in SUBSET (1 .. n) OBVIOUS
<1>13. iter[{}] = base BY <1>8, <1>12
<1>14. ASSUME NEW r \in SUBSET (1 .. n), r # {}, iter[r \ {Max(r)}] \in LoopStates
       PROVE iter[r] = step[Max(r)][iter[r \ {Max(r)}]]
  <2>1. Max(r) \in 1 .. n
    <3> HIDE DEF n
    <3> QED BY <1>1, <1>14, MaxOf
  <2>2. iter[r] = Deaggregate(iter[r \ {Max(r)}], s[Max(r)]) BY <1>8, <1>14, <2>1
  <2> QED BY <2>1, <2>2, <1>14
<1>20. FoldsTyped(iter, n, LoopStates, base, step)
  <2> HIDE DEF n, step, iter
  <2> QED BY <1>13, <1>14 DEF FoldsTyped
<1>15. PICK acc \in [0 .. n -> LoopStates] : Accumulates(acc, n, base, step) /\ acc[n] = iter[1 .. n]
  <2> HIDE DEF n, step, iter
  <2> QED BY <1>1, <1>4, <1>20, FoldSteps
<1>17. ASSUME NEW k \in 1 .. n PROVE acc[k] = Deaggregate(acc[k - 1], s[k])
  <2>1. k - 1 \in 0 .. n BY <1>1
  <2>2. acc[k - 1] \in LoopStates BY <2>1, <1>15
  <2>3. acc[k] = step[k][acc[k - 1]] BY <1>15 DEF Accumulates
  <2> QED BY <2>2, <2>3
<1> QED BY <1>11, <1>15, <1>17 DEF Accumulates, Turns

(* The subframes that are held completely, with all before them, and what  *)
(* is meant to become of each.                                             *)
Delivered(s, room) == {i \in 1 .. Len(s) : \A j \in 1 .. i : Whole(s, j, room)}
Kept(s, room) == [i \in 1 .. Len(s) |->
                     IF i \in Delivered(s, room) THEN BuildEthSkb(s[i]) ELSE <<>>]

(* What the MSDUs of a frame become, one by one.                           *)
LEMMA KeptIs ==
  ASSUME NEW s \in Seq(Msdus), NEW room
  PROVE  Kept(s, room) \in [1 .. Len(s) -> Seq(EthFrames)]
<1> SUFFICES ASSUME NEW i \in 1 .. Len(s)
             PROVE (IF i \in Delivered(s, room) THEN BuildEthSkb(s[i]) ELSE <<>>) \in Seq(EthFrames)
  BY DEF Kept
<1>1. s[i] \in Msdus OBVIOUS
<1>2. BuildEthSkb(s[i]) \in Seq(EthFrames) BY <1>1, MsduIs
<1>3. <<>> \in Seq(EthFrames) OBVIOUS
<1> QED BY <1>2, <1>3

(* How far the loop has got, where it stands and whether it ended.         *)
Follows(a, s, room, k, off, v) ==
    /\ a.out = v
    /\ IF a.done THEN (\E j \in 1 .. k : ~ Whole(s, j, room)) \/ off > room
       ELSE (\A j \in 1 .. k : Whole(s, j, room)) /\ a.remaining = room - off

(* A turn of the loop follows the layout by one MSDU.                      *)
LEMMA LoopTurn ==
  ASSUME NEW s \in Seq(Msdus), NEW room \in Nat, NEW k \in 1 .. Len(s),
         NEW a \in LoopStates, NEW off \in Nat, NEW v \in Seq(EthFrames),
         Follows(a, s, room, k - 1, off, v), Offset(s, k) = off
  PROVE  Follows(Deaggregate(a, s[k]), s, room, k, off + Padded(s[k]), v \o Kept(s, room)[k])
<1> DEFINE m == s[k]
           b == Deaggregate(a, m)
           W(j) == Whole(s, j, room)
<1>1. m \in Msdus OBVIOUS
<1>2. m.len \in Nat /\ BuildEthSkb(m) \in Seq(EthFrames) BY <1>1, MsduIs
<1>3. Padded(m) \in Nat /\ Padded(m) >= 14 + m.len
  <2> 0 \in Nat /\ 0 % 4 = 0 OBVIOUS
  <2> QED BY <1>2, PaddedIs
<1>4. W(k) <=> m.len > 0 /\ off + 14 + m.len <= room BY DEF Whole
<1>5. (\A j \in 1 .. k : W(j)) <=> W(k) /\ \A j \in 1 .. k - 1 : W(j)
  <2> 1 .. k = (1 .. k - 1) \cup {k} OBVIOUS
  <2> HIDE DEF W
  <2> QED OBVIOUS
<1>6. Kept(s, room)[k] = IF \A j \in 1 .. k : W(j) THEN BuildEthSkb(m) ELSE <<>>
  BY DEF Kept, Delivered
<1>7. a.out = v /\ a.done \in BOOLEAN /\ a.remaining \in Int BY DEF Follows, LoopStates
<1>8. v \o <<>> = v BY ConcatEmptySeq
<1>9. /\ b \in LoopStates
      /\ (a.done \/ a.remaining < 14 \/ m.len = 0 \/ m.len > a.remaining - 14) =>
               b.done /\ b.out = a.out
      /\ ~ (a.done \/ a.remaining < 14 \/ m.len = 0 \/ m.len > a.remaining - 14) =>
               /\ b.out = a.out \o BuildEthSkb(m)
               /\ b.remaining = a.remaining - Padded(m)
               /\ b.done = (a.remaining < Padded(m))
  BY <1>1, DeaggregateIs
<1> HIDE DEF m, b
<1>10. CASE a.done
  <2>1. (\E j \in 1 .. k - 1 : ~ W(j)) \/ off > room BY <1>10 DEF Follows
  <2>2. \E j \in 1 .. k : ~ W(j)
    <3>1. CASE off > room
      <4> ~ W(k) BY <1>2, <1>4, <3>1
      <4> k \in 1 .. k OBVIOUS
      <4> HIDE DEF W
      <4> QED OBVIOUS
    <3>2. CASE \E j \in 1 .. k - 1 : ~ W(j)
      <4> \A j \in 1 .. k - 1 : j \in 1 .. k OBVIOUS
      <4> HIDE DEF W
      <4> QED BY <3>2
    <3> QED BY <2>1, <3>1, <3>2
  <2>3. Kept(s, room)[k] = <<>> BY <1>6, <2>2
  <2>4. b.done /\ b.out = v BY <1>7, <1>9, <1>10
  <2> QED BY <1>8, <2>2, <2>3, <2>4 DEF Follows, b, m
<1>11. CASE ~ a.done
  <2>1. (\A j \in 1 .. k - 1 : W(j)) /\ a.remaining = room - off BY <1>11 DEF Follows
  <2>2. W(k) <=> ~ (a.remaining < 14 \/ m.len = 0 \/ m.len > a.remaining - 14)
    <3> HIDE DEF W
    <3> QED BY <1>2, <1>4, <2>1
  <2>3. CASE ~ W(k)
    <3>1. \E j \in 1 .. k : ~ W(j)
      <4> k \in 1 .. k OBVIOUS
      <4> HIDE DEF W
      <4> QED BY <2>3
    <3>2. Kept(s, room)[k] = <<>> BY <1>6, <3>1
    <3>3. b.done /\ b.out = v
      <4> HIDE DEF W
      <4> QED BY <1>7, <1>9, <2>2, <2>3
    <3> QED BY <1>8, <3>1, <3>2, <3>3 DEF Follows, b, m
  <2>4. CASE W(k)
    <3>1. \A j \in 1 .. k : W(j)
      <4> HIDE DEF W
      <4> QED BY <1>5, <2>1, <2>4
    <3>2. Kept(s, room)[k] = BuildEthSkb(m) BY <1>6, <3>1
    <3>3. /\ b.out = a.out \o BuildEthSkb(m)
          /\ b.remaining = a.remaining - Padded(m)
          /\ b.done = (a.remaining < Padded(m))
      <4> HIDE DEF W
      <4> QED BY <1>9, <1>11, <2>2, <2>4
    <3>4. b.done => off + Padded(m) > room
      <4>1. b.done => a.remaining < Padded(m) BY <3>3
      <4>2. a.remaining = room - off BY <2>1
      <4>3. a.remaining < Padded(m) => off + Padded(m) > room BY <4>2, <1>3
      <4> QED BY <4>1, <4>3
    <3>5. b.remaining = room - (off + Padded(m)) BY <3>3, <2>1, <1>3
    <3>6. b.out = v \o Kept(s, room)[k] BY <1>7, <3>2, <3>3
    <3> QED BY <3>1, <3>4, <3>5, <3>6 DEF Follows, b, m
  <2> QED BY <2>3, <2>4
<1> QED BY <1>7, <1>10, <1>11

(* The loop queues what it is meant to.                                    *)
LEMMA AmsduIs ==
  ASSUME NEW f \in AllFrames, NEW len \in Nat, len >= DataHdrLen(f.fc), DataHdrLen(f.fc) \in Nat
  PROVE  EnqueueAmsdu(f, len) = FlattenSeq(Kept(f.msdus, len - DataHdrLen(f.fc)))
         /\ EnqueueAmsdu(f, len) \in Seq(EthFrames)
<1> DEFINE s == f.msdus
           n == Len(s)
           room == len - DataHdrLen(f.fc)
           base == [out |-> <<>>, remaining |-> room, done |-> FALSE]
           kept == Kept(s, room)
<1>1. s \in Seq(Msdus) BY FrameIs
<1>2. room \in Nat OBVIOUS
<1>3. EnqueueAmsdu(f, len) = FoldLeft(Deaggregate, base, s).out BY DEF EnqueueAmsdu
<1> HIDE DEF s
<1>0. n \in Nat BY <1>1
<1> HIDE DEF room
<1>4. base \in LoopStates /\ base.out = <<>> /\ base.remaining = room /\ base.done = FALSE
  <2> <<>> \in Seq(EthFrames) OBVIOUS
  <2> QED BY <1>2 DEF LoopStates
<1> HIDE DEF base
<1>5. PICK acc \in [0 .. n -> LoopStates] :
            Turns(acc, n, base, s) /\ FoldLeft(Deaggregate, base, s) = acc[n]
  BY <1>1, <1>4, LoopFold
<1>6. PICK off \in [0 .. n -> Nat] : Ends(off, n, s) /\ \A k \in 1 .. n : Offset(s, k) = off[k - 1]
  BY <1>1, OffsetsAre
<1>7. PICK v \in [0 .. n -> Seq(EthFrames)] : Concats(v, n, kept) /\ FlattenSeq(kept) = v[n]
  <2>1. kept \in [1 .. n -> Seq(EthFrames)] BY <1>1, KeptIs
  <2> HIDE DEF n, kept
  <2> QED BY <1>0, <2>1, FlattenSteps
<1> DEFINE T == {k \in 0 .. n : Follows(acc[k], s, room, k, off[k], v[k])}
<1>8. 0 \in T
  <2>1. acc[0] = base /\ off[0] = 0 /\ v[0] = <<>> BY <1>5, <1>6, <1>7 DEF Turns, Ends, Concats
  <2>2. room = room - 0 BY <1>2
  <2>3. Follows(base, s, room, 0, 0, <<>>)
    <3> 1 .. 0 = {} OBVIOUS
    <3> QED BY <1>4, <2>2 DEF Follows
  <2>4. 0 \in 0 .. n BY <1>0
  <2> QED BY <2>1, <2>3, <2>4
<1>9. ASSUME NEW k \in 1 .. n, k - 1 \in T PROVE k \in T
  <2> DEFINE a == acc[k - 1]
             o == off[k - 1]
             w == v[k - 1]
  <2>0. k - 1 \in 0 .. n /\ k \in 0 .. n /\ k \in 1 .. Len(s) BY <1>0
  <2>1. a \in LoopStates /\ o \in Nat /\ w \in Seq(EthFrames) BY <2>0
  <2>2. Follows(a, s, room, k - 1, o, w) BY <1>9
  <2>3. Offset(s, k) = o BY <1>6
  <2>4. acc[k] = Deaggregate(a, s[k]) /\ off[k] = o + Padded(s[k]) /\ v[k] = w \o Kept(s, room)[k]
    BY <1>5, <1>6, <1>7 DEF Turns, Ends, Concats
  <2> HIDE DEF a, o, w, n
  <2>5. Follows(Deaggregate(a, s[k]), s, room, k, o + Padded(s[k]), w \o Kept(s, room)[k])
    BY <1>1, <1>2, <2>0, <2>1, <2>2, <2>3, LoopTurn
  <2> QED BY <2>0, <2>4, <2>5
<1>10. T = 0 .. n
  <2>1. T \in SUBSET (0 .. n) OBVIOUS
  <2> HIDE DEF T, n
  <2> QED BY <1>0, <1>8, <1>9, <2>1, TurnInd
<1>11. n \in T BY <1>0, <1>10
<1>12. acc[n].out = v[n]
  <2> Follows(acc[n], s, room, n, off[n], v[n]) BY <1>11
  <2> QED BY DEF Follows
<1>13. v[n] \in Seq(EthFrames) BY <1>0, <1>7
<1> HIDE DEF n, kept
<1> QED BY <1>3, <1>5, <1>7, <1>12, <1>13 DEF s, room, kept

(* The frames that pass, and the length of their headers as both functions *)
(* compute it.                                                             *)
LEMMA HeaderIs ==
  ASSUME NEW f \in AllFrames
  PROVE  /\ TrimmedLen(f) \in Nat
         /\ DataHdrLen(f.fc) \in Nat /\ DataHdrLen(f.fc) >= 24
         /\ Passes(f) => /\ ieee80211_is_data(f.fc) /\ ieee80211_is_data_present(f.fc)
                         /\ ieee80211_has_fromds(f.fc) /\ ~ieee80211_has_tods(f.fc)
         /\ Passes(f) /\ ~ieee80211_has_order(f.fc) =>
               /\ DataHdrLen(f.fc) = ieee80211_hdrlen(f.fc)
               /\ ieee80211_is_data_qos(f.fc) => DataHdrLen(f.fc) = 26
<1>1. f.len \in Nat BY FrameIs
<1>2. TrimmedLen(f) \in Nat BY <1>1 DEF TrimmedLen, FcsLen
<1>3. FourAddr(f.fc) \in {0, 6} BY DEF FourAddr, EthAlen
<1>4. DataHdrLen(f.fc) \in Nat /\ DataHdrLen(f.fc) >= 24 BY <1>3 DEF DataHdrLen, HdrLen3Addr
<1>5. ASSUME Passes(f)
      PROVE /\ ieee80211_is_data(f.fc) /\ ieee80211_is_data_present(f.fc)
            /\ ieee80211_has_fromds(f.fc) /\ ~ieee80211_has_tods(f.fc)
            /\ ~ieee80211_is_ctl(f.fc) /\ ~ieee80211_is_mgmt(f.fc)
  BY <1>5 DEF Passes, RxDataMatchesBss, ieee80211_is_data_present
<1>6. ASSUME Passes(f), ~ieee80211_has_order(f.fc)
      PROVE /\ DataHdrLen(f.fc) = ieee80211_hdrlen(f.fc)
            /\ ieee80211_is_data_qos(f.fc) => DataHdrLen(f.fc) = 26
  <2>1. FourAddr(f.fc) = 0 BY <1>5, <1>6 DEF FourAddr
  <2> QED BY <1>5, <1>6, <2>1 DEF DataHdrLen, ieee80211_hdrlen, HdrLen3Addr
<1> QED BY <1>2, <1>4, <1>5, <1>6

(* A frame without an A-MSDU becomes at most one Ethernet frame.           *)
LEMMA PlainTyped ==
  ASSUME NEW f \in AllFrames, NEW len \in Nat
  PROVE  DataToEthernet(f, len) \in Seq(EthFrames)
<1> DEFINE m == f.msdus[1]
           dst == IF ieee80211_has_tods(f.fc) THEN f.a3 ELSE f.a1
           src == IF ieee80211_has_fromds(f.fc) THEN f.a3 ELSE f.a2
           e == EthFrame(m, dst, src, len - DataHdrLen(f.fc) - LlcSnapLen)
<1>1. m \in Msdus
  <2> 1 \in 1 .. Len(f.msdus) BY FrameIs
  <2> QED BY FrameIs
<1>2. dst \in Addrs /\ src \in Addrs BY FrameIs
<1>3. DataHdrLen(f.fc) \in Nat BY HeaderIs
<1>4. e \in EthFrames BY <1>1, <1>2, <1>3 DEF EthFrame, EthFrames, LlcSnapLen, EthHdrLen
<1>5. DataToEthernet(f, len) \in {<<>>, <<e>>} BY DEF DataToEthernet
<1> HIDE DEF e
<1>6. <<>> \in Seq(EthFrames) /\ <<e>> \in Seq(EthFrames) BY <1>4
<1>7. DataToEthernet(f, len) = <<>> \/ DataToEthernet(f, len) = <<e>> BY <1>5
<1> QED BY <1>6, <1>7, Zenon

(* Whatever is received becomes Ethernet frames.                           *)
LEMMA ConvertTyped ==
  ASSUME NEW f \in AllFrames PROVE Convert(f) \in Seq(EthFrames)
<1> DEFINE len == TrimmedLen(f)
<1>1. len \in Nat /\ DataHdrLen(f.fc) \in Nat BY HeaderIs
<1>2. DataToEthernet(f, len) \in Seq(EthFrames) BY <1>1, PlainTyped
<1>3. IsAmsdu(f, len) => EnqueueAmsdu(f, len) \in Seq(EthFrames) BY <1>1, AmsduIs DEF IsAmsdu
<1> QED BY <1>2, <1>3 DEF Convert

(* Every part of a frame becomes what it is meant to.                      *)
LEMMA ConvertIsMeant ==
  ASSUME NEW f \in AllFrames, Passes(f), ~ieee80211_has_order(f.fc)
  PROVE  Convert(f) = Meant(f)
<1> DEFINE len == TrimmedLen(f)
           s == f.msdus
           room == TrimmedLen(f) - ieee80211_hdrlen(f.fc)
           d == DataHdrLen(f.fc)
           sent == {i \in 1 .. Len(s) : \A j \in 1 .. i : Whole(s, j, room)}
           keep == [i \in 1 .. Len(s) |->
                    IF i \in sent /\ s[i].memory /\ s[i].len >= 8 /\ SnapToEthertype(s[i])
                       THEN <<[dst |-> s[i].dst, src |-> s[i].src, proto |-> s[i].proto,
                               len |-> 6 + s[i].len]>>
                       ELSE <<>>]
<1>1. /\ len \in Nat /\ d \in Nat /\ d >= 24
      /\ ieee80211_is_data(f.fc) /\ ieee80211_is_data_present(f.fc)
      /\ ieee80211_has_fromds(f.fc) /\ ~ieee80211_has_tods(f.fc)
      /\ d = ieee80211_hdrlen(f.fc)
      /\ ieee80211_is_data_qos(f.fc) => d = 26
  BY HeaderIs
<1>2. room = len - d BY <1>1
<1>3. s \in Seq(Msdus) /\ Len(s) \in Nat BY FrameIs
<1>4. CASE ~ f.amsdu
  <2>1. ~IsAmsdu(f, len) BY <1>4 DEF IsAmsdu
  <2>2. Convert(f) = DataToEthernet(f, len) BY <2>1 DEF Convert
  <2>3. Meant(f) = IF SnapToEthertype(s[1]) /\ room >= 8 /\ ~ieee80211_has_protected(f.fc)
               THEN <<[dst |-> f.a1, src |-> f.a3, proto |-> s[1].proto, len |-> room + 6]>>
               ELSE <<>>
    BY <1>4 DEF Meant
  <2> DEFINE none == len < 32 \/ ieee80211_has_protected(f.fc) \/ len < d + 8 \/ ~SnapToEthertype(s[1])
             e == EthFrame(s[1], f.a1, f.a3, len - d - 8)
  <2>4. DataToEthernet(f, len) = IF none THEN <<>> ELSE <<e>>
    BY <1>1, <1>4 DEF DataToEthernet, HdrLen3Addr, LlcSnapLen
  <2>5. none <=> ~ (SnapToEthertype(s[1]) /\ room >= 8 /\ ~ieee80211_has_protected(f.fc))
    BY <1>1, <1>2
  <2>6. e = [dst |-> f.a1, src |-> f.a3, proto |-> s[1].proto, len |-> room + 6]
    <3> 14 + (len - d - 8) = room + 6 BY <1>1, <1>2
    <3> QED BY DEF EthFrame, EthHdrLen
  <2> HIDE DEF e, none
  <2> QED BY <2>2, <2>3, <2>4, <2>5, <2>6
<1>5. CASE f.amsdu
  <2>1. d = 26 BY <1>1, <1>5, FrameIs
  <2>2. IsAmsdu(f, len) <=> len >= 26 BY <1>5, <2>1 DEF IsAmsdu, HdrLen3Addr
  <2>3. DataToEthernet(f, len) = <<>> BY <1>5 DEF DataToEthernet
  <2>4. Meant(f) = FlattenSeq(keep) BY <1>5 DEF Meant
  <2>5. keep = Kept(s, room)
    <3> SUFFICES ASSUME NEW i \in 1 .. Len(s)
                 PROVE (IF i \in sent /\ s[i].memory /\ s[i].len >= 8 /\ SnapToEthertype(s[i])
                           THEN <<[dst |-> s[i].dst, src |-> s[i].src, proto |-> s[i].proto,
                                   len |-> 6 + s[i].len]>>
                           ELSE <<>>)
                       = IF i \in sent THEN BuildEthSkb(s[i]) ELSE <<>>
      BY DEF Kept, Delivered
    <3>1. s[i].len \in Nat
      <4> s[i] \in Msdus BY <1>3
      <4> QED BY MsduIs
    <3>2. 14 + (s[i].len - 8) = 6 + s[i].len BY <3>1
    <3> HIDE DEF sent
    <3> QED BY <3>2 DEF BuildEthSkb, EthFrame, EthHdrLen, LlcSnapLen
  <2> HIDE DEF keep
  <2>6. CASE len >= 26
    <3>1. EnqueueAmsdu(f, len) = FlattenSeq(Kept(s, room)) BY <1>1, <1>2, <2>1, <2>6, AmsduIs
    <3> QED BY <2>2, <2>3, <2>4, <2>5, <2>6, <3>1 DEF Convert
  <2>7. CASE ~(len >= 26)
    <3>1. Convert(f) = <<>> BY <2>2, <2>3, <2>7 DEF Convert
    <3>2. room < 0 /\ room \in Int BY <1>1, <1>2, <2>1, <2>7
    <3> HIDE DEF room
    <3>3. ASSUME NEW i \in 1 .. Len(s) PROVE ~ Whole(s, i, room)
      <4>1. PICK off \in [0 .. Len(s) -> Nat] : \A k \in 1 .. Len(s) : Offset(s, k) = off[k - 1]
        BY <1>3, OffsetsAre
      <4>2. i - 1 \in 0 .. Len(s) BY <1>3
      <4>3. Offset(s, i) \in Nat BY <4>1, <4>2
      <4>4. s[i].len \in Nat
        <5> s[i] \in Msdus BY <1>3
        <5> QED BY MsduIs
      <4> QED BY <3>2, <4>3, <4>4 DEF Whole
    <3>4. \A i \in 1 .. Len(s) : Kept(s, room)[i] = <<>>
      <4> TAKE i \in 1 .. Len(s)
      <4> i \in 1 .. i OBVIOUS
      <4> i \notin Delivered(s, room) BY <3>3 DEF Delivered
      <4> QED BY DEF Kept
    <3>5. Kept(s, room) \in [1 .. Len(s) -> Seq(EthFrames)] BY <1>3, KeptIs
    <3> DEFINE n == Len(s)
               kept == Kept(s, room)
    <3>6. PICK v \in [0 .. n -> Seq(EthFrames)] : Concats(v, n, kept) /\ FlattenSeq(kept) = v[n]
      <4> HIDE DEF kept
      <4>1. n \in Nat /\ kept \in [1 .. n -> Seq(EthFrames)] BY <1>3, <3>5 DEF kept
      <4> HIDE DEF n
      <4> QED BY <4>1, FlattenSteps
    <3> DEFINE T == {k \in 0 .. n : v[k] = <<>>}
    <3>7. 0 \in T /\ T \in SUBSET (0 .. n) BY <1>3, <3>6 DEF Concats
    <3>8. ASSUME NEW k \in 1 .. n, k - 1 \in T PROVE k \in T
      <4>1. v[k] = v[k - 1] \o kept[k] BY <3>6 DEF Concats
      <4>2. v[k - 1] = <<>> /\ kept[k] = <<>> BY <3>4, <3>8
      <4>3. <<>> \o <<>> = <<>> OBVIOUS
      <4>4. k \in 0 .. n BY <1>3
      <4> HIDE DEF kept
      <4> QED BY <4>1, <4>2, <4>3, <4>4
    <3>9. T = 0 .. n
      <4>1. n \in Nat BY <1>3
      <4> HIDE DEF T, n
      <4> QED BY <3>7, <3>8, <4>1, TurnInd
    <3>10. n \in T BY <1>3, <3>9
    <3> QED BY <2>4, <2>5, <3>1, <3>6, <3>10
  <2> QED BY <2>6, <2>7
<1> QED BY <1>4, <1>5

(* One more sequence at the end.                                           *)
LEMMA FlattenAppend ==
  ASSUME NEW A, NEW n \in Nat, NEW p \in [1 .. n -> Seq(A)], NEW q \in [1 .. (n + 1) -> Seq(A)],
         \A i \in 1 .. n : q[i] = p[i]
  PROVE  FlattenSeq(q) = FlattenSeq(p) \o q[n + 1] /\ FlattenSeq(p) \in Seq(A)
<1>1. PICK v \in [0 .. n -> Seq(A)] : Concats(v, n, p) /\ FlattenSeq(p) = v[n] BY FlattenSteps
<1> DEFINE m == n + 1
<1>2. PICK w \in [0 .. m -> Seq(A)] : Concats(w, m, q) /\ FlattenSeq(q) = w[m]
  <2> m \in Nat /\ q \in [1 .. m -> Seq(A)] OBVIOUS
  <2> HIDE DEF m
  <2> QED BY FlattenSteps
<1> DEFINE T == {k \in 0 .. n : v[k] = w[k]}
<1>3. 0 \in T /\ T \in SUBSET (0 .. n) BY <1>1, <1>2 DEF Concats
<1>4. ASSUME NEW k \in 1 .. n, k - 1 \in T PROVE k \in T
  <2>1. k \in 0 .. n /\ k \in 1 .. m OBVIOUS
  <2> HIDE DEF m
  <2>2. v[k] = v[k - 1] \o p[k] /\ w[k] = w[k - 1] \o q[k] BY <1>1, <1>2, <2>1 DEF Concats
  <2> QED BY <1>4, <2>1, <2>2
<1>5. T = 0 .. n
  <2> HIDE DEF T
  <2> QED BY <1>3, <1>4, TurnInd
<1>6. v[n] = w[n]
  <2> n \in T
    <3> n \in 0 .. n OBVIOUS
    <3> HIDE DEF T
    <3> QED BY <1>5
  <2> QED OBVIOUS
<1>7. w[m] = w[m - 1] \o q[m]
  <2> m \in 1 .. m OBVIOUS
  <2> HIDE DEF m
  <2> QED BY <1>2 DEF Concats
<1>8. m - 1 = n OBVIOUS
<1>9. v[n] \in Seq(A) BY <1>1
<1> HIDE DEF m
<1>10. FlattenSeq(q) = FlattenSeq(p) \o q[m] BY <1>1, <1>2, <1>6, <1>7, <1>8
<1> QED BY <1>1, <1>9, <1>10 DEF m

(* What was due, given as a function of what was received.                 *)
Due(g) == FlattenSeq([i \in 1 .. Len(g) |-> Meant(g[i])])
NoHtc(g) == \A i \in 1 .. Len(g) : ~ieee80211_has_order(g[i].fc)
Seen(t, q, a) == t \o q \o a
Agrees(seen, due, n) ==
    /\ Len(seen) = Len(due)
    /\ \A i \in 1 .. Len(due) : seen[i] = due[i] \/ (i <= n /\ seen[i] = [due[i] EXCEPT !.len = 0])

(* A frame that passed, with what it became.                               *)
Passed == {f \in AllFrames : ieee80211_has_order(f.fc) \/ Meant(f) \in Seq(EthFrames)}

RxTypeOK ==
    /\ got \in Seq(Passed)
    /\ rxq \in Seq(EthFrames) /\ arriving \in Seq(EthFrames) /\ taken \in Seq(EthFrames)

RxInv == RxTypeOK /\ RxInOrder

(* RxInOrder, in terms of what was seen and what was due.                  *)
LEMMA OrderIs == RxInOrder <=> (NoHtc(got) => Agrees(Seen(taken, rxq, arriving), Due(got), Len(taken)))
BY DEF RxInOrder, NoHtc, Agrees, Seen, Due

(* The same, of the next state.                                            *)
LEMMA OrderNext ==
    RxInOrder' <=> (NoHtc(got') => Agrees(Seen(taken', rxq', arriving'), Due(got'), Len(taken')))
BY DEF RxInOrder, NoHtc, Agrees, Seen, Due

(* One more received frame adds what it means to what is due.              *)
LEMMA DueMore ==
  ASSUME NEW g \in Seq(Passed), NEW f \in Passed, NoHtc(Append(g, f))
  PROVE  /\ NoHtc(g) /\ ~ieee80211_has_order(f.fc)
         /\ Due(Append(g, f)) = Due(g) \o Meant(f) /\ Due(g) \in Seq(EthFrames)
         /\ Meant(f) \in Seq(EthFrames)
<1> DEFINE n == Len(g)
           h == Append(g, f)
           p == [i \in 1 .. Len(g) |-> Meant(g[i])]
           q == [i \in 1 .. Len(h) |-> Meant(h[i])]
<1>1. /\ n \in Nat /\ h \in Seq(Passed) /\ Len(h) = n + 1 /\ h[n + 1] = f
      /\ \A i \in 1 .. n : h[i] = g[i] /\ g[i] \in Passed
  OBVIOUS
<1> HIDE DEF h
<1>2. NoHtc(h) BY DEF h
<1>3. \A i \in 1 .. n : i \in 1 .. Len(h) BY <1>1
<1>4. n + 1 \in 1 .. Len(h) BY <1>1
<1>5. NoHtc(g) /\ ~ieee80211_has_order(f.fc) BY <1>1, <1>2, <1>3, <1>4 DEF NoHtc
<1>6. Meant(f) \in Seq(EthFrames) BY <1>5 DEF Passed
<1>7. \A i \in 1 .. n : Meant(g[i]) \in Seq(EthFrames) BY <1>1, <1>5 DEF Passed, NoHtc
<1>8. p \in [1 .. n -> Seq(EthFrames)] BY <1>7
<1>9. q \in [1 .. (n + 1) -> Seq(EthFrames)] /\ q[n + 1] = Meant(f) /\ \A i \in 1 .. n : q[i] = p[i]
  <2>1. \A i \in 1 .. n + 1 : Meant(h[i]) \in Seq(EthFrames)
    <3> TAKE i \in 1 .. n + 1
    <3>1. CASE i = n + 1 BY <3>1, <1>1, <1>6
    <3>2. CASE i # n + 1
      <4> i \in 1 .. n BY <3>2, <1>1
      <4> QED BY <1>1, <1>7
    <3> QED BY <3>1, <3>2
  <2> QED BY <2>1, <1>1, <1>3, <1>4
<1>10. Due(g) = FlattenSeq(p) /\ Due(h) = FlattenSeq(q) BY DEF Due
<1> HIDE DEF p, q, n
<1>11. FlattenSeq(q) = FlattenSeq(p) \o q[n + 1] /\ FlattenSeq(p) \in Seq(EthFrames)
  BY <1>1, <1>8, <1>9, FlattenAppend
<1> QED BY <1>5, <1>6, <1>9, <1>10, <1>11 DEF h

(* Nothing is due at first.                                                *)
LEMMA DueNothing == Due(<<>>) = <<>>
<1> DEFINE p == [i \in 1 .. 0 |-> Meant(<<>>[i])]
<1>1. p = <<>> /\ Len(p) = 0
  <2> p \in [1 .. 0 -> {}] OBVIOUS
  <2> QED OBVIOUS
<1>2. FlattenSeq(p) = <<>>
  <2> HIDE DEF p
  <2> QED BY <1>1 DEF FlattenSeq
<1>3. Len(<<>>) = 0 OBVIOUS
<1> QED BY <1>2, <1>3 DEF Due

(* Due follows for all the histories.                                      *)
LEMMA DueTyped ==
  ASSUME NEW g \in Seq(Passed), NoHtc(g) PROVE Due(g) \in Seq(EthFrames)
<1> DEFINE n == Len(g)
           p == [i \in 1 .. Len(g) |-> Meant(g[i])]
<1>1. n \in Nat /\ p \in [1 .. n -> Seq(EthFrames)] BY DEF NoHtc, Passed
<1>2. Due(g) = FlattenSeq(p) BY DEF Due
<1> HIDE DEF n, p
<1>3. PICK v \in [0 .. n -> Seq(EthFrames)] : FlattenSeq(p) = v[n] BY <1>1, FlattenSteps
<1>4. n \in 0 .. n BY <1>1
<1> QED BY <1>2, <1>3, <1>4

(* s is x and then y; s is t, then q, then a.                               *)
InTwo(s, x, y) ==
    /\ s \in Seq(EthFrames) /\ Len(s) = Len(x) + Len(y)
    /\ \A i \in 1 .. Len(x) : s[i] = x[i]
    /\ \A i \in 1 .. Len(y) : s[Len(x) + i] = y[i]
InThree(s, t, q, a) ==
    /\ s \in Seq(EthFrames) /\ Len(s) = Len(t) + Len(q) + Len(a)
    /\ \A i \in 1 .. Len(t) : s[i] = t[i]
    /\ \A i \in 1 .. Len(q) : s[Len(t) + i] = q[i]
    /\ \A i \in 1 .. Len(a) : s[Len(t) + Len(q) + i] = a[i]

(* Two histories, one after the other.                                     *)
LEMMA TwoIs ==
  ASSUME NEW x \in Seq(EthFrames), NEW y \in Seq(EthFrames)
  PROVE  InTwo(x \o y, x, y)
<1> DEFINE E == EthFrames
<1>1. x \in Seq(E) /\ y \in Seq(E) OBVIOUS
<1> HIDE DEF E
<1>2. /\ x \o y \in Seq(E) /\ Len(x \o y) = Len(x) + Len(y)
      /\ \A i \in 1 .. Len(x) : (x \o y)[i] = x[i]
      /\ \A i \in 1 .. Len(y) : (x \o y)[Len(x) + i] = y[i] BY <1>1, CatIs
<1> QED BY <1>2 DEF InTwo, E

(* What an observer has seen is the three histories, in their order.        *)
LEMMA SeenIs ==
  ASSUME NEW t \in Seq(EthFrames), NEW q \in Seq(EthFrames), NEW a \in Seq(EthFrames)
  PROVE  InThree(Seen(t, q, a), t, q, a)
<1> DEFINE tq == t \o q
           s == tq \o a
<1>1. InTwo(tq, t, q) BY TwoIs
<1>6. tq \in Seq(EthFrames) BY <1>1 DEF InTwo
<1> HIDE DEF tq
<1>2. InTwo(s, tq, a) BY <1>6, TwoIs
<1>3. Seen(t, q, a) = s BY DEF Seen, tq
<1> HIDE DEF s
<1>4. \A i \in 1 .. Len(t) : s[i] = t[i]
  <2> TAKE i \in 1 .. Len(t)
  <2> i \in 1 .. Len(tq) BY <1>1 DEF InTwo
  <2> QED BY <1>1, <1>2 DEF InTwo
<1>5. \A i \in 1 .. Len(q) : s[Len(t) + i] = q[i]
  <2> TAKE i \in 1 .. Len(q)
  <2> Len(t) + i \in 1 .. Len(tq) BY <1>1 DEF InTwo
  <2> QED BY <1>1, <1>2 DEF InTwo
<1>7. s \in Seq(EthFrames) /\ Len(s) = Len(t) + Len(q) + Len(a)
  BY <1>1, <1>2 DEF InTwo
<1>8. \A i \in 1 .. Len(a) : s[Len(t) + Len(q) + i] = a[i]
  BY <1>1, <1>2 DEF InTwo
<1> QED BY <1>3, <1>4, <1>5, <1>7, <1>8 DEF InThree

(* Sequences that are equal, written with their elements.                  *)
LEMMA SeenEquals ==
  ASSUME NEW t \in Seq(EthFrames), NEW q \in Seq(EthFrames), NEW a \in Seq(EthFrames),
         NEW s, InThree(s, t, q, a)
  PROVE  Seen(t, q, a) = s
<1> DEFINE r == Seen(t, q, a)
<1>0. InThree(r, t, q, a) BY SeenIs
<1> HIDE DEF r
<1>1. /\ r \in Seq(EthFrames)
      /\ Len(r) = Len(t) + Len(q) + Len(a)
      /\ \A i \in 1 .. Len(t) : r[i] = t[i]
      /\ \A i \in 1 .. Len(q) : r[Len(t) + i] = q[i]
      /\ \A i \in 1 .. Len(a) : r[Len(t) + Len(q) + i] = a[i] BY <1>0 DEF InThree
<1>4. /\ s \in Seq(EthFrames)
      /\ Len(s) = Len(t) + Len(q) + Len(a)
      /\ \A i \in 1 .. Len(t) : s[i] = t[i]
      /\ \A i \in 1 .. Len(q) : s[Len(t) + i] = q[i]
      /\ \A i \in 1 .. Len(a) : s[Len(t) + Len(q) + i] = a[i] BY DEF InThree
<1>2. ASSUME NEW i \in 1 .. Len(s) PROVE r[i] = s[i]
  <2>1. CASE i <= Len(t)
    <3> i \in 1 .. Len(t) BY <2>1
    <3> QED BY <1>1, <1>4
  <2>2. CASE i > Len(t) /\ i <= Len(t) + Len(q)
    <3> DEFINE j == i - Len(t)
    <3>1. j \in 1 .. Len(q) /\ Len(t) + j = i BY <2>2, <1>4
    <3> HIDE DEF j
    <3>2. r[Len(t) + j] = s[Len(t) + j] BY <1>1, <1>4, <3>1
    <3> QED BY <3>1, <3>2
  <2>3. CASE i > Len(t) + Len(q)
    <3> DEFINE j == i - (Len(t) + Len(q))
    <3>1. j \in 1 .. Len(a) /\ Len(t) + Len(q) + j = i BY <2>3, <1>4
    <3> HIDE DEF j
    <3>2. r[Len(t) + Len(q) + j] = s[Len(t) + Len(q) + j] BY <1>1, <1>4, <3>1
    <3> QED BY <3>1, <3>2
  <2> QED BY <2>1, <2>2, <2>3
<1>3. Len(r) = Len(s) BY <1>1, <1>4
<1> QED BY <1>1, <1>2, <1>3, <1>4, SeqEqual DEF r

(* New frames at the end of what was seen agree with the same at the end of*)
(* what is due.                                                            *)
LEMMA ReceiveAgrees ==
  ASSUME NEW t \in Seq(EthFrames), NEW q \in Seq(EthFrames), NEW c \in Seq(EthFrames),
         NEW d \in Seq(EthFrames), Agrees(Seen(t, q, <<>>), d, Len(t))
  PROVE  Agrees(Seen(t, q, c), d \o c, Len(t))
<1> DEFINE e == <<>>
           s == Seen(t, q, e)
           r == Seen(t, q, c)
           dc == d \o c
<1>0. e \in Seq(EthFrames) /\ Len(e) = 0 OBVIOUS
<1>9. Agrees(s, d, Len(t)) OBVIOUS
<1> HIDE DEF e
<1>11. InThree(s, t, q, e) BY <1>0, SeenIs
<1>12. InThree(r, t, q, c) BY SeenIs
<1>13. InTwo(dc, d, c) BY TwoIs
<1> HIDE DEF s, r, dc
<1>1. /\ s \in Seq(EthFrames) /\ Len(s) = Len(t) + Len(q) + Len(e)
      /\ \A i \in 1 .. Len(t) : s[i] = t[i]
      /\ \A i \in 1 .. Len(q) : s[Len(t) + i] = q[i] BY <1>11 DEF InThree
<1>2. /\ r \in Seq(EthFrames) /\ Len(r) = Len(t) + Len(q) + Len(c)
      /\ \A i \in 1 .. Len(t) : r[i] = t[i]
      /\ \A i \in 1 .. Len(q) : r[Len(t) + i] = q[i]
      /\ \A i \in 1 .. Len(c) : r[Len(t) + Len(q) + i] = c[i] BY <1>12 DEF InThree
<1>3. /\ dc \in Seq(EthFrames) /\ Len(dc) = Len(d) + Len(c)
      /\ \A i \in 1 .. Len(d) : dc[i] = d[i]
      /\ \A i \in 1 .. Len(c) : dc[Len(d) + i] = c[i] BY <1>13 DEF InTwo
<1>4. Len(d) = Len(t) + Len(q) BY <1>0, <1>1, <1>9 DEF Agrees
<1>5. ASSUME NEW i \in 1 .. Len(dc)
      PROVE r[i] = dc[i] \/ (i <= Len(t) /\ r[i] = [dc[i] EXCEPT !.len = 0])
  <2>1. CASE i <= Len(d)
    <3>1. i \in 1 .. Len(d) BY <2>1
    <3>2. r[i] = s[i]
      <4>1. CASE i <= Len(t)
        <5> i \in 1 .. Len(t) BY <4>1
        <5> QED BY <1>1, <1>2
      <4>2. CASE i > Len(t)
        <5> DEFINE j == i - Len(t)
        <5>1. j \in 1 .. Len(q) /\ Len(t) + j = i BY <4>2, <3>1, <1>4
        <5> HIDE DEF j
        <5>2. r[Len(t) + j] = s[Len(t) + j] BY <1>1, <1>2, <5>1
        <5> QED BY <5>1, <5>2
      <4> QED BY <4>1, <4>2
    <3> QED BY <1>3, <1>9, <3>1, <3>2 DEF Agrees
  <2>2. CASE i > Len(d)
    <3> DEFINE j == i - Len(d)
    <3>1. j \in 1 .. Len(c) /\ Len(d) + j = i BY <2>2, <1>3
    <3> HIDE DEF j
    <3>2. r[Len(t) + Len(q) + j] = c[j] /\ dc[Len(d) + j] = c[j] BY <1>2, <1>3, <3>1
    <3> QED BY <3>1, <3>2, <1>4
  <2> QED BY <2>1, <2>2
<1>6. Len(r) = Len(dc) BY <1>2, <1>3, <1>4
<1> QED BY <1>5, <1>6 DEF Agrees, r, dc

(* A frame moved from one history to the next is seen where it was.        *)
LEMMA QueueOneAgrees ==
  ASSUME NEW t \in Seq(EthFrames), NEW q \in Seq(EthFrames), NEW a \in Seq(EthFrames), a # <<>>
  PROVE  Seen(t, Append(q, Head(a)), Tail(a)) = Seen(t, q, a)
<1> DEFINE q2 == Append(q, Head(a))
           a2 == Tail(a)
           s == Seen(t, q, a)
<1>0. Len(a) \in Nat \ {0} BY EmptySeq
<1>1. /\ q2 \in Seq(EthFrames) /\ Len(q2) = Len(q) + 1
      /\ (\A i \in 1 .. Len(q) : q2[i] = q[i]) /\ q2[Len(q) + 1] = a[1]
  BY <1>0
<1>2. a2 \in Seq(EthFrames) /\ Len(a2) = Len(a) - 1 /\ \A i \in 1 .. Len(a2) : a2[i] = a[i + 1]
  BY <1>0
<1> HIDE DEF q2, a2
<1>7. InThree(s, t, q, a) BY SeenIs
<1> HIDE DEF s
<1>3. /\ s \in Seq(EthFrames) /\ Len(s) = Len(t) + Len(q) + Len(a)
      /\ \A i \in 1 .. Len(t) : s[i] = t[i]
      /\ \A i \in 1 .. Len(q) : s[Len(t) + i] = q[i]
      /\ \A i \in 1 .. Len(a) : s[Len(t) + Len(q) + i] = a[i] BY <1>7 DEF InThree
<1>4. Len(s) = Len(t) + Len(q2) + Len(a2) BY <1>0, <1>1, <1>2, <1>3
<1>5. ASSUME NEW i \in 1 .. Len(q2) PROVE s[Len(t) + i] = q2[i]
  <2>1. CASE i <= Len(q)
    <3> i \in 1 .. Len(q) BY <2>1
    <3> QED BY <1>1, <1>3
  <2>2. CASE i > Len(q)
    <3>1. i = Len(q) + 1 BY <2>2, <1>1
    <3>2. 1 \in 1 .. Len(a) BY <1>0
    <3>3. s[Len(t) + Len(q) + 1] = a[1] BY <1>3, <3>2
    <3>4. Len(t) + Len(q) + 1 = Len(t) + i BY <3>1
    <3> QED BY <1>1, <3>1, <3>3, <3>4
  <2> QED BY <2>1, <2>2
<1>6. ASSUME NEW i \in 1 .. Len(a2) PROVE s[Len(t) + Len(q2) + i] = a2[i]
  <2>1. i + 1 \in 1 .. Len(a) BY <1>0, <1>2
  <2>2. s[Len(t) + Len(q) + (i + 1)] = a[i + 1] BY <2>1, <1>3
  <2>3. Len(t) + Len(q) + (i + 1) = Len(t) + Len(q2) + i BY <1>1
  <2> QED BY <2>2, <2>3, <1>2
<1>8. InThree(s, t, q2, a2) BY <1>3, <1>4, <1>5, <1>6 DEF InThree
<1>9. Seen(t, q2, a2) = s BY <1>1, <1>2, <1>8, SeenEquals
<1> QED BY <1>9 DEF q2, a2, s

(* A frame that is taken, whole or too long for its buffer, is seen where  *)
(* it was.                                                                 *)
LEMMA RecvAgrees ==
  ASSUME NEW t \in Seq(EthFrames), NEW q \in Seq(EthFrames), NEW a \in Seq(EthFrames),
         NEW d \in Seq(EthFrames), Agrees(Seen(t, q, a), d, Len(t)), q # <<>>,
         NEW x \in EthFrames, x = Head(q) \/ x = [Head(q) EXCEPT !.len = 0]
  PROVE  Agrees(Seen(Append(t, x), Tail(q), a), d, Len(Append(t, x)))
<1> DEFINE t2 == Append(t, x)
           q2 == Tail(q)
           s == Seen(t, q, a)
           r == Seen(t2, q2, a)
<1>0. Len(q) \in Nat \ {0} BY EmptySeq
<1>1. /\ t2 \in Seq(EthFrames) /\ Len(t2) = Len(t) + 1
      /\ (\A i \in 1 .. Len(t) : t2[i] = t[i]) /\ t2[Len(t) + 1] = x
  OBVIOUS
<1>2. q2 \in Seq(EthFrames) /\ Len(q2) = Len(q) - 1 /\ \A i \in 1 .. Len(q2) : q2[i] = q[i + 1]
  BY <1>0
<1>9. x = q[1] \/ x = [q[1] EXCEPT !.len = 0] BY <1>0
<1> HIDE DEF t2, q2
<1>11. InThree(s, t, q, a) BY SeenIs
<1>12. InThree(r, t2, q2, a) BY <1>1, <1>2, SeenIs
<1>10. Agrees(s, d, Len(t)) OBVIOUS
<1> HIDE DEF s, r
<1>3. /\ s \in Seq(EthFrames) /\ Len(s) = Len(t) + Len(q) + Len(a)
      /\ \A i \in 1 .. Len(t) : s[i] = t[i]
      /\ \A i \in 1 .. Len(q) : s[Len(t) + i] = q[i]
      /\ \A i \in 1 .. Len(a) : s[Len(t) + Len(q) + i] = a[i] BY <1>11 DEF InThree
<1>4. /\ r \in Seq(EthFrames) /\ Len(r) = Len(t2) + Len(q2) + Len(a)
      /\ \A i \in 1 .. Len(t2) : r[i] = t2[i]
      /\ \A i \in 1 .. Len(q2) : r[Len(t2) + i] = q2[i]
      /\ \A i \in 1 .. Len(a) : r[Len(t2) + Len(q2) + i] = a[i] BY <1>12 DEF InThree
<1>5. Len(r) = Len(s) /\ Len(s) = Len(d) BY <1>0, <1>1, <1>2, <1>3, <1>4, <1>10 DEF Agrees
<1>6. ASSUME NEW i \in 1 .. Len(d), i # Len(t) + 1 PROVE r[i] = s[i]
  <2>1. CASE i <= Len(t)
    <3> i \in 1 .. Len(t) /\ i \in 1 .. Len(t2) BY <2>1, <1>1
    <3> QED BY <1>1, <1>3, <1>4
  <2>2. CASE i > Len(t) + 1 /\ i <= Len(t) + Len(q)
    <3> DEFINE j == i - (Len(t) + 1)
    <3>1. j \in 1 .. Len(q2) /\ Len(t) + 1 + j = i BY <2>2, <1>2
    <3> HIDE DEF j
    <3>2. j + 1 \in 1 .. Len(q) BY <3>1, <1>0, <1>2
    <3>3. r[Len(t2) + j] = q2[j] /\ s[Len(t) + (j + 1)] = q[j + 1] BY <1>3, <1>4, <3>1, <3>2
    <3>4. Len(t2) + j = i /\ Len(t) + (j + 1) = i BY <3>1, <1>1
    <3> QED BY <1>2, <3>1, <3>3, <3>4
  <2>3. CASE i > Len(t) + Len(q)
    <3> DEFINE j == i - (Len(t) + Len(q))
    <3>1. j \in 1 .. Len(a) /\ Len(t) + Len(q) + j = i BY <2>3, <1>3, <1>5
    <3> HIDE DEF j
    <3>2. Len(t2) + Len(q2) + j = i BY <3>1, <1>0, <1>1, <1>2
    <3>3. r[Len(t2) + Len(q2) + j] = a[j] /\ s[Len(t) + Len(q) + j] = a[j] BY <1>3, <1>4, <3>1
    <3> QED BY <3>1, <3>2, <3>3
  <2> QED BY <1>6, <2>1, <2>2, <2>3
<1>7. r[Len(t) + 1] = x /\ s[Len(t) + 1] = q[1] /\ Len(t) + 1 \in 1 .. Len(d)
  <2>1. Len(t) + 1 \in 1 .. Len(t2) /\ 1 \in 1 .. Len(q) BY <1>0, <1>1
  <2>2. Len(t) + 1 \in 1 .. Len(d) BY <1>0, <1>3, <1>5
  <2> QED BY <1>1, <1>3, <1>4, <2>1, <2>2
<1>8. ASSUME NEW i \in 1 .. Len(d)
      PROVE r[i] = d[i] \/ (i <= Len(t2) /\ r[i] = [d[i] EXCEPT !.len = 0])
  <2>1. s[i] = d[i] \/ (i <= Len(t) /\ s[i] = [d[i] EXCEPT !.len = 0]) BY <1>10 DEF Agrees
  <2>2. CASE i = Len(t) + 1
    <3>1. s[i] = d[i] BY <2>1, <2>2
    <3> QED BY <1>1, <1>7, <1>9, <2>2, <3>1
  <2>3. CASE i # Len(t) + 1
    <3>1. r[i] = s[i] BY <1>6, <2>3
    <3>2. i <= Len(t) => i <= Len(t2) BY <1>1
    <3> QED BY <2>1, <3>1, <3>2
  <2> QED BY <2>2, <2>3
<1> QED BY <1>5, <1>8 DEF Agrees, r, t2, q2

(* Every step of the data path keeps the invariant.                        *)
LEMMA RxStepInv == RxInv /\ RxNext => RxInv'
<1> SUFFICES ASSUME RxInv, RxNext PROVE RxInv' OBVIOUS
<1>0. /\ got \in Seq(Passed)
      /\ rxq \in Seq(EthFrames) /\ arriving \in Seq(EthFrames) /\ taken \in Seq(EthFrames)
      /\ NoHtc(got) => Agrees(Seen(taken, rxq, arriving), Due(got), Len(taken))
      /\ NoHtc(got) => Due(got) \in Seq(EthFrames)
  BY OrderIs, DueTyped DEF RxInv, RxTypeOK
<1>1. ASSUME NEW f \in RxFrames \cup Later, Receive(f) PROVE RxInv'
  <2>1. f \in AllFrames /\ arriving = <<>> /\ UNCHANGED <<rxq, taken>> BY <1>1 DEF Receive, AllFrames
  <2>2. CASE Passes(f)
    <3>1. arriving' = Convert(f) /\ got' = Append(got, f) BY <1>1, <2>2 DEF Receive
    <3>2. Convert(f) \in Seq(EthFrames) BY <2>1, ConvertTyped
    <3>3. ~ieee80211_has_order(f.fc) => Convert(f) = Meant(f) BY <2>1, <2>2, ConvertIsMeant
    <3>4. f \in Passed BY <2>1, <3>2, <3>3 DEF Passed
    <3>5. got' \in Seq(Passed) BY <1>0, <3>1, <3>4
    <3>6. ASSUME NoHtc(got') PROVE Agrees(Seen(taken', rxq', arriving'), Due(got'), Len(taken'))
      <4>1. /\ NoHtc(got) /\ ~ieee80211_has_order(f.fc)
            /\ Due(got') = Due(got) \o Meant(f) /\ Due(got) \in Seq(EthFrames)
        BY <1>0, <3>1, <3>4, <3>6, DueMore
      <4>2. Agrees(Seen(taken, rxq, <<>>), Due(got), Len(taken)) BY <1>0, <2>1, <4>1
      <4>3. Agrees(Seen(taken, rxq, Convert(f)), Due(got) \o Convert(f), Len(taken))
        BY <1>0, <3>2, <4>1, <4>2, ReceiveAgrees
      <4> QED BY <2>1, <3>1, <3>3, <4>1, <4>3
    <3> QED BY <1>0, <2>1, <3>1, <3>2, <3>5, <3>6, OrderNext DEF RxInv, RxTypeOK
  <2>3. CASE ~Passes(f)
    <3>1. arriving' = arriving /\ got' = got BY <1>1, <2>1, <2>3 DEF Receive
    <3> QED BY <1>0, <2>1, <3>1, OrderNext DEF RxInv, RxTypeOK
  <2> QED BY <2>2, <2>3
<1>2. CASE QueueOne
  <2>1. /\ arriving # <<>> /\ rxq' = Append(rxq, Head(arriving)) /\ arriving' = Tail(arriving)
        /\ UNCHANGED <<got, taken>>
    BY <1>2 DEF QueueOne
  <2>2. Seen(taken, rxq', arriving') = Seen(taken, rxq, arriving) BY <1>0, <2>1, QueueOneAgrees
  <2>3. rxq' \in Seq(EthFrames) /\ arriving' \in Seq(EthFrames)
    <3> Len(arriving) \in Nat \ {0} BY <1>0, <2>1, EmptySeq
    <3> QED BY <1>0, <2>1
  <2> QED BY <1>0, <2>1, <2>2, <2>3, OrderNext DEF RxInv, RxTypeOK
<1>3. ASSUME NEW len \in RxBuffers, Recv(len) PROVE RxInv'
  <2> DEFINE x == IF len < Head(rxq).len THEN [Head(rxq) EXCEPT !.len = 0] ELSE Head(rxq)
  <2>1. /\ rxq # <<>> /\ rxq' = Tail(rxq) /\ taken' = Append(taken, x)
        /\ UNCHANGED <<got, arriving>>
    BY <1>3 DEF Recv
  <2>2. Len(rxq) \in Nat \ {0} BY <1>0, <2>1, EmptySeq
  <2>3. Head(rxq) \in EthFrames /\ Tail(rxq) \in Seq(EthFrames) BY <1>0, <2>2
  <2>4. x \in EthFrames /\ (x = Head(rxq) \/ x = [Head(rxq) EXCEPT !.len = 0])
    BY <2>3 DEF EthFrames
  <2> HIDE DEF x
  <2>5. taken' \in Seq(EthFrames) BY <1>0, <2>1, <2>4
  <2>6. ASSUME NoHtc(got) PROVE Agrees(Seen(taken', rxq', arriving), Due(got), Len(taken'))
    BY <1>0, <2>1, <2>4, <2>6, RecvAgrees
  <2> QED BY <1>0, <2>1, <2>3, <2>5, <2>6, OrderNext DEF RxInv, RxTypeOK
<1>4. CASE (\E b \in BSSIDs : RxConnect(b)) \/ RxDisconnect
  <2>1. UNCHANGED <<got, rxq, arriving, taken>> BY <1>4 DEF RxConnect, RxDisconnect
  <2> QED BY <1>0, <2>1, OrderNext DEF RxInv, RxTypeOK
<1>5. CASE RxUnregister
  <2>1. got' = <<>> /\ rxq' = <<>> /\ arriving' = <<>> /\ taken' = <<>>
    BY <1>5 DEF RxUnregister
  <2>2. <<>> \in Seq(Passed) /\ <<>> \in Seq(EthFrames) /\ Len(<<>>) = 0 OBVIOUS
  <2>3. Seen(<<>>, <<>>, <<>>) = <<>> BY DEF Seen
  <2>4. Agrees(<<>>, <<>>, 0) BY DEF Agrees
  <2> QED BY <2>1, <2>2, <2>3, <2>4, DueNothing, OrderNext DEF RxInv, RxTypeOK
<1> QED BY <1>1, <1>2, <1>3, <1>4, <1>5 DEF RxNext

(* Nothing is received, queued or taken at first.                          *)
LEMMA RxInitInv == RxInit => RxInv
<1> SUFFICES ASSUME RxInit PROVE RxInv OBVIOUS
<1>1. got = <<>> /\ rxq = <<>> /\ arriving = <<>> /\ taken = <<>> BY DEF RxInit
<1>2. <<>> \in Seq(Passed) /\ <<>> \in Seq(EthFrames) /\ Len(<<>>) = 0 OBVIOUS
<1>3. Seen(<<>>, <<>>, <<>>) = <<>> BY DEF Seen
<1>4. Agrees(<<>>, <<>>, 0) BY DEF Agrees
<1> QED BY <1>1, <1>2, <1>3, <1>4, DueNothing, OrderIs DEF RxInv, RxTypeOK

(* A step elsewhere keeps the invariant.                                   *)
LEMMA RxStutterInv == RxInv /\ UNCHANGED rxVars => RxInv'
<1> SUFFICES ASSUME RxInv, UNCHANGED rxVars PROVE RxInv' OBVIOUS
<1>1. UNCHANGED <<got, rxq, arriving, taken>> BY DEF rxVars
<1> QED BY <1>1, OrderIs, OrderNext DEF RxInv, RxTypeOK

(* What the native stack has taken, what is queued for it and what is being*)
(* queued are together the MSDUs the received frames should deliver, each  *)
(* once and in order, for all frames with any MSDUs, wherever they are cut *)
(* and whichever of their buffers cannot be allocated (mac80211.c): as     *)
(* RxInOrder says it, of histories without an HT control field and without *)
(* the protected frames that are no A-MSDU, which are refused.             *)
THEOREM ReceivedInOrder == RxInit /\ [][RxNext]_rxVars => []RxInOrder
<1>1. RxInv => RxInOrder BY DEF RxInv
<1>2. RxInit /\ [][RxNext]_rxVars => []RxInv BY RxInitInv, RxStepInv, RxStutterInv, PTL
<1> QED BY <1>1, <1>2, PTL

==============================================================================
