---------------------------- MODULE Rules_proofs ----------------------------
(***************************************************************************)
(* Theorems about the rules for texts, for texts of any length and limits  *)
(* of any size.                                                            *)
(***************************************************************************)
EXTENDS Rules, FiniteSetTheorems, SequenceTheorems, WellFoundedInduction, TLAPS

(* Every set of numbers that is not empty has a least one. *)
LEMMA Least ==
    ASSUME NEW T \in SUBSET Nat, T # {}
    PROVE  \E x \in T : \A y \in T : x =< y
<1> DEFINE F == {0 .. x : x \in T}
           R == StrictSubsetOrdering(Nat)
<1>1. F \subseteq FiniteSubsetsOf(Nat) /\ F # {}
  <2>1. \A x \in T : IsFiniteSet(0 .. x) /\ 0 .. x \in SUBSET Nat
    BY FS_Interval
  <2> QED
    BY <2>1 DEF FiniteSubsetsOf
<1>2. IsWellFoundedOn(R, FiniteSubsetsOf(Nat))
  BY FS_StrictSubsetOrderingWellFounded
<1>3. \E S \in F : \A U \in F : ~ (<<U, S>> \in R)
  <2> HIDE DEF F, R
  <2> QED
    BY <1>1, <1>2, WFMin
<1>4. PICK x \in T : \A y \in T : ~ (<<0 .. y, 0 .. x>> \in R)
  BY <1>3
<1>5. ASSUME NEW y \in T, y < x PROVE FALSE
  <2>1. 0 .. y \in SUBSET Nat /\ 0 .. x \in SUBSET Nat
    OBVIOUS
  <2>2. 0 .. y \subseteq 0 .. x /\ x \in 0 .. x /\ x \notin 0 .. y
    BY <1>5
  <2>3. <<0 .. y, 0 .. x>> \in R
    BY <2>1, <2>2 DEF StrictSubsetOrdering
  <2> QED
    BY <1>4, <2>3
<1> QED
  BY <1>5

(* What holds of the empty text, and of a text with one more rune if it    *)
(* holds of the text, holds of every text.                                 *)
Grows(G) == \A s \in Seq(Rune), r \in Rune : s \in G => Append(s, r) \in G

LEMMA EveryText ==
    ASSUME NEW G, <<>> \in G, Grows(G)
    PROVE  Seq(Rune) \subseteq G
<1> DEFINE T == {Len(s) : s \in Seq(Rune) \ G}
<1> SUFFICES ASSUME T # {} PROVE FALSE
  OBVIOUS
<1>1. PICK n \in T : \A m \in T : n =< m
  <2>1. T \in SUBSET Nat
    OBVIOUS
  <2> HIDE DEF T
  <2> QED
    BY <2>1, Least
<1>2. PICK s \in Seq(Rune) \ G : Len(s) = n
  BY <1>1
<1>3. PICK u \in Seq(Rune), r \in Rune : s = Append(u, r)
  BY <1>2, SequenceEmptyOrAppend
<1>4. u \notin G
  BY <1>2, <1>3 DEF Grows
<1>5. Len(u) \in T /\ Len(u) < n /\ Len(u) \in Nat /\ n \in Nat
  BY <1>2, <1>3, <1>4, AppendProperties
<1> QED
  BY <1>1, <1>5
-----------------------------------------------------------------------------
(* The loops of the module: a state that each rune of a text moves on.     *)
Obeys(g, A, start, step, n) ==
    /\ g[0] = start
    /\ \A k \in 1 .. n : g[k - 1] \in A => g[k] = step[k][g[k - 1]]

LEMMA LoopResult ==
    ASSUME NEW A, NEW start \in A, NEW n \in Nat, NEW step \in [1 .. n -> [A -> A]],
           NEW m \in 0 .. n, NEW g, NEW h,
           Obeys(g, A, start, step, n), Obeys(h, A, start, step, m)
    PROVE  \A k \in 0 .. m : g[k] = h[k] /\ g[k] \in A
<1> DEFINE T == {k \in 0 .. m : ~ (g[k] = h[k] /\ g[k] \in A)}
<1> SUFFICES ASSUME T # {} PROVE FALSE
  OBVIOUS
<1>1. PICK k \in T : \A j \in T : k =< j
  <2>1. T \in SUBSET Nat
    OBVIOUS
  <2> HIDE DEF T
  <2> QED
    BY <2>1, Least
<1>2. k # 0
  BY <1>1 DEF Obeys
<1>3. k - 1 \in 0 .. m /\ k - 1 \notin T /\ k \in 1 .. m /\ k \in 1 .. n
  BY <1>1, <1>2
<1>4. g[k - 1] = h[k - 1] /\ g[k - 1] \in A
  BY <1>3
<1>5. step[k][g[k - 1]] \in A
  BY <1>3, <1>4
<1> QED
  BY <1>1, <1>3, <1>4, <1>5 DEF Obeys

LEMMA LoopExists ==
    ASSUME NEW A, NEW start \in A, NEW n \in Nat, NEW step \in [1 .. n -> [A -> A]]
    PROVE  \E g \in [0 .. n -> A] : Obeys(g, A, start, step, n)
<1> DEFINE T == {m \in 0 .. n : ~ \E g \in [0 .. m -> A] : Obeys(g, A, start, step, m)}
<1> SUFFICES ASSUME T # {} PROVE FALSE
  OBVIOUS
<1>1. PICK m \in T : \A k \in T : m =< k
  <2>1. T \in SUBSET Nat
    OBVIOUS
  <2> HIDE DEF T
  <2> QED
    BY <2>1, Least
<1>2. m # 0
  <2>1. Obeys([k \in 0 .. 0 |-> start], A, start, step, 0)
    BY DEF Obeys
  <2>2. [k \in 0 .. 0 |-> start] \in [0 .. 0 -> A]
    OBVIOUS
  <2> QED
    BY <1>1, <2>1, <2>2
<1>3. m - 1 \in 0 .. n /\ m - 1 \notin T /\ m \in 1 .. n
  BY <1>1, <1>2
<1>4. PICK g \in [0 .. m - 1 -> A] : Obeys(g, A, start, step, m - 1)
  BY <1>3
<1> DEFINE h == [k \in 0 .. m |-> IF k = m THEN step[m][g[m - 1]] ELSE g[k]]
<1>5. h \in [0 .. m -> A]
  BY <1>3, <1>4
<1>6. h[0] = start /\ \A k \in 1 .. m - 1 : h[k] = g[k] /\ h[k - 1] = g[k - 1]
  BY <1>3, <1>4 DEF Obeys
<1>7. h[m] = step[m][g[m - 1]] /\ h[m - 1] = g[m - 1]
  BY <1>3
<1>8. Obeys(h, A, start, step, m)
  <2> SUFFICES ASSUME NEW k \in 1 .. m, h[k - 1] \in A PROVE h[k] = step[k][h[k - 1]]
    BY <1>6 DEF Obeys
  <2>1. CASE k = m
    BY <2>1, <1>7
  <2>2. CASE k \in 1 .. m - 1
    BY <2>2, <1>4, <1>6 DEF Obeys
  <2> QED
    BY <2>1, <2>2, <1>3
<1> QED
  BY <1>1, <1>5, <1>8
-----------------------------------------------------------------------------
(* Squeeze, one rune at a time. *)
Start == [b |-> <<>>, pendingSpace |-> FALSE]

LoopState == [b : Seq(Rune), pendingSpace : BOOLEAN]

LEMMA RuneSets ==
    /\ Space \subseteq Rune /\ Invisible \subseteq Rune /\ Punct \subseteq Rune
    /\ Symbol \subseteq Rune /\ Letters \subseteq Rune /\ Blank \in Space
    /\ Space \cap (Invisible \cup Punct \cup Symbol \cup Letters) = {}
BY DEF Space, Invisible, Punct, Symbol, Letters, Rune, Blank

LEMMA WriteSpace ==
    ASSUME NEW dropped, NEW acc \in LoopState, NEW r \in Space
    PROVE  Write(dropped, acc, r) = [b |-> acc.b, pendingSpace |-> TRUE]
BY DEF Write, LoopState

LEMMA WriteDropped ==
    ASSUME NEW dropped, NEW acc \in LoopState, NEW r \in dropped, r \notin Space
    PROVE  Write(dropped, acc, r) = acc
BY DEF Write, LoopState

LEMMA WriteKept ==
    ASSUME NEW dropped, NEW acc \in LoopState, NEW r, r \notin dropped, r \notin Space
    PROVE  Write(dropped, acc, r) =
              [b |-> IF acc.pendingSpace /\ acc.b # <<>>
                     THEN Append(Append(acc.b, Blank), r) ELSE Append(acc.b, r),
               pendingSpace |-> FALSE]
<1>1. acc.b \in Seq(Rune)
  BY DEF LoopState
<1>2. acc.b \o <<r>> = Append(acc.b, r)
  BY <1>1, AppendIsConcat
<1>3. acc.b \o <<Blank, r>> = Append(Append(acc.b, Blank), r)
  BY <1>1
<1> QED
  BY <1>2, <1>3 DEF Write

LEMMA WriteType ==
    ASSUME NEW dropped, NEW acc \in LoopState, NEW r \in Rune
    PROVE  Write(dropped, acc, r) \in LoopState
<1>0. acc.b \in Seq(Rune) /\ Blank \in Rune
  BY RuneSets DEF LoopState
<1>1. CASE r \in Space
  <2>1. Write(dropped, acc, r) = [b |-> acc.b, pendingSpace |-> TRUE]
    BY <1>1, WriteSpace
  <2> QED
    BY <1>0, <2>1 DEF LoopState
<1>2. CASE r \notin Space /\ r \in dropped
  BY <1>2, WriteDropped
<1>3. CASE r \notin Space /\ r \notin dropped
  <2>1. Append(acc.b, r) \in Seq(Rune) /\ Append(Append(acc.b, Blank), r) \in Seq(Rune)
    BY <1>0, AppendProperties
  <2>2. Write(dropped, acc, r) =
              [b |-> IF acc.pendingSpace /\ acc.b # <<>>
                     THEN Append(Append(acc.b, Blank), r) ELSE Append(acc.b, r),
               pendingSpace |-> FALSE]
    BY <1>3, WriteKept
  <2> QED
    BY <2>1, <2>2 DEF LoopState
<1> QED
  BY <1>1, <1>2, <1>3

StepOf(dropped, s) ==
    [k \in 1 .. Len(s) |-> [acc \in LoopState |-> Write(dropped, acc, s[k])]]

IsAfter(g, dropped, s) ==
    g = [k \in 0 .. Len(s) |-> IF k = 0 THEN Start ELSE Write(dropped, g[k - 1], s[k])]

LEMMA StepOfType ==
    ASSUME NEW dropped, NEW s \in Seq(Rune)
    PROVE  StepOf(dropped, s) \in [1 .. Len(s) -> [LoopState -> LoopState]]
<1> SUFFICES ASSUME NEW k \in 1 .. Len(s), NEW acc \in LoopState
             PROVE  Write(dropped, acc, s[k]) \in LoopState
  BY DEF StepOf
<1>1. s[k] \in Rune
  BY ElementOfSeq
<1> QED
  BY <1>1, WriteType

LEMMA AfterObeys ==
    ASSUME NEW dropped, NEW s \in Seq(Rune), NEW g, IsAfter(g, dropped, s)
    PROVE  Obeys(g, LoopState, Start, StepOf(dropped, s), Len(s))
<1>1. Len(s) \in Nat
  OBVIOUS
<1>2. g[0] = Start /\ \A k \in 1 .. Len(s) : g[k] = Write(dropped, g[k - 1], s[k])
  BY <1>1 DEF IsAfter
<1> QED
  BY <1>2 DEF Obeys, StepOf

LEMMA WrittenIsAfter ==
    ASSUME NEW dropped, NEW s \in Seq(Rune)
    PROVE  \E g : IsAfter(g, dropped, s) /\ Written(dropped, s) = g[Len(s)]
<1>0. Len(s) \in Nat /\ Start \in LoopState
  BY DEF Start, LoopState
<1>1. PICK g \in [0 .. Len(s) -> LoopState] :
              Obeys(g, LoopState, Start, StepOf(dropped, s), Len(s))
  BY <1>0, StepOfType, LoopExists
<1>2. ASSUME NEW k \in 1 .. Len(s) PROVE g[k] = Write(dropped, g[k - 1], s[k])
  <2>1. k - 1 \in 0 .. Len(s)
    BY <1>0
  <2>2. g[k - 1] \in LoopState
    BY <1>1, <2>1
  <2> QED
    BY <1>1, <2>2 DEF Obeys, StepOf
<1>3. IsAfter(g, dropped, s)
  BY <1>0, <1>1, <1>2 DEF IsAfter, Obeys
<1>4. Written(dropped, s) = (CHOOSE h : IsAfter(h, dropped, s))[Len(s)]
  BY DEF Written, IsAfter, Start
<1> QED
  BY <1>3, <1>4

(* The loop starts with nothing written, and each rune is one more round. *)
LEMMA WrittenUnfolds ==
    /\ \A dropped : Written(dropped, <<>>) = Start
    /\ \A dropped : \A s \in Seq(Rune) : Written(dropped, s) \in LoopState
    /\ \A dropped : \A s \in Seq(Rune), r \in Rune :
          Written(dropped, Append(s, r)) = Write(dropped, Written(dropped, s), r)
<1>0. Start \in LoopState
  BY DEF Start, LoopState
<1>1. ASSUME NEW dropped PROVE Written(dropped, <<>>) = Start
  <2>1. PICK g : IsAfter(g, dropped, <<>>) /\ Written(dropped, <<>>) = g[Len(<<>>)]
    BY WrittenIsAfter, EmptySeq
  <2> QED
    BY <2>1 DEF IsAfter
<1>2. ASSUME NEW dropped, NEW s \in Seq(Rune), NEW r \in Rune
      PROVE  /\ Written(dropped, s) \in LoopState
             /\ Written(dropped, Append(s, r)) = Write(dropped, Written(dropped, s), r)
  <2> DEFINE t == Append(s, r)
             n == Len(s)
  <2>1. t \in Seq(Rune) /\ Len(t) = n + 1 /\ n \in Nat /\ t[n + 1] = r
        /\ \A k \in 1 .. n : t[k] = s[k]
    BY AppendProperties
  <2>2. PICK g : IsAfter(g, dropped, s) /\ Written(dropped, s) = g[n]
    BY WrittenIsAfter
  <2>3. PICK h : IsAfter(h, dropped, t) /\ Written(dropped, t) = h[n + 1]
    BY <2>1, WrittenIsAfter
  <2> HIDE DEF t
  <2>4. Obeys(g, LoopState, Start, StepOf(dropped, s), n)
    BY <2>2, AfterObeys
  <2>5. Obeys(h, LoopState, Start, StepOf(dropped, t), n + 1)
    BY <2>1, <2>3, AfterObeys
  <2>6. \A k \in 1 .. n : StepOf(dropped, t)[k] = StepOf(dropped, s)[k]
    BY <2>1 DEF StepOf
  <2>7. Obeys(h, LoopState, Start, StepOf(dropped, s), n)
    BY <2>1, <2>5, <2>6 DEF Obeys
  <2>8. g[n] = h[n] /\ g[n] \in LoopState
    <3>1. n \in 0 .. n
      BY <2>1
    <3> HIDE DEF n
    <3> QED
      BY <1>0, <2>1, <2>4, <2>7, <3>1, StepOfType, LoopResult DEF n
  <2>9. h[n + 1] = Write(dropped, h[n], r)
    BY <2>1, <2>3 DEF IsAfter
  <2> QED
    BY <2>2, <2>3, <2>8, <2>9 DEF t
<1>3. \A dropped : \A s \in Seq(Rune) : Written(dropped, s) \in LoopState
  <2>1. PICK r : r \in Rune
    BY RuneSets
  <2> QED
    BY <2>1, <1>2
<1> QED
  BY <1>1, <1>2, <1>3
-----------------------------------------------------------------------------
(* Two passes are one that drops what either drops. *)
Fused(a, b, c) ==
    /\ b.b = c.b
    /\ c.b # <<>> => a.b # <<>> /\ (c.pendingSpace <=> a.pendingSpace \/ b.pendingSpace)

LEMMA FusedStep ==
    ASSUME NEW D1, NEW D2, NEW s \in Seq(Rune), NEW r \in Rune,
           Fused(Written(D1, s), Written(D2, Squeeze(D1, s)), Written(D1 \cup D2, s))
    PROVE  LET t == Append(s, r) IN
           Fused(Written(D1, t), Written(D2, Squeeze(D1, t)), Written(D1 \cup D2, t))
<1> DEFINE a == Written(D1, s)
           b == Written(D2, a.b)
           c == Written(D1 \cup D2, s)
           aa == Write(D1, a, r)
           bb == Written(D2, aa.b)
           cc == Write(D1 \cup D2, c, r)
<1>0. /\ a \in LoopState /\ c \in LoopState
      /\ a.b \in Seq(Rune)
      /\ b \in LoopState
  <2>1. a \in LoopState /\ c \in LoopState
    BY WrittenUnfolds
  <2>2. a.b \in Seq(Rune)
    BY <2>1 DEF LoopState
  <2> QED
    BY <2>1, <2>2, WrittenUnfolds
<1>1. Fused(a, b, c)
  BY DEF Squeeze
<1>2. SUFFICES Fused(aa, bb, cc)
  BY WrittenUnfolds DEF Squeeze
<1>3. CASE r \in Space
  <2>1. aa = [b |-> a.b, pendingSpace |-> TRUE] /\ cc = [b |-> c.b, pendingSpace |-> TRUE]
    BY <1>0, <1>3, WriteSpace
  <2> HIDE DEF a, b, c, aa, cc
  <2>2. aa.b = a.b /\ cc.b = c.b /\ aa.pendingSpace /\ cc.pendingSpace
    BY <2>1
  <2>3. bb = b
    BY <2>2 DEF b
  <2> QED
    BY <1>1, <2>2, <2>3 DEF Fused
<1>4. CASE r \notin Space /\ r \in D1
  <2>1. aa = a /\ cc = c
    <3> HIDE DEF a, b, c
    <3> QED
      BY <1>0, <1>4, WriteDropped
  <2> QED
    BY <1>1, <2>1
<1>5. CASE r \notin Space /\ r \notin D1
  <2> DEFINE apart == a.pendingSpace /\ a.b # <<>>
             mid == IF apart THEN Append(a.b, Blank) ELSE a.b
  <2>1. aa = [b |-> Append(mid, r), pendingSpace |-> FALSE]
    <3> HIDE DEF a, b, c
    <3> QED
      BY <1>0, <1>5, WriteKept
  <2>2. mid \in Seq(Rune) /\ Blank \in Rune /\ Blank \in Space
    BY <1>0, RuneSets, AppendProperties
  <2> DEFINE m == Written(D2, mid)
  <2>3. m = IF apart THEN [b |-> b.b, pendingSpace |-> TRUE] ELSE b
    <3>1. CASE apart
      <4>1. m = Write(D2, b, Blank)
        BY <1>0, <2>2, <3>1, WrittenUnfolds
      <4> HIDE DEF b, m
      <4> QED
        BY <1>0, <2>2, <3>1, <4>1, WriteSpace
    <3>2. CASE ~apart
      BY <3>2
    <3> QED
      BY <3>1, <3>2
  <2>4. m \in LoopState /\ bb = Write(D2, m, r)
    <3>1. aa.b = Append(mid, r)
      BY <2>1
    <3>2. Written(D2, Append(mid, r)) = Write(D2, m, r) /\ m \in LoopState
      <4> HIDE DEF mid
      <4> QED
        BY <2>2, WrittenUnfolds
    <3> QED
      BY <3>1, <3>2
  <2>5. aa.b # <<>> /\ ~aa.pendingSpace
    <3> HIDE DEF mid
    <3> QED
      BY <2>1, <2>2, AppendProperties
  <2>6. /\ m.b = c.b
        /\ c.b # <<>> => (c.pendingSpace <=> m.pendingSpace)
    <3> HIDE DEF a, b, c, m
    <3> QED
      BY <1>1, <2>3 DEF Fused
  <2> HIDE DEF a, b, c, m, aa, bb, mid
  <2>7. CASE r \in D2
    <3>1. cc = c /\ bb = m
      BY <1>0, <1>5, <2>4, <2>7, WriteDropped
    <3> HIDE DEF cc
    <3> QED
      BY <2>5, <2>6, <3>1 DEF Fused
  <2>8. CASE r \notin D2
    <3>0. r \notin D1 \cup D2
      BY <1>5, <2>8
    <3>1. cc = [b |-> IF c.pendingSpace /\ c.b # <<>>
                      THEN Append(Append(c.b, Blank), r) ELSE Append(c.b, r),
                pendingSpace |-> FALSE]
      BY <1>0, <1>5, <3>0, WriteKept
    <3>2. bb = [b |-> IF m.pendingSpace /\ m.b # <<>>
                      THEN Append(Append(m.b, Blank), r) ELSE Append(m.b, r),
                pendingSpace |-> FALSE]
      BY <1>5, <2>4, <2>8, WriteKept
    <3> HIDE DEF cc
    <3>3. (c.pendingSpace /\ c.b # <<>>) <=> (m.pendingSpace /\ m.b # <<>>)
      BY <2>6
    <3>4. bb = cc
      BY <2>6, <3>1, <3>2, <3>3
    <3>5. ~cc.pendingSpace
      BY <3>1
    <3> QED
      BY <2>5, <3>4, <3>5 DEF Fused
  <2> QED
    BY <2>7, <2>8
<1> QED
  BY <1>3, <1>4, <1>5

LEMMA SqueezeType ==
    ASSUME NEW dropped, NEW s \in Seq(Rune)
    PROVE  Squeeze(dropped, s) \in Seq(Rune)
<1>1. Written(dropped, s) \in LoopState
  BY WrittenUnfolds
<1> QED
  BY <1>1 DEF Squeeze, LoopState

LEMMA SqueezeTwice ==
    ASSUME NEW D1, NEW D2, NEW s \in Seq(Rune)
    PROVE  Squeeze(D2, Squeeze(D1, s)) = Squeeze(D1 \cup D2, s)
<1> DEFINE IsFused(t) ==
               Fused(Written(D1, t), Written(D2, Squeeze(D1, t)), Written(D1 \cup D2, t))
           G == {t \in Seq(Rune) : IsFused(t)}
<1>1. <<>> \in G
  <2>1. IsFused(<<>>)
    BY WrittenUnfolds DEF Fused, Start, Squeeze
  <2> QED
    BY <2>1, EmptySeq
<1>2. Grows(G)
  <2>1. ASSUME NEW t \in Seq(Rune), NEW r \in Rune, IsFused(t) PROVE IsFused(Append(t, r))
    BY <2>1, FusedStep
  <2>2. \A t \in Seq(Rune), r \in Rune : Append(t, r) \in Seq(Rune)
    BY AppendProperties
  <2> HIDE DEF IsFused
  <2> QED
    BY <2>1, <2>2 DEF Grows
<1>3. IsFused(s)
  <2> HIDE DEF G
  <2>1. s \in G
    BY <1>1, <1>2, EveryText
  <2> QED
    BY <2>1 DEF G
<1> QED
  BY <1>3 DEF Fused, Squeeze
-----------------------------------------------------------------------------
(* Capitals make no difference to what the loop drops or keeps. *)
Lower(r) == IF r = "F" THEN "f" ELSE r

Caseless(dropped) == \A r \in Rune : Lower(r) \in dropped <=> r \in dropped

LEMMA LowerRune ==
    ASSUME NEW r \in Rune
    PROVE  /\ Lower(r) \in Rune
           /\ Lower(Lower(r)) = Lower(r)
           /\ Lower(r) \in Space <=> r \in Space
           /\ Lower(r) \in Letters <=> r \in Letters
           /\ r \in Space => Lower(r) = r
BY DEF Lower, Rune, Space, Invisible, Punct, Symbol, Letters, Blank

LEMMA InvisibleAndMarksCaseless ==
    /\ Caseless(Invisible)
    /\ Caseless(Punct \cup Symbol)
    /\ Caseless(Invisible \cup (Punct \cup Symbol))
BY DEF Caseless, Lower, Rune, Space, Invisible, Punct, Symbol, Letters, Blank

LEMMA ToLowerType ==
    ASSUME NEW s \in Seq(Rune)
    PROVE  /\ ToLower(s) \in Seq(Rune)
           /\ Len(ToLower(s)) = Len(s)
           /\ \A i \in 1 .. Len(s) : ToLower(s)[i] = Lower(s[i])
<1>1. Len(s) \in Nat /\ DOMAIN s = 1 .. Len(s)
  OBVIOUS
<1>2. ToLower(s) = [i \in 1 .. Len(s) |-> Lower(s[i])]
  BY <1>1 DEF ToLower, Lower
<1>3. \A i \in 1 .. Len(s) : Lower(s[i]) \in Rune
  BY ElementOfSeq, LowerRune
<1>4. ToLower(s) \in Seq(Rune)
  BY <1>1, <1>2, <1>3, IsASeq
<1>5. DOMAIN ToLower(s) = 1 .. Len(s)
  BY <1>2
<1>6. Len(ToLower(s)) = Len(s)
  BY <1>1, <1>4, <1>5, LenProperties
<1> QED
  BY <1>2, <1>4, <1>6

LEMMA ToLowerAppend ==
    /\ ToLower(<<>>) = <<>>
    /\ \A s \in Seq(Rune), r \in Rune :
          ToLower(Append(s, r)) = Append(ToLower(s), Lower(r))
<1>1. ToLower(<<>>) = <<>>
  BY ToLowerType, EmptySeq
<1>2. ASSUME NEW s \in Seq(Rune), NEW r \in Rune
      PROVE  ToLower(Append(s, r)) = Append(ToLower(s), Lower(r))
  <2> DEFINE t == Append(s, r)
             u == Append(ToLower(s), Lower(r))
  <2>1. t \in Seq(Rune) /\ Len(t) = Len(s) + 1 /\ t[Len(s) + 1] = r
        /\ \A i \in 1 .. Len(s) : t[i] = s[i]
    BY AppendProperties
  <2>2. ToLower(s) \in Seq(Rune) /\ Len(ToLower(s)) = Len(s) /\ Lower(r) \in Rune
    BY ToLowerType, LowerRune
  <2>3. u \in Seq(Rune) /\ Len(u) = Len(s) + 1 /\ u[Len(s) + 1] = Lower(r)
        /\ \A i \in 1 .. Len(s) : u[i] = ToLower(s)[i]
    BY <2>2, AppendProperties
  <2>4. ToLower(t) \in Seq(Rune) /\ Len(ToLower(t)) = Len(s) + 1
    BY <2>1, ToLowerType
  <2> HIDE DEF t, u
  <2>5. \A i \in 1 .. Len(s) + 1 : ToLower(t)[i] = u[i]
    <3> SUFFICES ASSUME NEW i \in 1 .. Len(s) + 1 PROVE ToLower(t)[i] = u[i]
      OBVIOUS
    <3>1. ToLower(t)[i] = Lower(t[i])
      BY <2>1, ToLowerType
    <3>2. CASE i = Len(s) + 1
      BY <2>1, <2>3, <3>1, <3>2
    <3>3. CASE i \in 1 .. Len(s)
      BY <2>1, <2>3, <3>1, <3>3, ToLowerType
    <3>4. Len(s) \in Nat
      OBVIOUS
    <3> QED
      BY <3>2, <3>3, <3>4
  <2>6. ToLower(t) = u
    BY <2>3, <2>4, <2>5, SeqEqual
  <2> QED
    BY <2>6 DEF t, u
<1> QED
  BY <1>1, <1>2

(* The loop over the text in lower case runs as the one over the text. *)
Alike(a, b) == a.b = ToLower(b.b) /\ a.pendingSpace = b.pendingSpace

LEMMA AlikeStep ==
    ASSUME NEW dropped, Caseless(dropped), NEW a \in LoopState, NEW b \in LoopState,
           Alike(a, b), NEW r \in Rune
    PROVE  Alike(Write(dropped, a, Lower(r)), Write(dropped, b, r))
<1>0. /\ Lower(r) \in Space <=> r \in Space
      /\ Lower(r) \in dropped <=> r \in dropped
      /\ a.b \in Seq(Rune) /\ b.b \in Seq(Rune)
  BY LowerRune DEF Caseless, LoopState
<1>1. CASE r \in Space
  <2>1. /\ Write(dropped, a, Lower(r)) = [b |-> a.b, pendingSpace |-> TRUE]
        /\ Write(dropped, b, r) = [b |-> b.b, pendingSpace |-> TRUE]
    BY <1>0, <1>1, WriteSpace
  <2> QED
    BY <2>1 DEF Alike
<1>2. CASE r \notin Space /\ r \in dropped
  BY <1>0, <1>2, WriteDropped
<1>3. CASE r \notin Space /\ r \notin dropped
  <2> DEFINE w(acc, q) == IF acc.pendingSpace /\ acc.b # <<>>
                          THEN Append(Append(acc.b, Blank), q) ELSE Append(acc.b, q)
  <2>1. /\ Write(dropped, a, Lower(r)) = [b |-> w(a, Lower(r)), pendingSpace |-> FALSE]
        /\ Write(dropped, b, r) = [b |-> w(b, r), pendingSpace |-> FALSE]
    BY <1>0, <1>3, WriteKept
  <2>2. ToLower(b.b) = <<>> <=> b.b = <<>>
    BY <1>0, ToLowerType, EmptySeq
  <2>3. Blank \in Rune /\ Lower(Blank) = Blank /\ Append(b.b, Blank) \in Seq(Rune)
    BY <1>0, RuneSets, LowerRune, AppendProperties
  <2>4. /\ ToLower(Append(b.b, r)) = Append(ToLower(b.b), Lower(r))
        /\ ToLower(Append(Append(b.b, Blank), r)) =
              Append(Append(ToLower(b.b), Blank), Lower(r))
    BY <1>0, <2>3, ToLowerAppend
  <2>5. w(a, Lower(r)) = ToLower(w(b, r))
    BY <2>2, <2>4 DEF Alike
  <2> HIDE DEF w
  <2> QED
    BY <2>1, <2>5 DEF Alike
<1> QED
  BY <1>1, <1>2, <1>3

LEMMA SqueezeLower ==
    ASSUME NEW dropped, Caseless(dropped), NEW s \in Seq(Rune)
    PROVE  Squeeze(dropped, ToLower(s)) = ToLower(Squeeze(dropped, s))
<1> DEFINE IsAlike(t) == Alike(Written(dropped, ToLower(t)), Written(dropped, t))
           G == {t \in Seq(Rune) : IsAlike(t)}
<1>1. <<>> \in G
  <2>1. IsAlike(<<>>)
    BY ToLowerAppend, WrittenUnfolds DEF Alike, Start
  <2> QED
    BY <2>1, EmptySeq
<1>2. Grows(G)
  <2>1. ASSUME NEW t \in Seq(Rune), NEW r \in Rune, IsAlike(t) PROVE IsAlike(Append(t, r))
    <3>1. ToLower(t) \in Seq(Rune) /\ Lower(r) \in Rune
      BY ToLowerType, LowerRune
    <3>2. Written(dropped, ToLower(Append(t, r))) =
             Write(dropped, Written(dropped, ToLower(t)), Lower(r))
      <4>1. ToLower(Append(t, r)) = Append(ToLower(t), Lower(r))
        BY ToLowerAppend
      <4> QED
        BY <3>1, <4>1, WrittenUnfolds
    <3>4. Written(dropped, Append(t, r)) = Write(dropped, Written(dropped, t), r)
      BY WrittenUnfolds
    <3>3. Written(dropped, ToLower(t)) \in LoopState /\ Written(dropped, t) \in LoopState
      BY <3>1, WrittenUnfolds
    <3> QED
      BY <2>1, <3>2, <3>3, <3>4, AlikeStep
  <2>2. \A t \in Seq(Rune), r \in Rune : Append(t, r) \in Seq(Rune)
    BY AppendProperties
  <2> HIDE DEF IsAlike
  <2> QED
    BY <2>1, <2>2 DEF Grows
<1>3. IsAlike(s)
  <2> HIDE DEF G
  <2>1. s \in G
    BY <1>1, <1>2, EveryText
  <2> QED
    BY <2>1 DEF G
<1> QED
  BY <1>3 DEF Alike, Squeeze

(* Cleaning a second time changes nothing, and the two passes of the       *)
(* duplicate check are one over the sentence as typed.                     *)
LEMMA NormalizeTwice ==
    ASSUME NEW s \in Seq(Rune)
    PROVE  /\ normalize(s) \in Seq(Rune)
           /\ normalize(normalize(s)) = normalize(s)
<1>1. Invisible \cup Invisible = Invisible
  OBVIOUS
<1> QED
  BY <1>1, SqueezeTwice, SqueezeType DEF normalize

LEMMA FingerprintOnePass ==
    ASSUME NEW s \in Seq(Rune)
    PROVE  fingerprint(s) = Squeeze(Invisible \cup (Punct \cup Symbol), ToLower(s))
<1>1. ToLower(normalize(s)) = Squeeze(Invisible, ToLower(s))
  BY SqueezeLower, InvisibleAndMarksCaseless DEF normalize
<1> QED
  BY <1>1, ToLowerType, SqueezeTwice DEF fingerprint

(* The texts a visitor types. *)
Typed == act \in Seq(Rune) /\ by \in Seq(Rune)

LEMMA AlwaysTyped == Spec => []Typed
<1>1. Init => Typed
  BY EmptySeq DEF Init, Typed
<1>2. Typed /\ [Next]_vars => Typed'
  <2> SUFFICES ASSUME Typed, [Next]_vars PROVE Typed'
    OBVIOUS
  <2>1. \A r \in Rune : Append(act, r) \in Seq(Rune) /\ Append(by, r) \in Seq(Rune)
    BY AppendProperties DEF Typed
  <2>2. CASE TypeAct
    BY <2>1, <2>2 DEF Typed, TypeAct
  <2>3. CASE TypeBy
    BY <2>1, <2>3 DEF Typed, TypeBy
  <2>4. CASE UNCHANGED vars
    BY <2>4 DEF Typed, vars
  <2> QED
    BY <2>2, <2>3, <2>4 DEF Next
<1> QED
  BY <1>1, <1>2, PTL DEF Spec

(* handleAdd and Add ask the same questions, the first of the text as      *)
(* typed and the second of the cleaned one, and get the same answers.      *)
THEOREM TheChecksAgree == Spec => []ChecksAgree
<1>1. Typed => ChecksAgree
  BY NormalizeTwice DEF Typed, ChecksAgree, fingerprint, Validate
<1> QED
  BY <1>1, AlwaysTyped, PTL
-----------------------------------------------------------------------------
(* The size of a text is a number. *)
SizeStep(s) == [k \in 1 .. Len(s) |-> [n \in Nat |-> n + Bytes[s[k]]]]

IsSum(g, s) == g = [k \in 0 .. Len(s) |-> IF k = 0 THEN 0 ELSE g[k - 1] + Bytes[s[k]]]

LEMMA SizeType ==
    ASSUME NEW s \in Seq(Rune)
    PROVE  Size(s) \in Nat
<1>0. Len(s) \in Nat /\ 0 \in Nat
  OBVIOUS
<1>1. SizeStep(s) \in [1 .. Len(s) -> [Nat -> Nat]]
  <2> SUFFICES ASSUME NEW k \in 1 .. Len(s), NEW n \in Nat
               PROVE  n + Bytes[s[k]] \in Nat
    BY DEF SizeStep
  <2>1. s[k] \in Rune
    BY ElementOfSeq
  <2> QED
    BY <2>1 DEF Bytes
<1>2. PICK g \in [0 .. Len(s) -> Nat] : Obeys(g, Nat, 0, SizeStep(s), Len(s))
  BY <1>0, <1>1, LoopExists
<1>3. ASSUME NEW k \in 1 .. Len(s) PROVE g[k] = g[k - 1] + Bytes[s[k]]
  <2>1. k - 1 \in 0 .. Len(s)
    BY <1>0
  <2>2. g[k - 1] \in Nat
    BY <1>2, <2>1
  <2> QED
    BY <1>2, <2>2 DEF Obeys, SizeStep
<1>4. IsSum(g, s)
  BY <1>0, <1>2, <1>3 DEF IsSum, Obeys
<1>5. Size(s) = (CHOOSE h : IsSum(h, s))[Len(s)]
  BY DEF Size, IsSum
<1>6. PICK h : IsSum(h, s) /\ Size(s) = h[Len(s)]
  BY <1>4, <1>5
<1>7. h[0] = 0 /\ \A k \in 1 .. Len(s) : h[k] = h[k - 1] + Bytes[s[k]]
  BY <1>0, <1>6 DEF IsSum
<1>8. Obeys(h, Nat, 0, SizeStep(s), Len(s))
  BY <1>7 DEF Obeys, SizeStep
<1>9. \A k \in 0 .. Len(s) : g[k] = h[k] /\ g[k] \in Nat
  <2> DEFINE n == Len(s)
  <2>1. n \in Nat /\ n \in 0 .. n
    BY <1>0
  <2>2. SizeStep(s) \in [1 .. n -> [Nat -> Nat]]
    BY <1>1
  <2>3. Obeys(g, Nat, 0, SizeStep(s), n) /\ Obeys(h, Nat, 0, SizeStep(s), n)
    BY <1>2, <1>8
  <2> HIDE DEF n
  <2>4. \A k \in 0 .. n : g[k] = h[k] /\ g[k] \in Nat
    BY <1>0, <2>1, <2>2, <2>3, LoopResult
  <2> QED
    BY <2>4 DEF n
<1> QED
  BY <1>0, <1>6, <1>9

(* What Add takes fits its memo: it was measured with the widest number    *)
(* and the longest signature.                                              *)
THEOREM TakenFits == Spec => []WhatIsTakenFits
<1>1. Typed => WhatIsTakenFits
  <2> SUFFICES ASSUME Typed, fitsOnChain(normalize(act), normalize(by)),
                      NEW digits \in 1 .. MaxDigits, NEW prev \in 1 .. MaxPrev
               PROVE  encodeMemo(digits, normalize(act), normalize(by), prev) =< MaxMemo
    BY DEF WhatIsTakenFits
  <2>1. Size(normalize(act)) \in Nat /\ Size(normalize(by)) \in Nat
    BY NormalizeTwice, SizeType DEF Typed
  <2>2. MaxDigits \in Nat /\ MaxPrev \in Nat /\ MaxMemo \in Nat
    BY RulesAssumption
  <2> QED
    BY <2>1, <2>2 DEF fitsOnChain, encodeMemo
<1> QED
  BY <1>1, AlwaysTyped, PTL
-----------------------------------------------------------------------------
(* A cleaned text is no longer than what it was cleaned from, from the     *)
(* first rune that is no space to the last.                                *)
Solid(s) == {i \in DOMAIN s : s[i] \notin Space}

Below(lo, s) == \A x \in Solid(s) : lo =< x

Bounded(w, s) ==
    w.b # <<>> =>
        \A lo \in Int : Below(lo, s) =>
            /\ Len(w.b) =< Len(s) - lo + 1
            /\ w.pendingSpace => Len(w.b) =< Len(s) - lo
            /\ \E hi \in Solid(s) : Len(w.b) =< hi - lo + 1

LEMMA SolidAppend ==
    ASSUME NEW s \in Seq(Rune), NEW r \in Rune
    PROVE  /\ Solid(Append(s, r)) = Solid(s) \cup (IF r \in Space THEN {} ELSE {Len(s) + 1})
           /\ Solid(s) \subseteq 1 .. Len(s)
           /\ Len(Append(s, r)) = Len(s) + 1
           /\ Append(s, r) \in Seq(Rune)
<1> DEFINE t == Append(s, r)
<1>1. /\ t \in Seq(Rune) /\ Len(t) = Len(s) + 1 /\ t[Len(s) + 1] = r
      /\ \A i \in 1 .. Len(s) : t[i] = s[i]
  BY AppendProperties
<1>2. Len(s) \in Nat /\ DOMAIN s = 1 .. Len(s) /\ DOMAIN t = 1 .. Len(s) + 1
  BY <1>1, LenProperties
<1> HIDE DEF t
<1>3. Solid(t) = Solid(s) \cup (IF r \in Space THEN {} ELSE {Len(s) + 1})
  <2>1. \A i : i \in 1 .. Len(s) + 1 <=> i \in 1 .. Len(s) \/ i = Len(s) + 1
    BY <1>2
  <2>2. Len(s) + 1 \notin 1 .. Len(s)
    BY <1>2
  <2> QED
    BY <1>1, <1>2, <2>1, <2>2 DEF Solid
<1>4. Solid(s) \subseteq 1 .. Len(s)
  BY <1>2 DEF Solid
<1> QED
  BY <1>1, <1>3, <1>4 DEF t

LEMMA BoundedStep ==
    ASSUME NEW dropped, NEW s \in Seq(Rune), NEW r \in Rune, NEW w \in LoopState,
           Bounded(w, s)
    PROVE  Bounded(Write(dropped, w, r), Append(s, r))
<1> DEFINE t == Append(s, r)
           v == Write(dropped, w, r)
<1>0. /\ w.b \in Seq(Rune) /\ w.pendingSpace \in BOOLEAN
      /\ Len(w.b) \in Nat /\ Len(s) \in Nat /\ Blank \in Rune
  BY RuneSets DEF LoopState
<1>1. /\ Solid(t) = Solid(s) \cup (IF r \in Space THEN {} ELSE {Len(s) + 1})
      /\ Solid(s) \subseteq 1 .. Len(s)
      /\ Len(t) = Len(s) + 1
  BY SolidAppend
<1> HIDE DEF t
<1> SUFFICES ASSUME v.b # <<>>, NEW lo \in Int, Below(lo, t)
             PROVE  /\ Len(v.b) =< Len(t) - lo + 1
                    /\ v.pendingSpace => Len(v.b) =< Len(t) - lo
                    /\ \E hi \in Solid(t) : Len(v.b) =< hi - lo + 1
  BY DEF Bounded, t
<1>2. Below(lo, s) /\ (r \notin Space => lo =< Len(s) + 1)
  BY <1>1 DEF Below
<1>3. w.b # <<>> =>
          /\ Len(w.b) =< Len(s) - lo + 1
          /\ w.pendingSpace => Len(w.b) =< Len(s) - lo
          /\ \E hi \in Solid(s) : Len(w.b) =< hi - lo + 1
  BY <1>2 DEF Bounded
<1>4. CASE r \in Space
  <2>1. v = [b |-> w.b, pendingSpace |-> TRUE]
    BY <1>4, WriteSpace
  <2>2. v.b = w.b /\ v.pendingSpace
    BY <2>1
  <2> HIDE DEF v
  <2>3. Len(w.b) =< Len(s) + 1 - lo + 1 /\ Len(w.b) =< Len(s) + 1 - lo
    BY <1>0, <1>3, <2>2
  <2>4. \E hi \in Solid(t) : Len(w.b) =< hi - lo + 1
    BY <1>1, <1>3, <2>2
  <2> QED
    BY <1>1, <2>2, <2>3, <2>4
<1>5. CASE r \notin Space /\ r \in dropped
  <2>1. v = w
    BY <1>5, WriteDropped
  <2> HIDE DEF v
  <2>2. /\ Len(w.b) =< Len(s) + 1 - lo + 1
        /\ w.pendingSpace => Len(w.b) =< Len(s) + 1 - lo
    BY <1>0, <1>3, <2>1
  <2>4. \E hi \in Solid(t) : Len(w.b) =< hi - lo + 1
    BY <1>1, <1>3, <2>1
  <2> QED
    BY <1>1, <2>1, <2>2, <2>4
<1>6. CASE r \notin Space /\ r \notin dropped
  <2> DEFINE apart == w.pendingSpace /\ w.b # <<>>
  <2>1. v = [b |-> IF apart THEN Append(Append(w.b, Blank), r) ELSE Append(w.b, r),
             pendingSpace |-> FALSE]
    BY <1>6, WriteKept
  <2> HIDE DEF v
  <2>2. /\ ~v.pendingSpace
        /\ apart => v.b = Append(Append(w.b, Blank), r)
        /\ ~apart => v.b = Append(w.b, r)
    BY <2>1
  <2>3. Len(v.b) = Len(w.b) + 1 \/ (apart /\ Len(v.b) = Len(w.b) + 2)
    <3>1. Append(w.b, Blank) \in Seq(Rune) /\ Len(Append(w.b, Blank)) = Len(w.b) + 1
      BY <1>0, AppendProperties
    <3>2. Len(Append(Append(w.b, Blank), r)) = Len(w.b) + 1 + 1
      BY <3>1, AppendProperties
    <3>3. Len(Append(w.b, r)) = Len(w.b) + 1
      BY <1>0, AppendProperties
    <3>4. Len(w.b) + 1 + 1 = Len(w.b) + 2
      BY <1>0
    <3> HIDE DEF apart
    <3>5. CASE apart
      BY <2>2, <3>2, <3>4, <3>5
    <3>6. CASE ~apart
      BY <2>2, <3>3, <3>6
    <3> QED
      BY <3>5, <3>6
  <2>4. Len(v.b) =< Len(s) + 1 - lo + 1
    <3>1. CASE w.b = <<>>
      <4>1. Len(w.b) = 0
        BY <3>1, EmptySeq
      <4>2. ~apart
        BY <3>1
      <4>3. Len(v.b) = 1
        BY <2>3, <4>1, <4>2
      <4> QED
        BY <1>0, <1>2, <1>6, <4>3
    <3>2. CASE w.b # <<>>
      BY <1>0, <1>3, <2>3, <3>2
    <3> QED
      BY <3>1, <3>2
  <2>5. Len(s) + 1 \in Solid(t)
    BY <1>1, <1>6
  <2> QED
    BY <1>1, <2>2, <2>4, <2>5
<1> QED
  BY <1>4, <1>5, <1>6

LEMMA SqueezeIsBounded ==
    ASSUME NEW dropped, NEW s \in Seq(Rune)
    PROVE  Bounded(Written(dropped, s), s)
<1> DEFINE IsBounded(t) == Bounded(Written(dropped, t), t)
           G == {t \in Seq(Rune) : IsBounded(t)}
<1>1. <<>> \in G
  <2>1. IsBounded(<<>>)
    BY WrittenUnfolds DEF Bounded, Start
  <2> QED
    BY <2>1, EmptySeq
<1>2. Grows(G)
  <2>1. ASSUME NEW t \in Seq(Rune), NEW r \in Rune, IsBounded(t) PROVE IsBounded(Append(t, r))
    BY <2>1, WrittenUnfolds, BoundedStep
  <2>2. \A t \in Seq(Rune), r \in Rune : Append(t, r) \in Seq(Rune)
    BY AppendProperties
  <2> HIDE DEF IsBounded
  <2> QED
    BY <2>1, <2>2 DEF Grows
<1>3. IsBounded(s)
  <2> HIDE DEF G
  <2>1. s \in G
    BY <1>1, <1>2, EveryText
  <2> QED
    BY <2>1 DEF G
<1> QED
  BY <1>3

(* Numbers up to a bound have a least and a greatest among them. *)
LEMMA Ends ==
    ASSUME NEW n \in Nat, NEW S \in SUBSET (1 .. n), S # {}
    PROVE  /\ Min(S) \in S /\ \A x \in S : Min(S) =< x
           /\ Max(S) \in S /\ \A x \in S : x =< Max(S)
<1>1. \E x \in S : \A y \in S : x =< y
  BY Least
<1>2. \E x \in S : \A y \in S : x >= y
  <2> DEFINE T == {n - x : x \in S}
  <2>0. \A x \in S : n - x \in Nat
    OBVIOUS
  <2>1. T \in SUBSET Nat /\ T # {}
    BY <2>0
  <2>2. PICK d \in T : \A e \in T : d =< e
    <3> HIDE DEF T
    <3> QED
      BY <2>1, Least
  <2>3. PICK x \in S : d = n - x
    OBVIOUS
  <2>4. \A y \in S : n - x =< n - y
    BY <2>2, <2>3
  <2> QED
    BY <2>4
<1>3. Min(S) \in S /\ \A y \in S : Min(S) =< y
  BY <1>1 DEF Min
<1>4. Max(S) \in S /\ \A y \in S : Max(S) >= y
  BY <1>2 DEF Max
<1>5. \A y \in S : y \in Int
  OBVIOUS
<1> QED
  BY <1>3, <1>4, <1>5

(* A sentence the form finds too short the server finds too short.         *)
THEOREM FormIsNoStricter == Spec => []FormKnowsTooShort
<1>1. Typed => FormKnowsTooShort
  <2> SUFFICES ASSUME Typed, FormTooShort(act) PROVE Len(normalize(act)) < minActLength
    BY DEF FormKnowsTooShort, Validate
  <2>0. /\ act \in Seq(Rune) /\ Len(act) \in Nat /\ Solid(act) \in SUBSET (1 .. Len(act))
        /\ minActLength \in Nat \ {0}
        /\ normalize(act) \in Seq(Rune) /\ Len(normalize(act)) \in Nat
    BY RulesAssumption, NormalizeTwice, LenProperties DEF Typed, Solid
  <2>1. CASE normalize(act) = <<>>
    BY <2>0, <2>1, EmptySeq
  <2>2. CASE normalize(act) # <<>>
    <3>1. Bounded(Written(Invisible, act), act)
      BY <2>0, SqueezeIsBounded
    <3>2. \A lo \in Int : Below(lo, act) =>
              \E hi \in Solid(act) : Len(normalize(act)) =< hi - lo + 1
      BY <2>2, <3>1 DEF Bounded, normalize, Squeeze
    <3>3. Solid(act) # {}
      <4>1. CASE Below(0, act)
        BY <3>2, <4>1
      <4>2. CASE ~Below(0, act)
        BY <4>2 DEF Below
      <4> QED
        BY <4>1, <4>2
    <3>4. /\ Min(Solid(act)) \in Solid(act) /\ Below(Min(Solid(act)), act)
          /\ Max(Solid(act)) \in Solid(act) /\ \A x \in Solid(act) : x =< Max(Solid(act))
      BY <2>0, <3>3, Ends DEF Below
    <3>5. PICK hi \in Solid(act) : Len(normalize(act)) =< hi - Min(Solid(act)) + 1
      BY <2>0, <3>2, <3>4
    <3>6. FormCount(act) = Max(Solid(act)) - Min(Solid(act)) + 1
      BY <3>3 DEF FormCount, Solid
    <3>7. FormCount(act) < minActLength
      BY DEF FormTooShort
    <3>8. hi =< Max(Solid(act)) /\ hi \in Int /\ Max(Solid(act)) \in Int
          /\ Min(Solid(act)) \in Int
      BY <2>0, <3>4
    <3> QED
      BY <2>0, <3>5, <3>6, <3>7, <3>8
  <2> QED
    BY <2>1, <2>2
<1> QED
  BY <1>1, AlwaysTyped, PTL
-----------------------------------------------------------------------------
(* What one more rune does to the runes that are kept and to those that    *)
(* stand apart.                                                            *)
Pending(s, dropped) ==
    \E j \in Kept(s, dropped) : (\A m \in Kept(s, dropped) : m =< j) /\ Gap(s, j, Len(s))

LEMMA KeptAppend ==
    ASSUME NEW dropped, NEW s \in Seq(Rune), NEW r \in Rune
    PROVE  /\ Kept(s, dropped) \subseteq 1 .. Len(s)
           /\ Apart(s, dropped) \subseteq Kept(s, dropped)
           /\ Kept(Append(s, r), dropped) =
                 Kept(s, dropped) \cup (IF r \in Space \cup dropped THEN {} ELSE {Len(s) + 1})
           /\ \A i \in Kept(s, dropped) : Append(s, r)[i] = s[i]
<1> DEFINE t == Append(s, r)
<1>1. /\ t \in Seq(Rune) /\ Len(t) = Len(s) + 1 /\ t[Len(s) + 1] = r
      /\ \A i \in 1 .. Len(s) : t[i] = s[i]
  BY AppendProperties
<1>2. Len(s) \in Nat /\ DOMAIN s = 1 .. Len(s) /\ DOMAIN t = 1 .. Len(s) + 1
  BY <1>1, LenProperties
<1> HIDE DEF t
<1>3. Kept(t, dropped) =
         Kept(s, dropped) \cup (IF r \in Space \cup dropped THEN {} ELSE {Len(s) + 1})
  <2>1. \A i : i \in 1 .. Len(s) + 1 <=> i \in 1 .. Len(s) \/ i = Len(s) + 1
    BY <1>2
  <2>2. Len(s) + 1 \notin 1 .. Len(s)
    BY <1>2
  <2> QED
    BY <1>1, <1>2, <2>1, <2>2 DEF Kept
<1>4. Kept(s, dropped) \subseteq 1 .. Len(s)
  BY <1>2 DEF Kept
<1>5. Apart(s, dropped) \subseteq Kept(s, dropped)
  BY DEF Apart
<1> QED
  BY <1>1, <1>3, <1>4, <1>5 DEF t

LEMMA GapAppend ==
    ASSUME NEW s \in Seq(Rune), NEW r \in Rune, NEW j \in 1 .. Len(s)
    PROVE  /\ \A i \in 1 .. Len(s) : Gap(Append(s, r), j, i) <=> Gap(s, j, i)
           /\ Gap(Append(s, r), j, Len(s) + 1) <=> r \in Space \/ Gap(s, j, Len(s))
<1> DEFINE t == Append(s, r)
<1>1. /\ t[Len(s) + 1] = r
      /\ \A i \in 1 .. Len(s) : t[i] = s[i]
  BY AppendProperties
<1>2. Len(s) \in Nat
  OBVIOUS
<1> HIDE DEF t
<1>3. ASSUME NEW i \in 1 .. Len(s) PROVE Gap(t, j, i) <=> Gap(s, j, i)
  <2>1. \A k \in j .. i : t[k] = s[k]
    BY <1>1, <1>2
  <2> QED
    BY <2>1 DEF Gap
<1>4. Gap(t, j, Len(s) + 1) <=> r \in Space \/ Gap(s, j, Len(s))
  <2>1. \A k : k \in j .. Len(s) + 1 <=> k \in j .. Len(s) \/ k = Len(s) + 1
    BY <1>2
  <2>2. \A k \in j .. Len(s) : t[k] = s[k]
    BY <1>1, <1>2
  <2> QED
    BY <1>1, <2>1, <2>2 DEF Gap
<1> QED
  BY <1>3, <1>4 DEF t

LEMMA ApartAppend ==
    ASSUME NEW dropped, NEW s \in Seq(Rune), NEW r \in Rune
    PROVE  Apart(Append(s, r), dropped) =
              Apart(s, dropped) \cup
                 (IF r \notin Space \cup dropped /\ Pending(s, dropped) THEN {Len(s) + 1} ELSE {})
<1> DEFINE t == Append(s, r)
           n == Len(s) + 1
           K == Kept(s, dropped)
           L == Kept(t, dropped)
<1>1. /\ K \subseteq 1 .. Len(s)
      /\ L = K \cup (IF r \in Space \cup dropped THEN {} ELSE {n})
  BY KeptAppend
<1>2. Len(s) \in Nat /\ n \notin K /\ \A m \in K : m \in Int /\ m < n
  BY <1>1
<1>3. \A j \in K : /\ \A i \in K : Gap(t, j, i) <=> Gap(s, j, i)
                   /\ Gap(t, j, n) <=> r \in Space \/ Gap(s, j, Len(s))
  BY <1>1, GapAppend
<1> HIDE DEF t, n
<1> DEFINE Follows(S, j, i) == \A m \in S : m < i <=> m =< j
<1>4. n \in Int
  BY <1>2 DEF n
<1>5. /\ Apart(s, dropped) = {i \in K : \E j \in K : Follows(K, j, i) /\ Gap(s, j, i)}
      /\ Apart(t, dropped) = {i \in L : \E j \in L : Follows(L, j, i) /\ Gap(t, j, i)}
  BY DEF Apart
<1> HIDE DEF K, L
<1>6. \A i \in K, j \in L : Follows(L, j, i) <=> j \in K /\ Follows(K, j, i)
  <2> SUFFICES ASSUME NEW i \in K, NEW j \in L
               PROVE  Follows(L, j, i) <=> j \in K /\ Follows(K, j, i)
    OBVIOUS
  <2>1. CASE L = K
    BY <2>1
  <2>2. CASE L = K \cup {n}
    <3>1. ~(n < i) /\ i \in Int
      BY <1>2, <1>4
    <3>2. Follows(L, j, i) <=> Follows(K, j, i) /\ ~(n =< j)
      BY <2>2, <3>1
    <3>3. ~(n =< j) <=> j \in K
      BY <1>2, <1>4, <2>2
    <3> QED
      BY <3>2, <3>3
  <2> QED
    BY <1>1, <2>1, <2>2
<1>7. \A i \in K : i \in Apart(t, dropped) <=> i \in Apart(s, dropped)
  <2>1. K \subseteq L
    BY <1>1
  <2> HIDE DEF Follows
  <2> QED
    BY <1>3, <1>5, <1>6, <2>1
<1>8. n \in L => (n \in Apart(t, dropped) <=> Pending(s, dropped))
  <2> SUFFICES ASSUME n \in L PROVE n \in Apart(t, dropped) <=> Pending(s, dropped)
    OBVIOUS
  <2>1. L = K \cup {n} /\ r \notin Space \cup dropped
    BY <1>1, <1>2
  <2>2. ~Follows(L, n, n)
    BY <1>4, <2>1
  <2>3. ASSUME NEW j \in K PROVE Follows(L, j, n) <=> \A m \in K : m =< j
    BY <1>2, <1>4, <2>1
  <2>4. \A j \in K : Gap(t, j, n) <=> Gap(s, j, Len(s))
    BY <1>3, <2>1
  <2> HIDE DEF Follows
  <2>5. n \in Apart(t, dropped) <=> \E j \in K : Follows(L, j, n) /\ Gap(t, j, n)
    BY <1>5, <2>1, <2>2
  <2>6. Pending(s, dropped) <=> \E j \in K : (\A m \in K : m =< j) /\ Gap(s, j, Len(s))
    BY DEF Pending, K
  <2> QED
    BY <2>3, <2>4, <2>5, <2>6
<1>9. Apart(t, dropped) \subseteq L /\ Apart(s, dropped) \subseteq K
  BY <1>5
<1> QED
  BY <1>1, <1>2, <1>7, <1>8, <1>9 DEF t, n

LEMMA PendingAppend ==
    ASSUME NEW dropped, NEW s \in Seq(Rune), NEW r \in Rune
    PROVE  /\ r \in Space =>
                 (Pending(Append(s, r), dropped) <=>
                    \E j \in Kept(s, dropped) : \A m \in Kept(s, dropped) : m =< j)
           /\ r \in dropped /\ r \notin Space =>
                 (Pending(Append(s, r), dropped) <=> Pending(s, dropped))
           /\ r \notin Space \cup dropped => ~Pending(Append(s, r), dropped)
<1> DEFINE t == Append(s, r)
           n == Len(s) + 1
           K == Kept(s, dropped)
           L == Kept(t, dropped)
<1>1. /\ K \subseteq 1 .. Len(s)
      /\ L = K \cup (IF r \in Space \cup dropped THEN {} ELSE {n})
  BY KeptAppend
<1>2. Len(s) \in Nat /\ n \notin K /\ \A m \in K : m \in Int /\ m < n
  BY <1>1
<1>3. \A j \in K : Gap(t, j, n) <=> r \in Space \/ Gap(s, j, Len(s))
  BY <1>1, GapAppend
<1>4. Len(t) = n /\ t[n] = r
  BY AppendProperties
<1>5. /\ Pending(t, dropped) <=> \E j \in L : (\A m \in L : m =< j) /\ Gap(t, j, n)
      /\ Pending(s, dropped) <=> \E j \in K : (\A m \in K : m =< j) /\ Gap(s, j, Len(s))
  BY <1>4 DEF Pending
<1>6. Gap(t, n, n) => r \in Space
  BY <1>2, <1>4 DEF Gap
<1> HIDE DEF t, n, K, L
<1>7. n \in Int
  BY <1>2 DEF n
<1>8. CASE r \in Space
  BY <1>1, <1>3, <1>5, <1>8 DEF t, K
<1>9. CASE r \in dropped /\ r \notin Space
  BY <1>1, <1>3, <1>5, <1>9 DEF t
<1>10. CASE r \notin Space \cup dropped
  <2>1. L = K \cup {n}
    BY <1>1, <1>10
  <2>2. ASSUME NEW j \in L, \A m \in L : m =< j PROVE j = n
    BY <1>2, <1>7, <2>1, <2>2
  <2> QED
    BY <1>5, <1>6, <1>10, <2>2 DEF t
<1> QED
  BY <1>8, <1>9, <1>10 DEF t, K

(* The places of the kept runes, before and after one more rune. *)
LEMMA Finite ==
    ASSUME NEW dropped, NEW s \in Seq(Rune)
    PROVE  /\ IsFiniteSet(Kept(s, dropped))
           /\ IsFiniteSet(Apart(s, dropped))
           /\ Cardinality(Kept(s, dropped)) \in Nat
           /\ Cardinality(Apart(s, dropped)) \in Nat
           /\ Cardinality(Kept(s, dropped)) = 0 <=> Kept(s, dropped) = {}
<1>1. IsFiniteSet(1 .. Len(s))
  BY FS_Interval
<1>2. Kept(s, dropped) \subseteq 1 .. Len(s) /\ Apart(s, dropped) \subseteq 1 .. Len(s)
  BY DEF Kept, Apart
<1>3. IsFiniteSet(Kept(s, dropped)) /\ IsFiniteSet(Apart(s, dropped))
  BY <1>1, <1>2, FS_Subset
<1> QED
  BY <1>3, FS_CardinalityType, FS_EmptySet

LEMMA UpToBounds ==
    ASSUME NEW S, IsFiniteSet(S), NEW i \in Int
    PROVE  /\ UpTo(S, i) \in 0 .. Cardinality(S)
           /\ S \subseteq Int /\ i \in S => UpTo(S, i) >= 1
<1> DEFINE T == {j \in S : j =< i}
<1>1. T \subseteq S /\ IsFiniteSet(T)
  BY FS_Subset
<1>2. Cardinality(T) \in Nat /\ Cardinality(S) \in Nat /\ Cardinality(T) =< Cardinality(S)
  <2> HIDE DEF T
  <2> QED
    BY <1>1, FS_Subset, FS_CardinalityType
<1>3. S \subseteq Int /\ i \in S => i \in T
  OBVIOUS
<1> HIDE DEF T
<1>4. i \in T => Cardinality(T) # 0
  BY <1>1, FS_EmptySet
<1>5. UpTo(S, i) = Cardinality(T)
  BY DEF UpTo, T
<1> QED
  BY <1>2, <1>3, <1>4, <1>5

LEMMA UpToAdd ==
    ASSUME NEW n \in Nat \ {0}, NEW S \in SUBSET (1 .. n - 1), NEW X \in SUBSET {n}
    PROVE  /\ \A i \in 1 .. n - 1 : UpTo(S \cup X, i) = UpTo(S, i)
           /\ UpTo(S \cup X, n) = Cardinality(S) + Cardinality(X)
           /\ Cardinality(S \cup X) = Cardinality(S) + Cardinality(X)
           /\ Cardinality(X) = IF X = {} THEN 0 ELSE 1
<1>1. ASSUME NEW i \in 1 .. n - 1 PROVE UpTo(S \cup X, i) = UpTo(S, i)
  <2>0. \A j \in X : ~(j =< i)
    OBVIOUS
  <2>1. {j \in S \cup X : j =< i} = {j \in S : j =< i}
    BY <2>0
  <2> QED
    BY <2>1 DEF UpTo
<1>2. IsFiniteSet(S) /\ Cardinality(S) \in Nat
  <2>1. IsFiniteSet(1 .. n - 1)
    BY FS_Interval
  <2> QED
    BY <2>1, FS_Subset, FS_CardinalityType
<1>3. Cardinality({}) = 0
  BY FS_EmptySet
<1>4. Cardinality({n}) = 1
  BY FS_Singleton
<1>5. n \notin S
  OBVIOUS
<1>6. Cardinality(S \cup {n}) = Cardinality(S) + 1
  BY <1>2, <1>5, FS_AddElement
<1>7. X = {} \/ X = {n}
  OBVIOUS
<1>8. Cardinality(X) = IF X = {} THEN 0 ELSE 1
  BY <1>3, <1>4, <1>7
<1>9. Cardinality(S \cup X) = Cardinality(S) + Cardinality(X)
  <2>1. CASE X = {}
    <3>1. S \cup X = S
      BY <2>1
    <3> QED
      BY <1>2, <1>3, <2>1, <3>1
  <2>2. CASE X = {n}
    BY <1>4, <1>6, <2>2
  <2> QED
    BY <1>7, <2>1, <2>2
<1>10. UpTo(S \cup X, n) = Cardinality(S \cup X)
  <2>0. \A j \in S \cup X : j =< n
    OBVIOUS
  <2>1. {j \in S \cup X : j =< n} = S \cup X
    BY <2>0
  <2> QED
    BY <2>1 DEF UpTo
<1> QED
  BY <1>1, <1>8, <1>9, <1>10

LEMMA PlaceAppend ==
    ASSUME NEW dropped, NEW s \in Seq(Rune), NEW r \in Rune
    PROVE  LET t == Append(s, r)
               kept == r \notin Space \cup dropped
               k == IF kept THEN 1 ELSE 0
               a == IF kept /\ Pending(s, dropped) THEN 1 ELSE 0
               len == Cardinality(Kept(s, dropped)) + Cardinality(Apart(s, dropped))
           IN  /\ Cardinality(Kept(t, dropped)) + Cardinality(Apart(t, dropped)) = len + k + a
               /\ Place(t, dropped, Len(s) + 1) = len + k + a
               /\ \A i \in Kept(s, dropped) :
                     /\ Place(t, dropped, i) = Place(s, dropped, i)
                     /\ Place(s, dropped, i) \in 1 .. len
                     /\ i \in Apart(s, dropped) => Place(s, dropped, i) - 1 \in 1 .. len
<1> DEFINE t == Append(s, r)
           n == Len(s) + 1
           K == Kept(s, dropped)
           A == Apart(s, dropped)
           kept == r \notin Space \cup dropped
           X == IF kept THEN {n} ELSE {}
           Y == IF kept /\ Pending(s, dropped) THEN {n} ELSE {}
           k == IF kept THEN 1 ELSE 0
           a == IF kept /\ Pending(s, dropped) THEN 1 ELSE 0
<1>1. /\ K \in SUBSET (1 .. n - 1) /\ A \in SUBSET K
      /\ Kept(t, dropped) = K \cup X
      /\ Apart(t, dropped) = A \cup Y
      /\ n \in Nat \ {0}
  BY KeptAppend, ApartAppend
<1>2. X \in SUBSET {n} /\ Y \in SUBSET {n} /\ A \in SUBSET (1 .. n - 1)
  BY <1>1
<1>3. (IF X = {} THEN 0 ELSE 1) = k /\ (IF Y = {} THEN 0 ELSE 1) = a
  OBVIOUS
<1>4. /\ IsFiniteSet(K) /\ IsFiniteSet(A)
      /\ Cardinality(K) \in Nat /\ Cardinality(A) \in Nat
  BY Finite
<1>5. k \in {0, 1} /\ a \in {0, 1}
  OBVIOUS
<1> HIDE DEF t, n, K, A, X, Y, kept, k, a
<1>6. /\ \A i \in 1 .. n - 1 : UpTo(K \cup X, i) = UpTo(K, i)
      /\ UpTo(K \cup X, n) = Cardinality(K) + k
      /\ Cardinality(K \cup X) = Cardinality(K) + k
  <2>1. /\ \A i \in 1 .. n - 1 : UpTo(K \cup X, i) = UpTo(K, i)
        /\ UpTo(K \cup X, n) = Cardinality(K) + Cardinality(X)
        /\ Cardinality(K \cup X) = Cardinality(K) + Cardinality(X)
        /\ Cardinality(X) = IF X = {} THEN 0 ELSE 1
    BY <1>1, <1>2, UpToAdd
  <2> QED
    BY <1>3, <2>1
<1>7. /\ \A i \in 1 .. n - 1 : UpTo(A \cup Y, i) = UpTo(A, i)
      /\ UpTo(A \cup Y, n) = Cardinality(A) + a
      /\ Cardinality(A \cup Y) = Cardinality(A) + a
  <2>1. /\ \A i \in 1 .. n - 1 : UpTo(A \cup Y, i) = UpTo(A, i)
        /\ UpTo(A \cup Y, n) = Cardinality(A) + Cardinality(Y)
        /\ Cardinality(A \cup Y) = Cardinality(A) + Cardinality(Y)
        /\ Cardinality(Y) = IF Y = {} THEN 0 ELSE 1
    BY <1>1, <1>2, UpToAdd
  <2> QED
    BY <1>3, <2>1
<1>8. /\ \A i : Place(t, dropped, i) = UpTo(K \cup X, i) + UpTo(A \cup Y, i)
      /\ \A i : Place(s, dropped, i) = UpTo(K, i) + UpTo(A, i)
  BY <1>1 DEF Place, K, A
<1>9. ASSUME NEW i \in K
      PROVE  /\ Place(t, dropped, i) = Place(s, dropped, i)
             /\ Place(s, dropped, i) \in 1 .. Cardinality(K) + Cardinality(A)
             /\ i \in A => Place(s, dropped, i) - 1 \in 1 .. Cardinality(K) + Cardinality(A)
  <2>1. i \in 1 .. n - 1 /\ i \in Int /\ K \subseteq Int /\ A \subseteq Int
    BY <1>1
  <2>2. UpTo(K, i) \in 0 .. Cardinality(K) /\ UpTo(K, i) >= 1
    BY <1>4, <2>1, UpToBounds
  <2>3. UpTo(A, i) \in 0 .. Cardinality(A) /\ (i \in A => UpTo(A, i) >= 1)
    BY <1>4, <2>1, UpToBounds
  <2>4. Place(t, dropped, i) = Place(s, dropped, i)
    BY <1>6, <1>7, <1>8, <2>1
  <2> QED
    BY <1>4, <1>8, <2>2, <2>3, <2>4
<1>10. /\ Cardinality(Kept(t, dropped)) + Cardinality(Apart(t, dropped)) =
             Cardinality(K) + Cardinality(A) + k + a
       /\ Place(t, dropped, n) = Cardinality(K) + Cardinality(A) + k + a
  <2>1. /\ Cardinality(Kept(t, dropped)) = Cardinality(K) + k
        /\ Cardinality(Apart(t, dropped)) = Cardinality(A) + a
    BY <1>1, <1>6, <1>7
  <2>2. Place(t, dropped, n) = (Cardinality(K) + k) + (Cardinality(A) + a)
    BY <1>6, <1>7, <1>8
  <2> QED
    BY <1>4, <1>5, <2>1, <2>2
<1> QED
  BY <1>9, <1>10 DEF t, n, K, A, k, a, kept

(* The loop has written what it is for, and knows when a blank is due.     *)
Matches(w, s, dropped) ==
    /\ IsSqueezed(w.b, s, dropped)
    /\ w.b # <<>> => (w.pendingSpace <=> Pending(s, dropped))

LEMMA MatchesStep ==
    ASSUME NEW dropped, NEW s \in Seq(Rune), NEW r \in Rune, NEW w \in LoopState,
           Matches(w, s, dropped)
    PROVE  Matches(Write(dropped, w, r), Append(s, r), dropped)
<1> DEFINE t == Append(s, r)
           v == Write(dropped, w, r)
           K == Kept(s, dropped)
           A == Apart(s, dropped)
           len == Cardinality(K) + Cardinality(A)
           place(i) == Place(s, dropped, i)
           P == Pending(s, dropped)
<1>0. /\ w.b \in Seq(Rune) /\ w.pendingSpace \in BOOLEAN
      /\ Len(w.b) \in Nat /\ Len(s) \in Nat /\ Blank \in Rune
  BY RuneSets DEF LoopState
<1>1. /\ len = Len(w.b)
      /\ \A i \in K : w.b[place(i)] = s[i]
      /\ \A i \in A : w.b[place(i) - 1] = Blank
      /\ w.b # <<>> => (w.pendingSpace <=> P)
  BY DEF Matches, IsSqueezed
<1>2. /\ K \subseteq 1 .. Len(s) /\ A \subseteq K
      /\ Kept(t, dropped) = K \cup (IF r \in Space \cup dropped THEN {} ELSE {Len(s) + 1})
      /\ \A i \in K : t[i] = s[i]
      /\ t[Len(s) + 1] = r
  BY KeptAppend, AppendProperties
<1>3. Apart(t, dropped) = A \cup (IF r \notin Space \cup dropped /\ P THEN {Len(s) + 1} ELSE {})
  BY ApartAppend
<1>4. /\ Cardinality(K) \in Nat /\ Cardinality(A) \in Nat
      /\ Cardinality(K) = 0 <=> K = {}
  BY Finite
<1>5. w.b = <<>> => K = {} /\ ~P
  <2>1. w.b = <<>> => Len(w.b) = 0
    BY EmptySeq
  <2>2. K = {} => ~P
    BY DEF Pending
  <2> QED
    BY <1>1, <1>4, <2>1, <2>2
<1>6. \A i \in K : /\ Place(t, dropped, i) = place(i)
                   /\ place(i) \in 1 .. Len(w.b)
                   /\ i \in A => place(i) - 1 \in 1 .. Len(w.b)
  BY <1>1, PlaceAppend
<1>7. CASE r \in Space \cup dropped
  <2>1. Kept(t, dropped) = K /\ Apart(t, dropped) = A
    BY <1>2, <1>3, <1>7
  <2>2. v.b = w.b
    <3>1. CASE r \in Space
      <4>1. v = [b |-> w.b, pendingSpace |-> TRUE]
        BY <3>1, WriteSpace
      <4> QED
        BY <4>1
    <3>2. CASE r \notin Space /\ r \in dropped
      BY <3>2, WriteDropped
    <3> QED
      BY <1>7, <3>1, <3>2
  <2>3. IsSqueezed(v.b, t, dropped)
    <3> HIDE DEF t, v, K, A, place
    <3>1. \A i \in K : v.b[Place(t, dropped, i)] = t[i]
      BY <1>1, <1>2, <1>6, <2>2
    <3>2. \A i \in A : v.b[Place(t, dropped, i) - 1] = Blank
      BY <1>1, <1>2, <1>6, <2>2
    <3> QED
      BY <1>1, <2>1, <2>2, <3>1, <3>2 DEF IsSqueezed
  <2>4. v.b # <<>> => (v.pendingSpace <=> Pending(t, dropped))
    <3>1. CASE r \in Space
      <4>1. v = [b |-> w.b, pendingSpace |-> TRUE]
        BY <3>1, WriteSpace
      <4>2. v.pendingSpace
        BY <4>1
      <4>3. w.b # <<>> => \E j \in K : \A m \in K : m =< j
        <5>1. w.b # <<>> => Len(w.b) # 0
          BY <1>0, EmptySeq
        <5>2. Len(w.b) # 0 => K # {}
          <6>1. A \subseteq K
            BY <1>2
          <6>2. K = {} => A = {}
            BY <6>1
          <6>3. K = {} => Cardinality(K) = 0 /\ Cardinality(A) = 0
            BY <6>2, FS_EmptySet
          <6> HIDE DEF K, A
          <6> QED
            BY <1>1, <6>3
        <5>3. K # {} => Max(K) \in K /\ \A m \in K : m =< Max(K)
          BY <1>0, <1>2, Ends
        <5> QED
          BY <5>1, <5>2, <5>3
      <4>4. Pending(t, dropped) <=> \E j \in K : \A m \in K : m =< j
        BY <3>1, PendingAppend
      <4> QED
        BY <2>2, <4>2, <4>3, <4>4
    <3>2. CASE r \notin Space /\ r \in dropped
      <4>1. v = w
        BY <3>2, WriteDropped
      <4>2. Pending(t, dropped) <=> P
        BY <3>2, PendingAppend
      <4> HIDE DEF v, t, P
      <4> QED
        BY <1>1, <4>1, <4>2
    <3> QED
      BY <1>7, <3>1, <3>2
  <2> QED
    BY <2>3, <2>4 DEF Matches
<1>8. CASE r \notin Space \cup dropped
  <2> DEFINE n == Len(s) + 1
             mid == IF P THEN Append(w.b, Blank) ELSE w.b
             extra == IF P THEN 1 ELSE 0
  <2>1. v = [b |-> Append(mid, r), pendingSpace |-> FALSE]
    <3>1. v = [b |-> IF w.pendingSpace /\ w.b # <<>>
                     THEN Append(Append(w.b, Blank), r) ELSE Append(w.b, r),
               pendingSpace |-> FALSE]
      BY <1>8, WriteKept
    <3>2. (w.pendingSpace /\ w.b # <<>>) <=> P
      BY <1>0, <1>1, <1>5
    <3> HIDE DEF v, P
    <3> QED
      BY <3>1, <3>2
  <2>2. v.b = Append(mid, r) /\ ~v.pendingSpace
    BY <2>1
  <2>3. ~Pending(t, dropped)
    BY <1>8, PendingAppend
  <2>4. /\ mid \in Seq(Rune)
        /\ Len(mid) = Len(w.b) + extra
        /\ \A i \in 1 .. Len(w.b) : mid[i] = w.b[i]
        /\ P => mid[Len(w.b) + 1] = Blank
    <3> HIDE DEF P
    <3>1. CASE P
      BY <1>0, <3>1, AppendProperties
    <3>2. CASE ~P
      BY <1>0, <3>2
    <3> QED
      BY <3>1, <3>2
  <2> HIDE DEF mid, v
  <2>5. /\ Len(v.b) = Len(mid) + 1
        /\ v.b[Len(mid) + 1] = r
        /\ \A i \in 1 .. Len(mid) : v.b[i] = mid[i]
    <3>1. /\ Len(Append(mid, r)) = Len(mid) + 1
          /\ Append(mid, r)[Len(mid) + 1] = r
          /\ \A i \in 1 .. Len(mid) : Append(mid, r)[i] = mid[i]
      <4>1. mid \in Seq(Rune)
        BY <2>4
      <4> QED
        BY <4>1, AppendProperties
    <3> QED
      BY <2>2, <3>1
  <2>6. /\ Kept(t, dropped) = K \cup {n}
        /\ Apart(t, dropped) = A \cup (IF P THEN {n} ELSE {})
    BY <1>2, <1>3, <1>8
  <2>7. /\ Cardinality(Kept(t, dropped)) + Cardinality(Apart(t, dropped)) =
              len + 1 + extra
        /\ Place(t, dropped, n) = len + 1 + extra
    BY <1>8, PlaceAppend
  <2>12. extra \in {0, 1} /\ (P => extra = 1)
    OBVIOUS
  <2> HIDE DEF t, K, A, len, place, P, n, extra
  <2>8. Cardinality(Kept(t, dropped)) + Cardinality(Apart(t, dropped)) = Len(v.b)
        /\ Place(t, dropped, n) = Len(v.b)
    BY <1>0, <1>1, <2>4, <2>5, <2>7, <2>12
  <2>9. \A i \in 1 .. Len(w.b) : v.b[i] = w.b[i]
    <3>1. \A i \in 1 .. Len(w.b) : i \in 1 .. Len(mid)
      BY <1>0, <2>4, <2>12
    <3> QED
      BY <2>4, <2>5, <3>1
  <2>10. \A i \in K \cup {n} : v.b[Place(t, dropped, i)] = t[i]
    <3>1. \A i \in K : v.b[Place(t, dropped, i)] = t[i]
      BY <1>1, <1>2, <1>6, <2>9
    <3>2. v.b[Place(t, dropped, n)] = t[n]
      <4>1. v.b[Len(v.b)] = r /\ t[n] = r
        BY <1>2, <2>5 DEF n
      <4> QED
        BY <2>8, <4>1
    <3> QED
      BY <3>1, <3>2
  <2>11. \A i \in Apart(t, dropped) : v.b[Place(t, dropped, i) - 1] = Blank
    <3>1. \A i \in A : v.b[Place(t, dropped, i) - 1] = Blank
      BY <1>1, <1>2, <1>6, <2>9
    <3>2. P => v.b[Place(t, dropped, n) - 1] = Blank
      <4> SUFFICES ASSUME P PROVE v.b[Len(v.b) - 1] = Blank
        BY <2>8
      <4>1. Len(mid) = Len(w.b) + 1 /\ mid[Len(mid)] = Blank
        BY <2>4, <2>12
      <4>2. Len(mid) \in 1 .. Len(mid) /\ Len(v.b) - 1 = Len(mid)
        BY <1>0, <2>5, <4>1
      <4> QED
        BY <2>5, <4>1, <4>2
    <3> QED
      BY <2>6, <3>1, <3>2
  <2> QED
    BY <2>2, <2>3, <2>6, <2>8, <2>10, <2>11 DEF Matches, IsSqueezed, v, t
<1> QED
  BY <1>7, <1>8

LEMMA SqueezeIsSqueezed ==
    ASSUME NEW dropped, NEW s \in Seq(Rune)
    PROVE  IsSqueezed(Squeeze(dropped, s), s, dropped)
<1> DEFINE M(t) == Matches(Written(dropped, t), t, dropped)
           G == {t \in Seq(Rune) : M(t)}
<1>1. <<>> \in G
  <2>1. Kept(<<>>, dropped) = {} /\ Apart(<<>>, dropped) = {}
    BY DEF Kept, Apart
  <2>2. Cardinality({}) = 0 /\ Len(<<>>) = 0
    BY FS_EmptySet, EmptySeq
  <2>3. IsSqueezed(<<>>, <<>>, dropped)
    <3>1. Len(<<>>) = Cardinality(Kept(<<>>, dropped)) + Cardinality(Apart(<<>>, dropped))
      <4>1. Cardinality(Kept(<<>>, dropped)) = 0 /\ Cardinality(Apart(<<>>, dropped)) = 0
        BY <2>1, <2>2, Zenon
      <4> QED
        BY <2>2, <4>1
    <3> QED
      BY <2>1, <3>1 DEF IsSqueezed
  <2>4. Written(dropped, <<>>).b = <<>>
    BY WrittenUnfolds DEF Start
  <2>5. M(<<>>)
    BY <2>3, <2>4 DEF Matches
  <2> QED
    BY <2>5, EmptySeq
<1>2. Grows(G)
  <2>1. ASSUME NEW t \in Seq(Rune), NEW r \in Rune, M(t) PROVE M(Append(t, r))
    BY <2>1, WrittenUnfolds, MatchesStep
  <2>2. \A t \in Seq(Rune), r \in Rune : Append(t, r) \in Seq(Rune)
    BY AppendProperties
  <2> HIDE DEF M
  <2> QED
    BY <2>1, <2>2 DEF Grows
<1>3. M(s)
  <2> HIDE DEF G
  <2>1. s \in G
    BY <1>1, <1>2, EveryText
  <2> QED
    BY <2>1 DEF G
<1> QED
  BY <1>3 DEF Matches, Squeeze

(* Cleaning and the duplicate check keep what their comments say, for      *)
(* every sentence: the loops have the meaning IsSqueezed gives them.       *)
THEOREM CleansAsTold == Spec => []CleansAndComparesAsTold
<1>1. Typed => CleansAndComparesAsTold
  <2>1. Invisible \cup (Punct \cup Symbol) = Invisible \cup Punct \cup Symbol
    OBVIOUS
  <2> QED
    BY <2>1, SqueezeIsSqueezed, FingerprintOnePass, ToLowerType
    DEF Typed, CleansAndComparesAsTold, normalize
<1> QED
  BY <1>1, AlwaysTyped, PTL
-----------------------------------------------------------------------------
(* A text with what is invisible left out, one rune at a time.             *)
SeenStep(s) ==
    [k \in 1 .. Len(s) |->
        [u \in Seq(Rune) |-> Show(u, ToLower(s)[k])]]

IsSeen(g, s) ==
    g = [k \in 0 .. Len(s) |->
            IF k = 0 THEN <<>> ELSE Show(g[k - 1], ToLower(s)[k])]

LEMMA SeenStepType ==
    ASSUME NEW s \in Seq(Rune)
    PROVE  SeenStep(s) \in [1 .. Len(s) -> [Seq(Rune) -> Seq(Rune)]]
<1> SUFFICES ASSUME NEW k \in 1 .. Len(s), NEW u \in Seq(Rune)
             PROVE  Show(u, ToLower(s)[k]) \in Seq(Rune)
  BY DEF SeenStep
<1>1. ToLower(s)[k] \in Rune
  BY ToLowerType, ElementOfSeq
<1> QED
  BY <1>1, AppendProperties DEF Show

LEMMA SeenObeys ==
    ASSUME NEW s \in Seq(Rune), NEW g, IsSeen(g, s)
    PROVE  Obeys(g, Seq(Rune), <<>>, SeenStep(s), Len(s))
<1>1. Len(s) \in Nat
  OBVIOUS
<1>2. /\ g[0] = <<>>
      /\ \A k \in 1 .. Len(s) :
            g[k] = Show(g[k - 1], ToLower(s)[k])
  BY <1>1 DEF IsSeen
<1> QED
  BY <1>2 DEF Obeys, SeenStep

LEMMA SeenIsSeen ==
    ASSUME NEW s \in Seq(Rune)
    PROVE  \E g : IsSeen(g, s) /\ Seen(s) = g[Len(s)]
<1>0. Len(s) \in Nat /\ <<>> \in Seq(Rune)
  BY EmptySeq
<1>1. PICK g \in [0 .. Len(s) -> Seq(Rune)] :
              Obeys(g, Seq(Rune), <<>>, SeenStep(s), Len(s))
  BY <1>0, SeenStepType, LoopExists
<1>2. ASSUME NEW k \in 1 .. Len(s)
      PROVE  g[k] = Show(g[k - 1], ToLower(s)[k])
  <2>1. k - 1 \in 0 .. Len(s)
    BY <1>0
  <2>2. g[k - 1] \in Seq(Rune)
    BY <1>1, <2>1
  <2> QED
    BY <1>1, <2>2 DEF Obeys, SeenStep
<1>3. IsSeen(g, s)
  BY <1>0, <1>1, <1>2 DEF IsSeen, Obeys
<1>4. Seen(s) = (CHOOSE h : IsSeen(h, s))[Len(s)]
  BY DEF Seen, IsSeen
<1> QED
  BY <1>3, <1>4

LEMMA SeenUnfolds ==
    /\ Seen(<<>>) = <<>>
    /\ \A s \in Seq(Rune), r \in Rune :
          /\ Seen(s) \in Seq(Rune)
          /\ Seen(Append(s, r)) = Show(Seen(s), Lower(r))
<1>0. <<>> \in Seq(Rune)
  BY EmptySeq
<1>1. Seen(<<>>) = <<>>
  <2>1. PICK g : IsSeen(g, <<>>) /\ Seen(<<>>) = g[Len(<<>>)]
    BY SeenIsSeen, EmptySeq
  <2> QED
    BY <2>1 DEF IsSeen
<1>2. ASSUME NEW s \in Seq(Rune), NEW r \in Rune
      PROVE  /\ Seen(s) \in Seq(Rune)
             /\ Seen(Append(s, r)) = Show(Seen(s), Lower(r))
  <2> DEFINE t == Append(s, r)
             n == Len(s)
  <2>1. t \in Seq(Rune) /\ Len(t) = n + 1 /\ n \in Nat /\ t[n + 1] = r
        /\ \A k \in 1 .. n : t[k] = s[k]
    BY AppendProperties
  <2>2. PICK g : IsSeen(g, s) /\ Seen(s) = g[n]
    BY SeenIsSeen
  <2>3. PICK h : IsSeen(h, t) /\ Seen(t) = h[n + 1]
    BY <2>1, SeenIsSeen
  <2> HIDE DEF t
  <2>4. Obeys(g, Seq(Rune), <<>>, SeenStep(s), n)
    BY <2>2, SeenObeys
  <2>5. Obeys(h, Seq(Rune), <<>>, SeenStep(t), n + 1)
    BY <2>1, <2>3, SeenObeys
  <2>6. ToLower(t)[n + 1] = Lower(r) /\ \A k \in 1 .. n : ToLower(t)[k] = ToLower(s)[k]
    <3>1. \A k \in 1 .. n + 1 : ToLower(t)[k] = Lower(t[k])
      BY <2>1, ToLowerType
    <3>2. \A k \in 1 .. n : ToLower(s)[k] = Lower(s[k])
      BY ToLowerType
    <3> QED
      BY <2>1, <3>1, <3>2
  <2>7. \A k \in 1 .. n : SeenStep(t)[k] = SeenStep(s)[k]
    BY <2>1, <2>6 DEF SeenStep
  <2>8. Obeys(h, Seq(Rune), <<>>, SeenStep(s), n)
    BY <2>1, <2>5, <2>7 DEF Obeys
  <2>9. g[n] = h[n] /\ g[n] \in Seq(Rune)
    <3>1. n \in 0 .. n
      BY <2>1
    <3>2. SeenStep(s) \in [1 .. n -> [Seq(Rune) -> Seq(Rune)]]
      BY SeenStepType
    <3> HIDE DEF n
    <3>3. \A k \in 0 .. n : g[k] = h[k] /\ g[k] \in Seq(Rune)
      BY <1>0, <2>1, <2>4, <2>8, <3>1, <3>2, LoopResult
    <3> QED
      BY <3>1, <3>3
  <2>10. h[n + 1] = Show(h[n], Lower(r))
    BY <2>1, <2>3, <2>6 DEF IsSeen
  <2> QED
    BY <2>2, <2>3, <2>9, <2>10 DEF t
<1> QED
  BY <1>1, <1>2

(* Where links and blocked words are, said of a text by its last runes.    *)
LastOf(x) == x[Len(x)]

HasMarker(x) == \E i \in 1 .. Len(x) - 1 : Lower(x[i]) = "w" /\ Lower(x[i + 1]) = "."

WordAt(x, i) ==
    /\ Lower(x[i]) = "f" /\ Lower(x[i + 1]) = "f"
    /\ i = 1 \/ x[i - 1] \notin Letters

HasWord(x) ==
    \E i \in 1 .. Len(x) - 1 :
        WordAt(x, i) /\ (i + 1 = Len(x) \/ x[i + 2] \notin Letters)

EndsWithWord(x) == Len(x) >= 2 /\ WordAt(x, Len(x) - 1)

HasEndedWord(x) == \E i \in 1 .. Len(x) - 2 : WordAt(x, i) /\ x[i + 2] \notin Letters

Begins(x) ==
    /\ x # <<>>
    /\ Lower(LastOf(x)) = "f"
    /\ Len(x) = 1 \/ x[Len(x) - 1] \notin Letters

Pair(p, q) == {<<p, q>>}

LEMMA PairWithin ==
    ASSUME NEW y \in Seq(Rune), NEW i \in 1 .. Len(y), NEW j \in 1 .. Len(y),
           NEW p, NEW q
    PROVE  Within(y, i, j, Pair(p, q)) <=> j = i + 1 /\ y[i] = p /\ y[j] = q
<1>0. Len(y) \in Nat /\ i \in Int /\ j \in Int
  OBVIOUS
<1>1. i =< j =>
          /\ SubSeq(y, i, j) \in Seq(Rune)
          /\ Len(SubSeq(y, i, j)) = j - i + 1
          /\ \A k \in 1 .. j - i + 1 : SubSeq(y, i, j)[k] = y[i + k - 1]
  BY <1>0, SubSeqProperties
<1>2. ASSUME i =< j, SubSeq(y, i, j) = <<p, q>>
      PROVE  j = i + 1 /\ y[i] = p /\ y[j] = q
  <2>1. Len(<<p, q>>) = 2 /\ <<p, q>>[1] = p /\ <<p, q>>[2] = q
    OBVIOUS
  <2>2. j - i + 1 = 2
    BY <1>1, <1>2, <2>1
  <2>3. j = i + 1
    BY <1>0, <2>2
  <2>4. SubSeq(y, i, j)[1] = y[i] /\ SubSeq(y, i, j)[2] = y[j]
    BY <1>0, <1>1, <1>2, <2>3
  <2> QED
    BY <1>2, <2>1, <2>3, <2>4
<1>3. ASSUME j = i + 1, y[i] = p, y[j] = q
      PROVE  i =< j /\ SubSeq(y, i, j) = <<p, q>>
  <2>1. i =< j /\ j - i + 1 = 2
    BY <1>0, <1>3
  <2>2. SubSeq(y, i, j)[1] = p /\ SubSeq(y, i, j)[2] = q /\ Len(SubSeq(y, i, j)) = 2
    BY <1>0, <1>1, <1>3, <2>1
  <2>3. p \in Rune /\ q \in Rune
    BY <1>3, ElementOfSeq
  <2>4. <<p, q>> \in Seq(Rune) /\ Len(<<p, q>>) = 2
        /\ <<p, q>>[1] = p /\ <<p, q>>[2] = q
    BY <2>3
  <2>5. \A k \in 1 .. 2 : SubSeq(y, i, j)[k] = <<p, q>>[k]
    BY <2>2, <2>4
  <2>6. SubSeq(y, i, j) \in Seq(Rune)
    BY <1>1, <2>1
  <2> HIDE DEF Within
  <2> QED
    BY <2>1, <2>2, <2>4, <2>5, <2>6, SeqEqual
<1> QED
  BY <1>2, <1>3 DEF Within, Pair

LEMMA LinksAndWords ==
    ASSUME NEW x \in Seq(Rune)
    PROVE  /\ hasLink(x) <=> HasMarker(x)
           /\ hasBlockedWord(x) <=> HasWord(x)
<1> DEFINE y == ToLower(x)
           n == Len(x)
<1>0. /\ y \in Seq(Rune) /\ Len(y) = n /\ n \in Nat /\ DOMAIN x = 1 .. n
      /\ \A i \in 1 .. n : y[i] = Lower(x[i])
  BY ToLowerType
<1> HIDE DEF y, n
<1>1. ASSUME NEW i \in 1 .. n, NEW j \in 1 .. n
      PROVE  /\ Within(y, i, j, linkMarkers) <=>
                   j = i + 1 /\ Lower(x[i]) = "w" /\ Lower(x[j]) = "."
             /\ Within(y, i, j, blocked) <=>
                   j = i + 1 /\ Lower(x[i]) = "f" /\ Lower(x[j]) = "f"
  <2>0. i \in 1 .. Len(y) /\ j \in 1 .. Len(y)
    BY <1>0
  <2>1. linkMarkers = Pair("w", ".") /\ blocked = Pair("f", "f")
    BY DEF linkMarkers, blocked, Pair
  <2>2. Within(y, i, j, linkMarkers) <=> j = i + 1 /\ y[i] = "w" /\ y[j] = "."
    BY <1>0, <2>0, <2>1, PairWithin
  <2>3. Within(y, i, j, blocked) <=> j = i + 1 /\ y[i] = "f" /\ y[j] = "f"
    BY <1>0, <2>0, <2>1, PairWithin
  <2> QED
    BY <1>0, <2>2, <2>3
<1>2. \A i : i \in 1 .. n - 1 <=> i \in 1 .. n /\ i + 1 \in 1 .. n
  BY <1>0
<1>3. hasLink(x) <=> HasMarker(x)
  <2>1. hasLink(x) <=> \E i, j \in 1 .. n : Within(y, i, j, linkMarkers)
    BY <1>0 DEF hasLink, y
  <2>2. HasMarker(x) <=> \E i \in 1 .. n - 1 : Lower(x[i]) = "w" /\ Lower(x[i + 1]) = "."
    BY DEF HasMarker, n
  <2> QED
    BY <1>1, <1>2, <2>1, <2>2
<1>4. hasBlockedWord(x) <=> HasWord(x)
  <2>1. hasBlockedWord(x) <=>
           \E i, j \in 1 .. n :
               /\ Within(y, i, j, blocked)
               /\ i = 1 \/ x[i - 1] \notin Letters
               /\ j = n \/ x[j + 1] \notin Letters
    BY <1>0 DEF hasBlockedWord, y, n
  <2>2. HasWord(x) <=>
           \E i \in 1 .. n - 1 : WordAt(x, i) /\ (i + 1 = n \/ x[i + 2] \notin Letters)
    BY DEF HasWord, n
  <2>3. \A i \in 1 .. n : (i + 1) + 1 = i + 2
    BY <1>0
  <2> QED
    BY <1>1, <1>2, <2>1, <2>2, <2>3 DEF WordAt
<1> QED
  BY <1>3, <1>4

(* What one more rune does to them. *)
LEMMA OneMoreRune ==
    ASSUME NEW x \in Seq(Rune), NEW r \in Rune
    PROVE  LET y == Append(x, r) IN
           /\ y \in Seq(Rune) /\ y # <<>> /\ LastOf(y) = r
           /\ HasMarker(y) <=>
                 \/ HasMarker(x)
                 \/ x # <<>> /\ Lower(LastOf(x)) = "w" /\ Lower(r) = "."
           /\ Begins(y) <=> Lower(r) = "f" /\ (x = <<>> \/ LastOf(x) \notin Letters)
           /\ EndsWithWord(y) <=> Lower(r) = "f" /\ Begins(x)
           /\ HasEndedWord(y) <=> HasEndedWord(x) \/ (EndsWithWord(x) /\ r \notin Letters)
<1> DEFINE y == Append(x, r)
           n == Len(x)
<1>1. /\ y \in Seq(Rune) /\ y # <<>> /\ Len(y) = n + 1 /\ y[n + 1] = r
      /\ \A i \in 1 .. n : y[i] = x[i]
  BY AppendProperties
<1>2. n \in Nat /\ (x = <<>> <=> n = 0)
  BY EmptySeq
<1> HIDE DEF y, n
<1>3. LastOf(y) = r /\ LastOf(x) = x[n]
  BY <1>1 DEF LastOf, n
<1>4. \A i \in 1 .. n - 1 : WordAt(y, i) <=> WordAt(x, i)
  <2> SUFFICES ASSUME NEW i \in 1 .. n - 1 PROVE WordAt(y, i) <=> WordAt(x, i)
    OBVIOUS
  <2>1. y[i] = x[i] /\ y[i + 1] = x[i + 1] /\ (i # 1 => y[i - 1] = x[i - 1])
    BY <1>1, <1>2
  <2> QED
    BY <2>1 DEF WordAt
<1>5. HasMarker(y) <=>
          \/ HasMarker(x)
          \/ x # <<>> /\ Lower(LastOf(x)) = "w" /\ Lower(r) = "."
  <2>1. HasMarker(y) <=> \E i \in 1 .. n : Lower(y[i]) = "w" /\ Lower(y[i + 1]) = "."
    BY <1>1, <1>2 DEF HasMarker
  <2>2. HasMarker(x) <=> \E i \in 1 .. n - 1 : Lower(x[i]) = "w" /\ Lower(x[i + 1]) = "."
    BY DEF HasMarker, n
  <2>3. \A i \in 1 .. n - 1 : y[i] = x[i] /\ y[i + 1] = x[i + 1]
    BY <1>1, <1>2
  <2>4. n # 0 => y[n] = x[n] /\ n \in 1 .. n
    BY <1>1, <1>2
  <2>5. \A i : i \in 1 .. n <=> i \in 1 .. n - 1 \/ (n # 0 /\ i = n)
    BY <1>2
  <2> QED
    BY <1>1, <1>2, <1>3, <2>1, <2>2, <2>3, <2>4, <2>5
<1>6. Begins(y) <=> Lower(r) = "f" /\ (x = <<>> \/ LastOf(x) \notin Letters)
  <2>1. Begins(y) <=> Lower(r) = "f" /\ (n + 1 = 1 \/ y[n] \notin Letters)
    <3>1. (n + 1) - 1 = n
      BY <1>2
    <3> QED
      BY <1>1, <1>3, <3>1 DEF Begins
  <2>2. n # 0 => y[n] = x[n]
    BY <1>1, <1>2
  <2> QED
    BY <1>2, <1>3, <2>1, <2>2
<1>7. EndsWithWord(y) <=> Lower(r) = "f" /\ Begins(x)
  <2>1. CASE n = 0
    BY <1>1, <1>2, <2>1 DEF EndsWithWord, Begins
  <2>2. CASE n # 0
    <3>1. EndsWithWord(y) <=> WordAt(y, n)
      <4>1. n + 1 >= 2 /\ (n + 1) - 1 = n
        BY <1>2, <2>2
      <4> QED
        BY <1>1, <4>1 DEF EndsWithWord
    <3>2. y[n] = x[n] /\ (n # 1 => y[n - 1] = x[n - 1])
      BY <1>1, <1>2, <2>2
    <3>3. WordAt(y, n) <=>
             Lower(x[n]) = "f" /\ Lower(r) = "f" /\ (n = 1 \/ x[n - 1] \notin Letters)
      BY <1>1, <3>2 DEF WordAt
    <3>4. Begins(x) <=> Lower(x[n]) = "f" /\ (n = 1 \/ x[n - 1] \notin Letters)
      BY <1>2, <1>3, <2>2 DEF Begins, n
    <3> QED
      BY <3>1, <3>3, <3>4
  <2> QED
    BY <2>1, <2>2
<1>8. HasEndedWord(y) <=> HasEndedWord(x) \/ (EndsWithWord(x) /\ r \notin Letters)
  <2>1. HasEndedWord(y) <=> \E i \in 1 .. n - 1 : WordAt(y, i) /\ y[i + 2] \notin Letters
    <3>1. (n + 1) - 2 = n - 1
      BY <1>2
    <3> QED
      BY <1>1, <3>1 DEF HasEndedWord
  <2>2. HasEndedWord(x) <=> \E i \in 1 .. n - 2 : WordAt(x, i) /\ x[i + 2] \notin Letters
    BY DEF HasEndedWord, n
  <2>3. EndsWithWord(x) <=> n >= 2 /\ WordAt(x, n - 1)
    BY DEF EndsWithWord, n
  <2>4. \A i : i \in 1 .. n - 1 <=> i \in 1 .. n - 2 \/ (n >= 2 /\ i = n - 1)
    BY <1>2
  <2>5. \A i \in 1 .. n - 2 : y[i + 2] = x[i + 2]
    BY <1>1, <1>2
  <2>6. n >= 2 => y[(n - 1) + 2] = r /\ n - 1 \in 1 .. n - 1
    <3>1. (n - 1) + 2 = n + 1
      BY <1>2
    <3> QED
      BY <1>1, <1>2, <3>1
  <2> HIDE DEF WordAt
  <2>7. ASSUME NEW i \in 1 .. n - 1
        PROVE  (WordAt(y, i) /\ y[i + 2] \notin Letters) <=>
                  \/ i \in 1 .. n - 2 /\ WordAt(x, i) /\ x[i + 2] \notin Letters
                  \/ n >= 2 /\ i = n - 1 /\ WordAt(x, n - 1) /\ r \notin Letters
    <3>1. CASE i \in 1 .. n - 2
      <4>1. i # n - 1
        BY <1>2, <3>1
      <4> QED
        BY <1>4, <2>5, <3>1, <4>1
    <3>2. CASE n >= 2 /\ i = n - 1
      <4>1. i \notin 1 .. n - 2
        BY <1>2, <3>2
      <4> QED
        BY <1>4, <2>6, <3>2, <4>1
    <3> QED
      BY <2>4, <3>1, <3>2
  <2> QED
    BY <2>1, <2>2, <2>3, <2>4, <2>6, <2>7
<1> QED
  BY <1>1, <1>3, <1>5, <1>6, <1>7, <1>8 DEF y

(* What is seen of a text so far, against what was written of it: the last *)
(* runes agree unless a blank is due, and a link or a blocked word seen is *)
(* in what was written, where a due blank ends a word as a space does.     *)
Hides(u, w) ==
    /\ u = <<>> => w.b = <<>>
    /\ u # <<>> /\ LastOf(u) \in Space => w.pendingSpace
    /\ u # <<>> /\ LastOf(u) \notin Space =>
          w.b # <<>> /\ ~w.pendingSpace /\ Lower(LastOf(w.b)) = Lower(LastOf(u))
    /\ HasMarker(u) => HasMarker(w.b)
    /\ Begins(u) => Begins(w.b)
    /\ EndsWithWord(u) => EndsWithWord(w.b) /\ ~w.pendingSpace
    /\ HasEndedWord(u) => HasEndedWord(w.b) \/ (EndsWithWord(w.b) /\ w.pendingSpace)

LEMMA LastRune ==
    ASSUME NEW x \in Seq(Rune), x # <<>>
    PROVE  LastOf(x) \in Rune
<1>1. Len(x) \in 1 .. Len(x)
  BY EmptySeq
<1> QED
  BY <1>1, ElementOfSeq DEF LastOf

LEMMA LetterFacts ==
    /\ Blank \notin Letters /\ Lower(Blank) = Blank
    /\ \A r \in Rune : Lower(r) \in Invisible <=> r \in Invisible
    /\ \A r \in Space : r \in Rune /\ Lower(r) \notin {"f", "w", "."} /\ r \notin Letters
    /\ \A r \in Rune : Lower(r) \in {"f", "w", "."} => r \notin Space
BY DEF Blank, Lower, Rune, Space, Invisible, Punct, Symbol, Letters

LEMMA HidesStep ==
    ASSUME NEW u \in Seq(Rune), NEW w \in LoopState, NEW r \in Rune, Hides(u, w)
    PROVE  Hides(Show(u, Lower(r)), Write(Invisible, w, r))
<1> DEFINE q == Lower(r)
           uu == Append(u, q)
           v == Write(Invisible, w, r)
           p == w.pendingSpace
<1>0. w.b \in Seq(Rune) /\ p \in BOOLEAN
  BY DEF LoopState
<1>1. /\ q \in Rune /\ Lower(q) = Lower(r)
      /\ q \in Space <=> r \in Space
      /\ q \in Letters <=> r \in Letters
      /\ q \in Invisible <=> r \in Invisible
  BY LowerRune, LetterFacts
<1>2. /\ uu # <<>> /\ LastOf(uu) = q
      /\ HasMarker(uu) <=>
            HasMarker(u) \/ (u # <<>> /\ Lower(LastOf(u)) = "w" /\ Lower(r) = ".")
      /\ Begins(uu) <=> Lower(r) = "f" /\ (u = <<>> \/ LastOf(u) \notin Letters)
      /\ EndsWithWord(uu) <=> Lower(r) = "f" /\ Begins(u)
      /\ HasEndedWord(uu) <=> HasEndedWord(u) \/ (EndsWithWord(u) /\ r \notin Letters)
  <2>1. /\ uu # <<>> /\ LastOf(uu) = q
        /\ HasMarker(uu) <=>
              \/ HasMarker(u)
              \/ u # <<>> /\ Lower(LastOf(u)) = "w" /\ Lower(q) = "."
        /\ Begins(uu) <=> Lower(q) = "f" /\ (u = <<>> \/ LastOf(u) \notin Letters)
        /\ EndsWithWord(uu) <=> Lower(q) = "f" /\ Begins(u)
        /\ HasEndedWord(uu) <=> HasEndedWord(u) \/ (EndsWithWord(u) /\ q \notin Letters)
    <3>1. q \in Rune
      BY <1>1
    <3> HIDE DEF q
    <3> QED
      BY <3>1, OneMoreRune
  <2> HIDE DEF uu, q
  <2> QED
    BY <1>1, <2>1
<1>3. CASE r \in Invisible
  <2>1. v = w
    BY <1>3, RuneSets, WriteDropped
  <2>2. Show(u, q) = u
    BY <1>1, <1>3 DEF Show
  <2> QED
    BY <2>1, <2>2
<1>4. r \notin Invisible => Show(u, q) = uu
  BY <1>1 DEF Show
<1>5. CASE r \in Space
  <2>1. v = [b |-> w.b, pendingSpace |-> TRUE]
    BY <1>5, WriteSpace
  <2>2. v.b = w.b /\ v.pendingSpace
    BY <2>1
  <2>3. Show(u, q) = uu
    BY <1>4, <1>5, RuneSets
  <2>4. Lower(r) \notin {"f", "w", "."}
    BY <1>5, LetterFacts
  <2> HIDE DEF uu, v, q, p
  <2>5. ~Begins(uu) /\ ~EndsWithWord(uu) /\ (HasMarker(uu) => HasMarker(u))
    BY <1>2, <2>4
  <2>6. HasEndedWord(uu) => HasEndedWord(w.b) \/ EndsWithWord(w.b)
    BY <1>2 DEF Hides
  <2>7. Hides(uu, v)
    BY <1>1, <1>2, <1>5, <2>2, <2>5, <2>6 DEF Hides
  <2> QED
    BY <2>3, <2>7 DEF v, q
<1>6. CASE r \notin Space /\ r \notin Invisible
  <2> DEFINE apart == p /\ w.b # <<>>
             mid == IF apart THEN Append(w.b, Blank) ELSE w.b
  <2>1. v = [b |-> Append(mid, r), pendingSpace |-> FALSE]
    BY <1>6, WriteKept
  <2>2. v.b = Append(mid, r) /\ ~v.pendingSpace
    BY <2>1
  <2>3. Blank \in Rune /\ Blank \notin Letters /\ Lower(Blank) = Blank
        /\ Lower(Blank) \notin {"f", "w", "."}
    BY RuneSets, LetterFacts
  <2>4. /\ mid \in Seq(Rune)
        /\ ~apart => mid = w.b
        /\ apart => LastOf(mid) = Blank /\ mid # <<>>
        /\ HasMarker(w.b) => HasMarker(mid)
        /\ HasEndedWord(w.b) => HasEndedWord(mid)
        /\ apart /\ EndsWithWord(w.b) => HasEndedWord(mid)
    <3>1. CASE apart
      <4>1. mid = Append(w.b, Blank)
        BY <3>1
      <4> HIDE DEF mid, apart
      <4> QED
        BY <1>0, <2>3, <3>1, <4>1, OneMoreRune
    <3>2. CASE ~apart
      BY <1>0, <3>2
    <3> QED
      BY <3>1, <3>2
  <2> HIDE DEF mid
  <2>5. /\ v.b # <<>> /\ LastOf(v.b) = r
        /\ HasMarker(v.b) <=>
              \/ HasMarker(mid)
              \/ mid # <<>> /\ Lower(LastOf(mid)) = "w" /\ Lower(r) = "."
        /\ Begins(v.b) <=> Lower(r) = "f" /\ (mid = <<>> \/ LastOf(mid) \notin Letters)
        /\ EndsWithWord(v.b) <=> Lower(r) = "f" /\ Begins(mid)
        /\ HasEndedWord(v.b) <=> HasEndedWord(mid) \/ (EndsWithWord(mid) /\ r \notin Letters)
    <3>1. LET y == Append(mid, r) IN
          /\ y # <<>> /\ LastOf(y) = r
          /\ HasMarker(y) <=>
                \/ HasMarker(mid)
                \/ mid # <<>> /\ Lower(LastOf(mid)) = "w" /\ Lower(r) = "."
          /\ Begins(y) <=> Lower(r) = "f" /\ (mid = <<>> \/ LastOf(mid) \notin Letters)
          /\ EndsWithWord(y) <=> Lower(r) = "f" /\ Begins(mid)
          /\ HasEndedWord(y) <=> HasEndedWord(mid) \/ (EndsWithWord(mid) /\ r \notin Letters)
      BY <2>4, OneMoreRune
    <3> HIDE DEF v
    <3> QED
      BY <2>2, <3>1
  <2>6. u # <<>> => LastOf(u) \in Rune
    BY LastRune
  <2>7. w.b # <<>> => LastOf(w.b) \in Rune
    BY <1>0, LastRune
  <2>8. u # <<>> /\ LastOf(u) \notin Space =>
            /\ mid = w.b /\ mid # <<>>
            /\ Lower(LastOf(mid)) = Lower(LastOf(u))
            /\ LastOf(mid) \in Letters <=> LastOf(u) \in Letters
    <3> SUFFICES ASSUME u # <<>>, LastOf(u) \notin Space
                 PROVE  /\ mid = w.b /\ mid # <<>>
                        /\ Lower(LastOf(mid)) = Lower(LastOf(u))
                        /\ LastOf(mid) \in Letters <=> LastOf(u) \in Letters
      OBVIOUS
    <3>1. w.b # <<>> /\ ~p /\ Lower(LastOf(w.b)) = Lower(LastOf(u))
      BY DEF Hides
    <3>2. mid = w.b
      BY <2>4, <3>1
    <3>3. LastOf(w.b) \in Letters <=> LastOf(u) \in Letters
      BY <2>6, <2>7, <3>1, LowerRune
    <3> QED
      BY <3>1, <3>2, <3>3
  <2>9. u # <<>> /\ LastOf(u) \in Space => p /\ LastOf(u) \notin Letters
    BY LetterFacts DEF Hides
  <2>10. HasMarker(uu) => HasMarker(v.b)
    <3>1. HasMarker(u) => HasMarker(mid)
      BY <2>4 DEF Hides
    <3>2. u # <<>> /\ Lower(LastOf(u)) = "w" => LastOf(u) \notin Space
      BY <2>6, LetterFacts
    <3> HIDE DEF uu, v
    <3> QED
      BY <1>2, <2>5, <2>8, <3>1, <3>2
  <2>11. Begins(uu) => Begins(v.b)
    <3> HIDE DEF uu, v, apart, p
    <3> SUFFICES ASSUME u = <<>> \/ LastOf(u) \notin Letters
                 PROVE  mid = <<>> \/ LastOf(mid) \notin Letters
      BY <1>2, <2>5
    <3>1. CASE u = <<>>
      BY <2>3, <2>4, <3>1 DEF Hides
    <3>2. CASE u # <<>> /\ LastOf(u) \notin Space
      BY <2>8, <3>2
    <3>3. CASE u # <<>> /\ LastOf(u) \in Space
      BY <2>3, <2>4, <2>9, <3>3 DEF apart
    <3> QED
      BY <3>1, <3>2, <3>3
  <2>12. EndsWithWord(uu) => EndsWithWord(v.b)
    <3>1. Begins(u) => u # <<>> /\ LastOf(u) \notin Space
      BY <2>6, LetterFacts DEF Begins
    <3>2. Begins(u) => Begins(w.b)
      BY DEF Hides
    <3> HIDE DEF uu, v
    <3> QED
      BY <1>2, <2>5, <2>8, <3>1, <3>2
  <2>13. HasEndedWord(uu) => HasEndedWord(v.b)
    <3>1. EndsWithWord(u) => EndsWithWord(w.b) /\ ~p
      BY DEF Hides
    <3>2. HasEndedWord(u) => HasEndedWord(w.b) \/ (EndsWithWord(w.b) /\ p)
      BY DEF Hides
    <3>3. EndsWithWord(w.b) => w.b # <<>>
      BY EmptySeq DEF EndsWithWord
    <3> HIDE DEF uu, v, p
    <3> QED
      BY <1>2, <2>4, <2>5, <3>1, <3>2, <3>3
  <2>14. Lower(LastOf(v.b)) = Lower(LastOf(uu)) /\ LastOf(uu) \notin Space
    BY <1>1, <1>2, <1>6, <2>5
  <2>15. Show(u, q) = uu
    BY <1>4, <1>6
  <2> HIDE DEF uu, v, q
  <2>16. Hides(uu, v)
    BY <1>2, <2>2, <2>5, <2>10, <2>11, <2>12, <2>13, <2>14 DEF Hides
  <2> QED
    BY <2>15, <2>16 DEF v, q
<1> QED
  BY <1>3, <1>5, <1>6

LEMMA SeenIsWritten ==
    ASSUME NEW s \in Seq(Rune)
    PROVE  /\ hasLink(Seen(s)) => hasLink(normalize(s))
           /\ hasBlockedWord(Seen(s)) => hasBlockedWord(normalize(s))
<1> DEFINE H(t) == Hides(Seen(t), Written(Invisible, t))
           G == {t \in Seq(Rune) : H(t)}
<1>1. <<>> \in G
  <2>1. Written(Invisible, <<>>).b = <<>> /\ Seen(<<>>) = <<>>
    BY WrittenUnfolds, SeenUnfolds DEF Start
  <2>2. ~EndsWithWord(<<>>) /\ ~HasEndedWord(<<>>) /\ ~Begins(<<>>) /\ ~HasMarker(<<>>)
    BY EmptySeq DEF EndsWithWord, HasEndedWord, Begins, HasMarker
  <2>3. H(<<>>)
    BY <2>1, <2>2 DEF Hides
  <2> QED
    BY <2>3, EmptySeq
<1>2. Grows(G)
  <2>1. ASSUME NEW t \in Seq(Rune), NEW r \in Rune, H(t) PROVE H(Append(t, r))
    <3>1. /\ Seen(Append(t, r)) = Show(Seen(t), Lower(r))
          /\ Seen(t) \in Seq(Rune)
      BY SeenUnfolds
    <3>2. /\ Written(Invisible, Append(t, r)) = Write(Invisible, Written(Invisible, t), r)
          /\ Written(Invisible, t) \in LoopState
      BY WrittenUnfolds
    <3> QED
      BY <2>1, <3>1, <3>2, HidesStep
  <2>2. \A t \in Seq(Rune), r \in Rune : Append(t, r) \in Seq(Rune)
    BY AppendProperties
  <2> HIDE DEF H
  <2> QED
    BY <2>1, <2>2 DEF Grows
<1>3. H(s)
  <2> HIDE DEF G
  <2>1. s \in G
    BY <1>1, <1>2, EveryText
  <2> QED
    BY <2>1 DEF G
<1> DEFINE u == Seen(s)
           t == normalize(s)
<1>4. u \in Seq(Rune) /\ t \in Seq(Rune)
  <2>1. \E r : r \in Rune
    BY RuneSets
  <2> QED
    BY <2>1, SeenUnfolds, NormalizeTwice
<1>5. t = Written(Invisible, s).b
  BY DEF normalize, Squeeze
<1> HIDE DEF u, t
<1>6. /\ HasMarker(u) => HasMarker(t)
      /\ EndsWithWord(u) => EndsWithWord(t)
      /\ HasEndedWord(u) => HasEndedWord(t) \/ EndsWithWord(t)
  BY <1>3, <1>5 DEF Hides, u
<1>7. \A x \in Seq(Rune) : HasWord(x) <=> HasEndedWord(x) \/ EndsWithWord(x)
  <2> SUFFICES ASSUME NEW x \in Seq(Rune)
               PROVE  HasWord(x) <=> HasEndedWord(x) \/ EndsWithWord(x)
    OBVIOUS
  <2> DEFINE n == Len(x)
  <2>1. n \in Nat
    OBVIOUS
  <2> HIDE DEF n
  <2>2. \A i : i \in 1 .. n - 1 <=> i \in 1 .. n - 2 \/ (n >= 2 /\ i = n - 1)
    BY <2>1
  <2>3. \A i \in 1 .. n - 2 : i + 1 # n
    BY <2>1
  <2>4. n >= 2 => (n - 1) + 1 = n /\ n - 1 \in 1 .. n - 1
    BY <2>1
  <2>5. /\ HasWord(x) <=>
              \E i \in 1 .. n - 1 : WordAt(x, i) /\ (i + 1 = n \/ x[i + 2] \notin Letters)
        /\ HasEndedWord(x) <=> \E i \in 1 .. n - 2 : WordAt(x, i) /\ x[i + 2] \notin Letters
        /\ EndsWithWord(x) <=> n >= 2 /\ WordAt(x, n - 1)
    BY DEF HasWord, HasEndedWord, EndsWithWord, n
  <2> QED
    BY <2>2, <2>3, <2>4, <2>5
<1> QED
  BY <1>4, <1>6, <1>7, LinksAndWords DEF u, t

(* No invisible rune, space or capital gets a link or a blocked word past  *)
(* Validate.                                                               *)
THEOREM NothingGetsPast == Spec => []NothingHidden
<1>1. Typed => NothingHidden
  <2> SUFFICES ASSUME Typed, Validate(act, by) = "ok", NEW s \in {act, by}
               PROVE  ~hasLink(Seen(s)) /\ ~hasBlockedWord(Seen(s))
    BY DEF NothingHidden
  <2>1. ~hasLink(normalize(s)) /\ ~hasBlockedWord(normalize(s))
    BY DEF Validate
  <2> QED
    BY <2>1, SeenIsWritten DEF Typed
<1> QED
  BY <1>1, AlwaysTyped, PTL
=============================================================================
