------------------------------ MODULE FoldLemmas ------------------------------
(***************************************************************************)
(* What the proofs about loops need.  A loop of the code over a slice is a *)
(* FoldLeft in the models, whose value is that of a function on the sets   *)
(* of indices already passed.  Here it is shown that such a function       *)
(* exists, whatever a turn of the loop does, and which sequence of values  *)
(* the loop goes through; an invariant of the loop then follows from       *)
(* Induction.                                                              *)
(***************************************************************************)
EXTENDS Integers, Sequences, SequencesExt, WellFoundedInduction, TLAPS

-----------------------------------------------------------------------------
(* Least and greatest numbers.                                             *)
LEMMA NatLessPair ==
    ASSUME NEW x \in Nat, NEW y \in Nat, x < y
    PROVE  <<x, y>> \in OpToRel(<, Nat)
BY DEF OpToRel

LEMMA LeastNatural ==
    ASSUME NEW T \in SUBSET Nat, T # {}
    PROVE  \E x \in T : \A y \in T : x <= y
<1>1. PICK x \in T : \A y \in T : ~ (<<y, x>> \in OpToRel(<, Nat))
  BY NatLessThanWellFounded, WFMin
<1>2. \A y \in T : ~ (y < x)
  BY <1>1, NatLessPair
<1> QED
  BY <1>2

LEMMA MinIsLeast ==
    ASSUME NEW T \in SUBSET Nat, T # {}
    PROVE  Min(T) \in T /\ \A y \in T : Min(T) <= y
BY LeastNatural DEF Min

LEMMA MaxIsGreatest ==
    ASSUME NEW n \in Nat, NEW T \in SUBSET (0 .. n), T # {}
    PROVE  Max(T) \in T /\ \A y \in T : y <= Max(T)
<1> DEFINE D == {n - i : i \in T}
<1>1. \A i \in T : n - i \in Nat
  OBVIOUS
<1>a. D \in SUBSET Nat /\ D # {}
  BY <1>1
<1>2. PICK d \in D : \A e \in D : d <= e
  BY <1>a, LeastNatural
<1>3. PICK x \in T : d = n - x
  BY <1>2
<1>4. \A y \in T : n - y \in D /\ n - x <= n - y
  BY <1>2, <1>3
<1>5. \A y \in T : x >= y
  BY <1>4
<1> QED
  BY <1>5 DEF Max

(* Induction up to N, for a set instead of a predicate.                    *)
LEMMA Induction ==
    ASSUME NEW N \in Nat, NEW S, 0 \in S,
           \A n \in 0 .. N - 1 : n \in S => n + 1 \in S
    PROVE  0 .. N \subseteq S
<1> DEFINE missing == {n \in 0 .. N : n \notin S}
<1>1. SUFFICES ASSUME missing # {} PROVE FALSE
  OBVIOUS
<1>2. missing \in SUBSET Nat
  OBVIOUS
<1>3. PICK x \in missing : \A y \in missing : x <= y
  BY <1>1, <1>2, LeastNatural
<1>4. x \in 1 .. N /\ x - 1 \in 0 .. N - 1 /\ (x - 1) + 1 = x
  OBVIOUS
<1>5. x - 1 \in S
  BY <1>3, <1>4
<1> QED
  BY <1>4, <1>5

-----------------------------------------------------------------------------
(* The indices passed after n turns, and the last of them.                 *)
LEMMA LastOfSet ==
    ASSUME NEW N \in Nat, NEW s \in SUBSET (1 .. N), s # {}
    PROVE  /\ Max(s) \in s /\ Max(s) \in 1 .. N
           /\ \A i \in s : i <= Max(s)
           /\ s \ {Max(s)} \in SUBSET (1 .. N)
<1>1. s \in SUBSET (0 .. N)
  OBVIOUS
<1>2. Max(s) \in s /\ \A i \in s : i <= Max(s)
  BY <1>1, MaxIsGreatest
<1> QED
  BY <1>2

LEMMA Passed ==
    ASSUME NEW n \in Nat \ {0}
    PROVE  1 .. n # {} /\ Max(1 .. n) = n /\ (1 .. n) \ {n} = 1 .. n - 1
<1>1. 1 .. n \in SUBSET (1 .. n) /\ n \in 1 .. n
  OBVIOUS
<1>2. Max(1 .. n) \in 1 .. n /\ n <= Max(1 .. n)
  BY <1>1, LastOfSet
<1>3. (1 .. n) \ {n} = 1 .. n - 1
  OBVIOUS
<1> QED
  BY <1>1, <1>2, <1>3

(* A turn of a loop of N turns, as a function of its index and of what the *)
(* turns before it left; and a function of the sets of indices passed that *)
(* does as the loop does, wherever what was left has the right type.       *)
Turns(N, T) == [(1 .. N) \X T -> T]

Loops(c, N, T, base, step) ==
    /\ c[{}] = base
    /\ \A s \in SUBSET (1 .. N) :
          s # {} /\ c[s \ {Max(s)}] \in T => c[s] = step[<<Max(s), c[s \ {Max(s)}]>>]

(* Such a function exists.                                                 *)
LEMMA LoopExists ==
    ASSUME NEW N \in Nat, NEW T, NEW base \in T, NEW step \in Turns(N, T)
    PROVE  \E f \in [SUBSET (1 .. N) -> T] : Loops(f, N, T, base, step)
<1> DEFINE Does(f, n) ==
       \A s \in SUBSET (1 .. n) :
          f[s] = IF s = {} THEN base ELSE step[<<Max(s), f[s \ {Max(s)}]>>]
<1> DEFINE done == {n \in 0 .. N : \E f \in [SUBSET (1 .. n) -> T] : Does(f, n)}
<1>1. 0 \in done
  <2> DEFINE f == [s \in SUBSET (1 .. 0) |-> base]
  <2>1. \A s \in SUBSET (1 .. 0) : s = {}
    OBVIOUS
  <2>2. f \in [SUBSET (1 .. 0) -> T]
    OBVIOUS
  <2>3. Does(f, 0)
    BY <2>1
  <2> HIDE DEF f
  <2>4. 0 \in 0 .. N
    OBVIOUS
  <2> QED
    BY <2>2, <2>3, <2>4
<1>2. ASSUME NEW n \in 0 .. N - 1, n \in done PROVE n + 1 \in done
  <2>1. PICK f \in [SUBSET (1 .. n) -> T] : Does(f, n)
    BY <1>2
  <2> HIDE DEF done
  <2> DEFINE g == [s \in SUBSET (1 .. n + 1) |->
                      IF n + 1 \in s THEN step[<<n + 1, f[s \ {n + 1}]>>] ELSE f[s]]
  <2>2. \A s \in SUBSET (1 .. n + 1) :
           /\ n + 1 \notin s => s \in SUBSET (1 .. n)
           /\ s \ {n + 1} \in SUBSET (1 .. n)
    <3> TAKE s \in SUBSET (1 .. n + 1)
    <3>1. \A i \in 1 .. n + 1 : i # n + 1 => i \in 1 .. n
      OBVIOUS
    <3>2. \A i \in s : i \in 1 .. n + 1
      OBVIOUS
    <3>3. s \ {n + 1} \subseteq 1 .. n
      BY <3>1, <3>2, Zenon
    <3>4. n + 1 \notin s => s \subseteq 1 .. n
      BY <3>3
    <3> QED
      BY <3>3, <3>4
  <2>3. \A s \in SUBSET (1 .. n + 1) : n + 1 \in s => Max(s) = n + 1
    <3> TAKE s \in SUBSET (1 .. n + 1)
    <3> HAVE n + 1 \in s
    <3>1. Max(s) \in 1 .. n + 1 /\ n + 1 <= Max(s)
      BY LastOfSet
    <3> QED
      BY <3>1
  <2>4. g \in [SUBSET (1 .. n + 1) -> T]
    <3>1. ASSUME NEW s \in SUBSET (1 .. n + 1)
          PROVE  (IF n + 1 \in s THEN step[<<n + 1, f[s \ {n + 1}]>>] ELSE f[s]) \in T
      <4>1. CASE n + 1 \in s
        <5>1. f[s \ {n + 1}] \in T /\ n + 1 \in 1 .. N
          BY <2>1, <2>2
        <5> QED
          BY <4>1, <5>1 DEF Turns
      <4>2. CASE n + 1 \notin s
        BY <2>1, <2>2, <4>2
      <4> QED
        BY <4>1, <4>2
    <3> QED
      BY <3>1
  <2>5. Does(g, n + 1)
    <3> SUFFICES ASSUME NEW s \in SUBSET (1 .. n + 1)
                 PROVE  g[s] = IF s = {} THEN base ELSE step[<<Max(s), g[s \ {Max(s)}]>>]
      OBVIOUS
    <3>1. CASE n + 1 \in s
      <4>1. s \ {n + 1} \in SUBSET (1 .. n + 1) /\ n + 1 \notin s \ {n + 1}
        OBVIOUS
      <4>2. g[s \ {n + 1}] = f[s \ {n + 1}]
        BY <4>1
      <4> QED
        BY <2>3, <3>1, <4>2
    <3>2. CASE n + 1 \notin s
      <4>1. s \in SUBSET (1 .. n) /\ g[s] = f[s]
        BY <2>2, <3>2
      <4>2. CASE s = {}
        BY <2>1, <4>1, <4>2
      <4>3. CASE s # {}
        <5>1. s \ {Max(s)} \in SUBSET (1 .. n + 1) /\ n + 1 \notin s \ {Max(s)}
          BY <3>2
        <5>2. g[s \ {Max(s)}] = f[s \ {Max(s)}]
          BY <5>1
        <5> QED
          BY <2>1, <4>1, <4>3, <5>2
      <4> QED
        BY <4>2, <4>3
    <3> QED
      BY <3>1, <3>2
  <2>6. n + 1 \in 0 .. N
    OBVIOUS
  <2> HIDE DEF g
  <2> QED
    BY <2>4, <2>5, <2>6 DEF done
<1>3. 0 .. N \subseteq done
  <2> HIDE DEF done
  <2> QED
    BY <1>1, <1>2, Induction
<1>4. N \in 0 .. N
  OBVIOUS
<1>5. N \in done
  BY <1>3, <1>4
<1>6. PICK f \in [SUBSET (1 .. N) -> T] : Does(f, N)
  BY <1>5
<1>7. {} \in SUBSET (1 .. N)
  OBVIOUS
<1>8. Loops(f, N, T, base, step)
  BY <1>6, <1>7 DEF Loops
<1> QED
  BY <1>6, <1>8

(* The values a loop goes through, turn by turn.                           *)
Passes(g, N, base, step) ==
    /\ g[0] = base
    /\ \A n \in 1 .. N : n - 1 \in 0 .. N /\ g[n] = step[<<n, g[n - 1]>>]

LEMMA LoopValues ==
    ASSUME NEW N \in Nat, NEW T, NEW base \in T, NEW step \in Turns(N, T), NEW c,
           Loops(c, N, T, base, step)
    PROVE  \E g \in [0 .. N -> T] : Passes(g, N, base, step) /\ g[N] = c[1 .. N]
<1> DEFINE g == [n \in 0 .. N |-> c[1 .. n]]
<1> DEFINE done == {n \in 0 .. N : c[1 .. n] \in T}
<1>1. c[1 .. 0] = base
  <2>1. 1 .. 0 = {}
    OBVIOUS
  <2> QED
    BY <2>1 DEF Loops
<1>2. ASSUME NEW n \in 1 .. N, c[1 .. n - 1] \in T
      PROVE  c[1 .. n] = step[<<n, c[1 .. n - 1]>>] /\ c[1 .. n] \in T
  <2> n \in Nat \ {0}
    OBVIOUS
  <2>1. 1 .. n # {} /\ Max(1 .. n) = n /\ (1 .. n) \ {n} = 1 .. n - 1
    BY Passed
  <2>2. 1 .. n \in SUBSET (1 .. N)
    OBVIOUS
  <2>3. c[(1 .. n) \ {Max(1 .. n)}] = c[1 .. n - 1]
    BY <2>1
  <2>4. c[1 .. n] = step[<<n, c[1 .. n - 1]>>]
    BY <1>2, <2>1, <2>2, <2>3 DEF Loops
  <2> QED
    BY <1>2, <2>4 DEF Turns
<1>3. 0 .. N \subseteq done
  <2>1. 0 \in done
    BY <1>1
  <2>2. ASSUME NEW n \in 0 .. N - 1, n \in done PROVE n + 1 \in done
    <3>1. n + 1 \in 1 .. N /\ (n + 1) - 1 = n
      OBVIOUS
    <3>2. c[1 .. (n + 1) - 1] \in T
      BY <2>2, <3>1
    <3>3. c[1 .. n + 1] \in T
      BY <1>2, <3>1, <3>2
    <3> QED
      BY <3>1, <3>3
  <2> HIDE DEF done
  <2> QED
    BY <2>1, <2>2, Induction
<1>4. \A n \in 0 .. N : c[1 .. n] \in T
  BY <1>3
<1>5. g \in [0 .. N -> T]
  BY <1>4
<1>6. \A n \in 1 .. N : n - 1 \in 0 .. N /\ g[n] = step[<<n, g[n - 1]>>]
  BY <1>2, <1>4
<1>7. g[0] = base /\ g[N] = c[1 .. N]
  BY <1>1
<1> HIDE DEF g
<1> QED
  BY <1>5, <1>6, <1>7 DEF Passes

LEMMA InUpTo == \A n \in Nat : n \in 0 .. n
OBVIOUS

(* So what every turn keeps holds in the end.                              *)
LEMMA LoopStays ==
    ASSUME NEW N \in Nat, NEW T, NEW base \in T, NEW step \in Turns(N, T), NEW c,
           Loops(c, N, T, base, step)
    PROVE  c[1 .. N] \in T
<1>1. /\ N \in Nat /\ base \in T /\ step \in Turns(N, T)
      /\ Loops(c, N, T, base, step)
  OBVIOUS
<1>2. \E g \in [0 .. N -> T] : Passes(g, N, base, step) /\ g[N] = c[1 .. N]
  BY <1>1, LoopValues
<1>3. N \in 0 .. N
  BY InUpTo
<1> QED
  BY <1>2, <1>3
=============================================================================
