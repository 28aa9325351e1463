---------------------------- MODULE InductionFacts ----------------------------
(***************************************************************************)
(* Induction for the proofs of the other modules, stated of sets instead   *)
(* of predicates: what a set that contains the base and is closed under    *)
(* the step contains.  And what follows from it for functions defined by   *)
(* recursion along a sequence.                                             *)
(***************************************************************************)
EXTENDS Integers, Sequences, SequenceTheorems, WellFoundedInduction, TLAPS

(* A set of naturals has a least element. *)
LEMMA LessThanIsWellFounded == IsWellFoundedOn({p \in Nat \X Nat : p[1] < p[2]}, Nat)
BY NatLessThanWellFounded, Zenon DEF OpToRel

LEMMA LeastOf ==
    ASSUME NEW S, S \subseteq Nat, S # {}
    PROVE  \E x \in S : \A y \in S : x <= y
<1> DEFINE Less == {p \in Nat \X Nat : p[1] < p[2]}
<1>1. PICK x \in S : \A y \in S : ~ (<<y, x>> \in Less)
    <2> HIDE DEF Less
    <2>1. IsWellFoundedOn(Less, Nat)
        BY LessThanIsWellFounded DEF Less
    <2> QED
        BY <2>1, WFMin
<1>2. ASSUME NEW y \in S PROVE x <= y
    <2>1. <<y, x>> \notin Less
        BY <1>1
    <2>2. ~ (y < x)
        BY <2>1
    <2> QED
        BY <2>2
<1> QED
    BY <1>2

(* Induction up to n. *)
LEMMA UpTo ==
    ASSUME NEW n \in Nat, NEW S, 0 \in S, \A k \in 0..n : k \in S /\ k # n => k + 1 \in S
    PROVE  0..n \subseteq S
<1> SUFFICES ASSUME ~ (0..n \subseteq S) PROVE FALSE
    OBVIOUS
<1> DEFINE Missing == {k \in 0..n : k \notin S}
<1>1. PICK m \in Missing : \A k \in Missing : m <= k
    <2>1. Missing \subseteq Nat /\ Missing # {}
        OBVIOUS
    <2> HIDE DEF Missing
    <2> QED
        BY <2>1, LeastOf
<1>2. m # 0 /\ m - 1 \in 0..n /\ m - 1 \notin Missing
    BY <1>1
<1>3. m - 1 \in S /\ (m - 1) + 1 = m
    BY <1>1, <1>2
<1> QED
    BY <1>1, <1>2, <1>3

(* Induction on sequences, by their last element. *)
LEMMA AllSequences ==
    ASSUME NEW T, NEW S, << >> \in S, \A s \in Seq(T) : \A e \in T : s \in S => Append(s, e) \in S
    PROVE  Seq(T) \subseteq S
<1> SUFFICES ASSUME NEW s \in Seq(T) PROVE s \in S
    OBVIOUS
<1> DEFINE front(k) == SubSeq(s, 1, k)
           Good == {k \in 0..Len(s) : front(k) \in S}
<1>1. Len(s) \in Nat
    OBVIOUS
<1>2. front(0) = << >>
    BY SubSeqEmpty
<1>3. ASSUME NEW k \in 0..Len(s), front(k) \in S, k # Len(s) PROVE front(k + 1) \in S
    <2>1. k + 1 \in 1..Len(s) /\ 1 \in 1..Len(s) /\ k + 1 \in 1..Len(s)
        BY <1>1, <1>3
    <2>2. front(k + 1) = front(k) \o <<s[k + 1]>>
        BY <2>1, SubSeqRecursiveSecond, (k + 1) - 1 = k
    <2>3. front(k) \in Seq(T) /\ s[k + 1] \in T
        BY <2>1, <1>1, SubSeqProperties
    <2> HIDE DEF front
    <2>4. front(k + 1) = Append(front(k), s[k + 1])
        BY <2>2, <2>3, AppendIsConcat
    <2> QED
        BY <1>3, <2>3, <2>4
<1>4. front(Len(s)) = s
    BY SubSeqFull
<1> HIDE DEF front
<1>5. Len(s) \in Good
    <2>1. 0 \in Good /\ \A k \in 0..Len(s) : k \in Good /\ k # Len(s) => k + 1 \in Good
        BY <1>1, <1>2, <1>3
    <2> HIDE DEF Good
    <2>2. 0..Len(s) \subseteq Good
        BY <1>1, <2>1, UpTo
    <2> QED
        BY <1>1, <2>2
<1> QED
    BY <1>4, <1>5

(* A function that computes along a sequence, and the step it takes. *)
IsStep(step, V, T) == step \in [V \X T -> V]
IsRun(f, V, start, step, s) ==
    /\ f \in [0..Len(s) -> V]
    /\ f[0] = start
    /\ \A k \in 1..Len(s) : f[k] = step[<<f[k - 1], s[k]>>]

(* A recursion along a sequence has a solution, and of the type of its step. *)
LEMMA RunExists ==
    ASSUME NEW T, NEW V, NEW start, start \in V, NEW step, IsStep(step, V, T),
           NEW s, s \in Seq(T)
    PROVE  \E f : IsRun(f, V, start, step, s)
<1> DEFINE Runs(k) == {f \in [0..k -> V] : f[0] = start /\ \A j \in 1..k : f[j] = step[<<f[j - 1], s[j]>>]}
           Good == {k \in 0..Len(s) : Runs(k) # {}}
<1>1. Len(s) \in Nat /\ step \in [V \X T -> V]
    BY DEF IsStep
<1>2. 0 \in Good
    <2>1. [k \in 0..0 |-> start] \in Runs(0)
        OBVIOUS
    <2> QED
        BY <1>1, <2>1
<1>3. ASSUME NEW k \in 0..Len(s), k \in Good, k # Len(s) PROVE k + 1 \in Good
    <2>1. PICK f \in Runs(k) : TRUE
        BY <1>3
    <2>2. k + 1 \in 1..Len(s) /\ s[k + 1] \in T /\ f[k] \in V
        BY <1>1, <1>3, <2>1
    <2> DEFINE g == [j \in 0..(k + 1) |-> IF j = k + 1 THEN step[<<f[k], s[k + 1]>>] ELSE f[j]]
    <2>3. step[<<f[k], s[k + 1]>>] \in V
        BY <1>1, <2>2
    <2>4. g \in [0..(k + 1) -> V]
        BY <2>1, <2>3
    <2>5. g[0] = start /\ g[k + 1] = step[<<f[k], s[k + 1]>>] /\ \A j \in 0..k : g[j] = f[j]
        BY <2>1, <2>2
    <2>6. \A j \in 1..(k + 1) : g[j] = step[<<g[j - 1], s[j]>>]
        <3> HIDE DEF g
        <3>1. TAKE j \in 1..(k + 1)
        <3>2. CASE j = k + 1
            BY <2>5, <3>2, (k + 1) - 1 = k, k \in 0..k
        <3>3. CASE j \in 1..k
            BY <2>1, <2>5, <3>3, j \in 0..k, j - 1 \in 0..k
        <3> QED
            BY <1>1, <3>2, <3>3
    <2>7. Runs(k + 1) # {}
        BY <2>4, <2>5, <2>6
    <2> QED
        BY <2>2, <2>7
<1>4. Len(s) \in Good
    <2> HIDE DEF Good
    <2>1. 0..Len(s) \subseteq Good
        BY <1>1, <1>2, <1>3, UpTo
    <2> QED
        BY <1>1, <2>1
<1> QED
    BY <1>4 DEF IsRun

(* Two solutions agree as far as both go. *)
Agree(f, g, n) == \A k \in 0..n : f[k] = g[k]
StepAlike(f, g, n) == f[0] = g[0] /\ \A k \in 1..n : f[k - 1] = g[k - 1] => f[k] = g[k]

LEMMA RunsAgree ==
    ASSUME NEW n, n \in Nat, NEW f, NEW g, StepAlike(f, g, n)
    PROVE  Agree(f, g, n)
<1> DEFINE Same == {k \in 0..n : f[k] = g[k]}
<1>1. 0 \in Same
    BY DEF StepAlike
<1>2. ASSUME NEW k \in 0..n, k \in Same, k # n PROVE k + 1 \in Same
    BY <1>2, k + 1 \in 1..n, (k + 1) - 1 = k DEF StepAlike
<1>3. 0..n \subseteq Same
    <2> HIDE DEF Same
    <2> QED
        BY <1>1, <1>2, UpTo
<1> QED
    BY <1>3 DEF Agree
=============================================================================
