------------------------- MODULE MessageFilterProofs -------------------------
(***************************************************************************)
(* What MessageFilter's Without does to the empty sequence, to a message   *)
(* that is appended or taken, and to two sequences after each other; and   *)
(* sequences of sequences after each other.                                *)
(***************************************************************************)
EXTENDS MessageFilter, SequenceTheorems, WellFoundedInduction, TLAPS

(***************************************************************************)
(* Induction up to a bound, as the absence of a least counterexample.      *)
(***************************************************************************)
Less == {pair \in Nat \X Nat : pair[1] < pair[2]}

(* The order of the numbers is well-founded. *)
LEMMA LessWellFounded == IsWellFoundedOn(Less, Nat)
BY NatLessThanWellFounded DEF OpToRel, Less

(* A set of numbers that is not empty has a least member. *)
LEMMA LeastMember ==
  ASSUME NEW T \in SUBSET Nat, T # {}
  PROVE  \E x \in T : \A y \in T : x <= y
<1>1. \E x \in T : \A y \in T : ~(<<y, x>> \in Less)
  BY LessWellFounded, WFMin
<1>2. PICK x \in T : \A y \in T : <<y, x>> \notin Less
  BY <1>1
<1>3. ASSUME NEW y \in T PROVE x <= y
  <2>1. x \in Nat /\ y \in Nat /\ <<y, x>> \notin Less
    BY <1>2
  <2>2. <<y, x>> \in Nat \X Nat /\ <<y, x>>[1] = y /\ <<y, x>>[2] = x
    BY <2>1
  <2>3. ~(y < x)
    BY <2>1, <2>2 DEF Less
  <2> QED BY <2>1, <2>3
<1> QED BY <1>3

(* A set that holds 0 and, with each number below n, the next one holds all numbers
   up to n. *)
LEMMA UpTo ==
  ASSUME NEW n \in Nat, NEW S, 0 \in S,
         \A i \in 0..(n - 1) : i \in S => i + 1 \in S
  PROVE  \A i \in 0..n : i \in S
<1> DEFINE T == {i \in 0..n : i \notin S}
<1>1. SUFFICES ASSUME T # {} PROVE FALSE
  OBVIOUS
<1>2. T \in SUBSET Nat
  OBVIOUS
<1>3. PICK x \in T : \A y \in T : x <= y
  BY <1>1, <1>2, LeastMember
<1>4. x \in 0..n /\ x \notin S /\ x # 0
  BY <1>3
<1>5. x - 1 \in 0..(n - 1) /\ x - 1 \in 0..n /\ ~(x <= x - 1) /\ (x - 1) + 1 = x
  BY <1>4
<1>6. x - 1 \in S
  BY <1>3, <1>5
<1> QED BY <1>4, <1>5, <1>6

-----------------------------------------------------------------------------
(***************************************************************************)
(* The function by which Without is defined.                               *)
(***************************************************************************)

(* f holds what Without keeps of the first messages of s, for each number of them up
   to n. *)
IsKept(f, n, s, types) ==
  f = [i \in 0..n |-> IF i = 0 THEN <<>>
                      ELSE IF s[i].type \in types THEN f[i - 1]
                      ELSE Append(f[i - 1], s[i])]

(* There is such a function. *)
LEMMA KeptExists ==
  ASSUME NEW s, NEW types, NEW n \in Nat
  PROVE  \E f : IsKept(f, n, s, types)
<1> DEFINE S == {i \in Nat : \E f : IsKept(f, i, s, types)}
<1>1. 0 \in S
  <2> DEFINE f == [i \in 0..0 |-> <<>>]
  <2>1. IsKept(f, 0, s, types)
    BY DEF IsKept
  <2> QED BY <2>1
<1>2. ASSUME NEW k \in 0..(n - 1), k \in S PROVE k + 1 \in S
  <2>1. PICK f : IsKept(f, k, s, types)
    BY <1>2
  <2> DEFINE more == IF s[k + 1].type \in types THEN f[k] ELSE Append(f[k], s[k + 1])
             g == [i \in 0..(k + 1) |-> IF i = k + 1 THEN more ELSE f[i]]
             h(i) == IF i = 0 THEN <<>>
                     ELSE IF s[i].type \in types THEN g[i - 1]
                     ELSE Append(g[i - 1], s[i])
  <2>2. ASSUME NEW i \in 0..(k + 1) PROVE g[i] = h(i)
    <3>1. CASE i = k + 1
      <4>1. i # 0 /\ i - 1 = k /\ k # k + 1 /\ k \in 0..(k + 1)
        BY <3>1
      <4>2. g[i - 1] = f[k] /\ g[i] = more
        BY <3>1, <4>1
      <4> HIDE DEF g
      <4> QED BY <3>1, <4>1, <4>2
    <3>2. CASE i # k + 1
      <4>1. i \in 0..k /\ (i # 0 => i - 1 \in 0..(k + 1) /\ i - 1 # k + 1)
        BY <3>2
      <4>2. g[i] = f[i] /\ (i # 0 => g[i - 1] = f[i - 1])
        BY <3>2, <4>1
      <4>3. f[i] = IF i = 0 THEN <<>>
                   ELSE IF s[i].type \in types THEN f[i - 1]
                   ELSE Append(f[i - 1], s[i])
        BY <2>1, <4>1 DEF IsKept
      <4> HIDE DEF g
      <4> QED BY <4>2, <4>3
    <3> QED BY <3>1, <3>2
  <2>3. g = [i \in 0..(k + 1) |-> h(i)]
    <3> HIDE DEF h
    <3> QED BY <2>2
  <2>4. IsKept(g, k + 1, s, types)
    BY <2>3 DEF IsKept
  <2> QED BY <2>4
<1>3. \A i \in 0..(n - 1) : i \in S => i + 1 \in S
  BY <1>2
<1>4. \A i \in 0..n : i \in S
  <2> HIDE DEF S
  <2> QED BY <1>1, <1>3, UpTo
<1> QED BY <1>4

Kept(s, types) == CHOOSE f : IsKept(f, Len(s), s, types)

LEMMA WithoutKept ==
  ASSUME NEW s, NEW types
  PROVE  Without(s, types) = Kept(s, types)[Len(s)]
BY DEF Without, Kept, IsKept

(* What it is for no message and for one message more. *)
LEMMA KeptStep ==
  ASSUME NEW M, NEW s \in Seq(M), NEW types
  PROVE  /\ Kept(s, types)[0] = <<>>
         /\ \A i \in 1..Len(s) :
              Kept(s, types)[i] = IF s[i].type \in types THEN Kept(s, types)[i - 1]
                                  ELSE Append(Kept(s, types)[i - 1], s[i])
<1>1. IsKept(Kept(s, types), Len(s), s, types)
  BY KeptExists DEF Kept
<1> DEFINE f == Kept(s, types)
<1>2. f = [i \in 0..Len(s) |-> IF i = 0 THEN <<>>
                               ELSE IF s[i].type \in types THEN f[i - 1]
                               ELSE Append(f[i - 1], s[i])]
  BY <1>1 DEF IsKept
<1> HIDE DEF f
<1>3. f[0] = <<>>
  BY <1>2
<1>4. ASSUME NEW i \in 1..Len(s)
      PROVE  f[i] = IF s[i].type \in types THEN f[i - 1] ELSE Append(f[i - 1], s[i])
  <2>1. i \in 0..Len(s) /\ i # 0
    OBVIOUS
  <2> QED BY <1>2, <2>1
<1> QED BY <1>3, <1>4 DEF f

-----------------------------------------------------------------------------
(***************************************************************************)
(* Induction over sequences.                                               *)
(***************************************************************************)

(* A set that holds the empty sequence and, with each sequence, those that are longer by
   one holds all sequences. *)
LEMMA SeqInduction ==
  ASSUME NEW M, NEW G, <<>> \in G,
         \A u \in Seq(M) : u \in G => \A m \in M : Append(u, m) \in G
  PROVE  \A u \in Seq(M) : u \in G
<1> SUFFICES ASSUME NEW u \in Seq(M) PROVE u \in G
  OBVIOUS
<1> DEFINE S == {i \in Nat : SubSeq(u, 1, i) \in G}
<1>1. 0 \in S
  <2>1. SubSeq(u, 1, 0) = <<>>
    OBVIOUS
  <2> QED BY <2>1
<1>2. ASSUME NEW i \in 0..(Len(u) - 1), i \in S PROVE i + 1 \in S
  <2>1. SubSeq(u, 1, i) \in Seq(M) /\ u[i + 1] \in M
    OBVIOUS
  <2>2. SubSeq(u, 1, i + 1) = Append(SubSeq(u, 1, i), u[i + 1])
    OBVIOUS
  <2>3. i + 1 \in Nat /\ SubSeq(u, 1, i) \in G
    BY <1>2
  <2>4. Append(SubSeq(u, 1, i), u[i + 1]) \in G
    BY <2>1, <2>3
  <2> QED BY <2>2, <2>3, <2>4
<1>3. \A i \in 0..(Len(u) - 1) : i \in S => i + 1 \in S
  BY <1>2
<1>4. Len(u) \in Nat
  OBVIOUS
<1>5. \A i \in 0..Len(u) : i \in S
  <2> HIDE DEF S
  <2> QED BY <1>1, <1>3, <1>4, UpTo
<1>6. SubSeq(u, 1, Len(u)) \in G
  BY <1>4, <1>5
<1>7. SubSeq(u, 1, Len(u)) = u
  OBVIOUS
<1> QED BY <1>6, <1>7

-----------------------------------------------------------------------------
(***************************************************************************)
(* What Without returns.                                                   *)
(***************************************************************************)
Grown(r, message, types) == IF message.type \in types THEN r ELSE Append(r, message)

(* What is kept of the first messages depends on those alone. *)
LEMMA KeptPrefix ==
  ASSUME NEW M, NEW s \in Seq(M), NEW u \in Seq(M), NEW types, NEW n \in Nat,
         n <= Len(s), n <= Len(u), \A i \in 1..n : s[i] = u[i]
  PROVE  Kept(s, types)[n] = Kept(u, types)[n]
<1> DEFINE S == {i \in Nat : Kept(s, types)[i] = Kept(u, types)[i]}
<1>1. 0 \in S
  BY KeptStep
<1>2. ASSUME NEW i \in 0..(n - 1), i \in S PROVE i + 1 \in S
  <2>1. i + 1 \in 1..Len(s) /\ i + 1 \in 1..Len(u) /\ s[i + 1] = u[i + 1] /\ (i + 1) - 1 = i
    OBVIOUS
  <2>2. Kept(s, types)[i + 1] = IF s[i + 1].type \in types THEN Kept(s, types)[i]
                                ELSE Append(Kept(s, types)[i], s[i + 1])
    BY <2>1, KeptStep
  <2>3. Kept(u, types)[i + 1] = IF u[i + 1].type \in types THEN Kept(u, types)[i]
                                ELSE Append(Kept(u, types)[i], u[i + 1])
    BY <2>1, KeptStep
  <2> QED BY <1>2, <2>1, <2>2, <2>3
<1>3. \A i \in 0..(n - 1) : i \in S => i + 1 \in S
  BY <1>2
<1>4. \A i \in 0..n : i \in S
  <2> HIDE DEF S
  <2> QED BY <1>1, <1>3, UpTo
<1> QED BY <1>4

LEMMA WithoutEmpty ==
  ASSUME NEW types
  PROVE  Without(<<>>, types) = <<>>
<1>1. <<>> \in Seq({}) /\ Len(<<>>) = 0
  OBVIOUS
<1>2. Kept(<<>>, types)[0] = <<>>
  BY <1>1, KeptStep
<1> QED BY <1>1, <1>2, WithoutKept

LEMMA WithoutAppend ==
  ASSUME NEW M, NEW s \in Seq(M), NEW m \in M, NEW types
  PROVE  Without(Append(s, m), types) = Grown(Without(s, types), m, types)
<1> DEFINE u == Append(s, m)
<1>1. /\ u \in Seq(M) /\ Len(s) \in Nat /\ Len(u) = Len(s) + 1 /\ u[Len(u)] = m
      /\ \A i \in 1..Len(s) : s[i] = u[i]
  OBVIOUS
<1> HIDE DEF u
<1>2. Len(u) \in 1..Len(u) /\ Len(u) - 1 = Len(s) /\ Len(s) <= Len(u)
  BY <1>1
<1>3. Kept(u, types)[Len(s)] = Kept(s, types)[Len(s)]
  BY <1>1, <1>2, KeptPrefix
<1>4. Kept(u, types)[Len(u)] = IF m.type \in types THEN Kept(u, types)[Len(s)]
                               ELSE Append(Kept(u, types)[Len(s)], m)
  BY <1>1, <1>2, KeptStep
<1>5. Without(u, types) = Grown(Without(s, types), m, types)
  BY <1>3, <1>4, WithoutKept DEF Grown
<1> QED BY <1>5 DEF u

(* Without takes messages out and adds none. *)
LEMMA WithoutType ==
  ASSUME NEW M, NEW types, NEW s \in Seq(M)
  PROVE  Without(s, types) \in Seq({m \in M : m.type \notin types})
<1> DEFINE R == {m \in M : m.type \notin types}
           G == {u \in Seq(M) : Without(u, types) \in Seq(R)}
<1>1. <<>> \in G
  <2>1. <<>> \in Seq(R) /\ <<>> \in Seq(M)
    OBVIOUS
  <2> QED BY <2>1, WithoutEmpty
<1>2. ASSUME NEW u \in Seq(M), u \in G, NEW m \in M PROVE Append(u, m) \in G
  <2>1. Without(Append(u, m), types) = Grown(Without(u, types), m, types)
    BY WithoutAppend
  <2>2. Without(u, types) \in Seq(R)
    BY <1>2
  <2>3. Grown(Without(u, types), m, types) \in Seq(R)
    BY <2>2 DEF Grown
  <2> QED BY <2>1, <2>3
<1> HIDE DEF G
<1>3. s \in G
  BY <1>1, <1>2, SeqInduction
<1> QED BY <1>3 DEF G

LEMMA WithoutSeq ==
  ASSUME NEW M, NEW types, NEW s \in Seq(M)
  PROVE  Without(s, types) \in Seq(M)
<1> DEFINE R == {m \in M : m.type \notin types}
<1>1. Without(s, types) \in Seq(R)
  BY WithoutType
<1>2. \A q \in Seq(R) : q \in Seq(M)
  <2> SUFFICES ASSUME NEW q \in Seq(R) PROVE q \in Seq(M)
    OBVIOUS
  <2>1. Len(q) \in Nat /\ q = [i \in 1..Len(q) |-> q[i]] /\ \A i \in 1..Len(q) : q[i] \in R
    OBVIOUS
  <2>2. \A i \in 1..Len(q) : q[i] \in M
    BY <2>1
  <2> QED BY <2>1, <2>2
<1> QED BY <1>1, <1>2

LEMMA ConcatAppend ==
  ASSUME NEW M, NEW m \in M
  PROVE  \A x, y \in Seq(M) : Append(x \o y, m) = x \o Append(y, m)
<1> SUFFICES ASSUME NEW x \in Seq(M), NEW y \in Seq(M)
             PROVE  Append(x \o y, m) = x \o Append(y, m)
  OBVIOUS
<1>1. x \o y \in Seq(M) /\ <<m>> \in Seq(M)
  OBVIOUS
<1>2. Append(x \o y, m) = (x \o y) \o <<m>> /\ Append(y, m) = y \o <<m>>
  BY <1>1, AppendIsConcat
<1>3. (x \o y) \o <<m>> = x \o (y \o <<m>>)
  BY <1>1, ConcatAssociative
<1> QED BY <1>2, <1>3

(* Of messages after each other. *)
LEMMA WithoutConcat ==
  ASSUME NEW M, NEW types, NEW s \in Seq(M), NEW u \in Seq(M)
  PROVE  Without(s \o u, types) = Without(s, types) \o Without(u, types)
<1> DEFINE G == {v \in Seq(M) : Without(s \o v, types) = Without(s, types) \o Without(v, types)}
<1>0. Without(s, types) \in Seq(M)
  BY WithoutSeq
<1>1. <<>> \in G
  <2>1. s \o <<>> = s /\ Without(s, types) \o <<>> = Without(s, types) /\ <<>> \in Seq(M)
    BY <1>0
  <2> QED BY <2>1, WithoutEmpty
<1>2. ASSUME NEW v \in Seq(M), v \in G, NEW m \in M PROVE Append(v, m) \in G
  <2>1. s \o Append(v, m) = Append(s \o v, m) /\ s \o v \in Seq(M)
    OBVIOUS
  <2>2. Without(Append(s \o v, m), types) = Grown(Without(s \o v, types), m, types)
    BY <2>1, WithoutAppend
  <2>3. Without(Append(v, m), types) = Grown(Without(v, types), m, types)
    BY WithoutAppend
  <2>4. Without(v, types) \in Seq(M)
    BY WithoutSeq
  <2>5. Without(s \o v, types) = Without(s, types) \o Without(v, types)
    BY <1>2
  <2>6. Grown(Without(s, types) \o Without(v, types), m, types)
          = Without(s, types) \o Grown(Without(v, types), m, types)
    <3>1. Append(Without(s, types) \o Without(v, types), m)
            = Without(s, types) \o Append(Without(v, types), m)
      <4>1. \A x, y \in Seq(M) : Append(x \o y, m) = x \o Append(y, m)
        BY ConcatAppend
      <4> QED BY <1>0, <2>4, <4>1
    <3> QED BY <3>1 DEF Grown
  <2>7. Append(v, m) \in Seq(M)
    OBVIOUS
  <2> QED BY <2>1, <2>2, <2>3, <2>5, <2>6, <2>7
<1> HIDE DEF G
<1>3. u \in G
  BY <1>1, <1>2, SeqInduction
<1> QED BY <1>3 DEF G

LEMMA WithoutFirst ==
  ASSUME NEW M, NEW types
  PROVE  \A x \in M, t \in Seq(M) :
           Without(<<x>> \o t, types) = Grown(<<>>, x, types) \o Without(t, types)
<1> SUFFICES ASSUME NEW x \in M, NEW t \in Seq(M)
             PROVE  Without(<<x>> \o t, types) = Grown(<<>>, x, types) \o Without(t, types)
  OBVIOUS
<1> DEFINE one == <<x>>
           none == <<>>
<1>1. one \in Seq(M) /\ none \in Seq(M) /\ one = Append(none, x)
  OBVIOUS
<1>2. Without(none, types) = none
  BY WithoutEmpty
<1> HIDE DEF one, none
<1>3. Without(one, types) = Grown(none, x, types)
  BY <1>1, <1>2, WithoutAppend
<1>4. Without(one \o t, types) = Grown(none, x, types) \o Without(t, types)
  <2>1. Without(one \o t, types) = Without(one, types) \o Without(t, types)
    BY <1>1, WithoutConcat
  <2> QED BY <1>3, <2>1
<1> QED BY <1>4 DEF one, none

(* A message that is taken is the next one of those that are kept, or none of them. *)
LEMMA WithoutTail ==
  ASSUME NEW M, NEW types, NEW s \in Seq(M), s # <<>>
  PROVE  /\ Head(s).type \in types => Without(Tail(s), types) = Without(s, types)
         /\ Head(s).type \notin types =>
              /\ Without(s, types) # <<>>
              /\ Head(Without(s, types)) = Head(s)
              /\ Without(Tail(s), types) = Tail(Without(s, types))
<1>1. Head(s) \in M /\ Tail(s) \in Seq(M) /\ s = <<Head(s)>> \o Tail(s)
  OBVIOUS
<1>2. \A x \in M, t \in Seq(M) : Without(<<x>> \o t, types) = Grown(<<>>, x, types) \o Without(t, types)
  BY WithoutFirst
<1>3. Without(s, types) = Grown(<<>>, Head(s), types) \o Without(Tail(s), types)
  <2> DEFINE x == Head(s)
             t == Tail(s)
  <2>1. x \in M /\ t \in Seq(M) /\ s = <<x>> \o t
    BY <1>1
  <2> HIDE DEF x, t
  <2>2. Without(s, types) = Grown(<<>>, x, types) \o Without(t, types)
    BY <1>2, <2>1
  <2> QED BY <2>2 DEF x, t
<1> DEFINE rest == Without(Tail(s), types)
<1>4. rest \in Seq(M)
  BY <1>1, WithoutSeq
<1> HIDE DEF rest
<1>5. ASSUME Head(s).type \in types PROVE Without(s, types) = rest
  <2>1. Without(s, types) = <<>> \o rest
    BY <1>3, <1>5 DEF Grown, rest
  <2> QED BY <2>1, <1>4
<1>6. ASSUME Head(s).type \notin types
      PROVE  /\ Without(s, types) # <<>> /\ Head(Without(s, types)) = Head(s)
             /\ rest = Tail(Without(s, types))
  <2>1. Without(s, types) = <<Head(s)>> \o rest
    BY <1>1, <1>3, <1>6 DEF Grown, rest
  <2>2. \A x \in M : <<x>> \o rest # <<>> /\ Head(<<x>> \o rest) = x /\ Tail(<<x>> \o rest) = rest
    BY <1>4
  <2> QED BY <1>1, <2>1, <2>2
<1> QED BY <1>5, <1>6 DEF rest

(* Messages of none of the types are all kept. *)
LEMMA WithoutNone ==
  ASSUME NEW M, NEW types, \A m \in M : m.type \notin types, NEW s \in Seq(M)
  PROVE  Without(s, types) = s
<1> DEFINE G == {u \in Seq(M) : Without(u, types) = u}
<1>1. <<>> \in G
  BY WithoutEmpty
<1>2. ASSUME NEW u \in Seq(M), u \in G, NEW m \in M PROVE Append(u, m) \in G
  <2>1. Without(Append(u, m), types) = Grown(Without(u, types), m, types)
    BY WithoutAppend
  <2>2. Without(u, types) = u /\ Append(u, m) \in Seq(M)
    BY <1>2
  <2> QED BY <2>1, <2>2 DEF Grown
<1> HIDE DEF G
<1>3. s \in G
  BY <1>1, <1>2, SeqInduction
<1> QED BY <1>3 DEF G

(* Messages of the types are all taken out. *)
LEMMA WithoutAll ==
  ASSUME NEW M, NEW types, \A m \in M : m.type \in types, NEW s \in Seq(M)
  PROVE  Without(s, types) = <<>>
<1> DEFINE G == {u \in Seq(M) : Without(u, types) = <<>>}
<1>1. <<>> \in G
  BY WithoutEmpty
<1>2. ASSUME NEW u \in Seq(M), u \in G, NEW m \in M PROVE Append(u, m) \in G
  <2>1. Without(Append(u, m), types) = Grown(Without(u, types), m, types)
    BY WithoutAppend
  <2>2. Without(u, types) = <<>> /\ Append(u, m) \in Seq(M)
    BY <1>2
  <2> QED BY <2>1, <2>2 DEF Grown
<1> HIDE DEF G
<1>3. s \in G
  BY <1>1, <1>2, SeqInduction
<1> QED BY <1>3 DEF G

(* Types can be taken out one after the other. *)
LEMMA WithoutBoth ==
  ASSUME NEW M, NEW types, NEW others, NEW s \in Seq(M)
  PROVE  Without(Without(s, types), others) = Without(s, types \cup others)
<1> DEFINE G == {u \in Seq(M) : Without(Without(u, types), others) = Without(u, types \cup others)}
<1>1. <<>> \in G
  <2>1. <<>> \in Seq(M)
    OBVIOUS
  <2> QED BY <2>1, WithoutEmpty
<1>2. ASSUME NEW u \in Seq(M), u \in G, NEW m \in M PROVE Append(u, m) \in G
  <2>1. /\ Without(Append(u, m), types) = Grown(Without(u, types), m, types)
        /\ Without(Append(u, m), types \cup others) = Grown(Without(u, types \cup others), m, types \cup others)
    BY WithoutAppend
  <2>2. Without(Append(Without(u, types), m), others) = Grown(Without(Without(u, types), others), m, others)
    BY WithoutAppend, WithoutSeq
  <2>3. Without(Without(u, types), others) = Without(u, types \cup others) /\ Append(u, m) \in Seq(M)
    BY <1>2
  <2>4. Without(Without(Append(u, m), types), others) = Without(Append(u, m), types \cup others)
    BY <2>1, <2>2, <2>3 DEF Grown
  <2> QED BY <2>3, <2>4
<1> HIDE DEF G
<1>3. s \in G
  BY <1>1, <1>2, SeqInduction
<1> QED BY <1>3 DEF G

(* A message of another type is in it as before. *)
LEMMA WithoutHolds ==
  ASSUME NEW M, NEW types, NEW s \in Seq(M), NEW w, w.type \notin types
  PROVE  (\E i \in 1..Len(Without(s, types)) : Without(s, types)[i] = w)
           <=> (\E i \in 1..Len(s) : s[i] = w)
<1> DEFINE Holds(u) == \E i \in 1..Len(u) : u[i] = w
           G == {u \in Seq(M) : Holds(Without(u, types)) <=> Holds(u)}
<1>1. <<>> \in G
  <2>1. <<>> \in Seq(M)
    OBVIOUS
  <2> QED BY <2>1, WithoutEmpty
<1>2. ASSUME NEW u \in Seq(M), NEW m \in M
      PROVE  Holds(Append(u, m)) <=> Holds(u) \/ m = w
  <2>1. /\ Len(u) \in Nat /\ Len(Append(u, m)) = Len(u) + 1
        /\ Append(u, m)[Len(u) + 1] = m
        /\ \A i \in 1..Len(u) : Append(u, m)[i] = u[i]
    OBVIOUS
  <2> QED BY <2>1
<1> HIDE DEF Holds
<1>3. ASSUME NEW u \in Seq(M), u \in G, NEW m \in M PROVE Append(u, m) \in G
  <2>1. Without(Append(u, m), types) = Grown(Without(u, types), m, types)
    BY WithoutAppend
  <2>2. Without(u, types) \in Seq(M) /\ Append(u, m) \in Seq(M)
    BY WithoutSeq
  <2>3. Holds(Grown(Without(u, types), m, types)) <=> Holds(Without(u, types)) \/ m = w
    <3>1. CASE m.type \in types
      <4>1. m # w
        BY <3>1
      <4> QED BY <3>1, <4>1 DEF Grown
    <3>2. CASE m.type \notin types
      <4>1. Grown(Without(u, types), m, types) = Append(Without(u, types), m)
        BY <3>2 DEF Grown
      <4> QED BY <1>2, <2>2, <4>1
    <3> QED BY <3>1, <3>2
  <2>4. Holds(Append(u, m)) <=> Holds(u) \/ m = w
    BY <1>2
  <2> QED BY <1>3, <2>1, <2>2, <2>3, <2>4
<1> HIDE DEF G
<1>4. s \in G
  BY <1>1, <1>3, SeqInduction
<1> QED BY <1>4 DEF G, Holds

-----------------------------------------------------------------------------
(***************************************************************************)
(* What Filtered returns, for a network of the nodes W with messages of M. *)
(***************************************************************************)
LEMMA FilteredEntry ==
  ASSUME NEW W, NEW M, NEW types, NEW net \in [W -> [W -> Seq(M)]]
  PROVE  /\ Filtered(net, types) = [m \in W |-> [n \in W |-> Without(net[m][n], types)]]
         /\ \A m, n \in W : Filtered(net, types)[m][n] = Without(net[m][n], types)
BY DEF Filtered

LEMMA FilteredKept ==
  ASSUME NEW W, NEW M, NEW types, NEW net \in [W -> [W -> Seq(M)]]
  PROVE  /\ Filtered(net, types) \in [W -> [W -> Seq(M)]]
         /\ \A x, y \in W : Filtered(net, types)[x][y] = Without(net[x][y], types)
<1>1. \A m, n \in W : net[m][n] \in Seq(M)
  OBVIOUS
<1>2. \A m, n \in W : Without(net[m][n], types) \in Seq(M)
  BY <1>1, WithoutSeq
<1>3. Filtered(net, types) = [m \in W |-> [n \in W |-> Without(net[m][n], types)]]
  BY FilteredEntry
<1> QED BY <1>2, <1>3

LEMMA FilteredType ==
  ASSUME NEW W, NEW M, NEW types, NEW net \in [W -> [W -> Seq(M)]]
  PROVE  Filtered(net, types) \in [W -> [W -> Seq({m \in M : m.type \notin types})]]
<1>1. \A m, n \in W : net[m][n] \in Seq(M)
  OBVIOUS
<1>2. \A m, n \in W : Without(net[m][n], types) \in Seq({x \in M : x.type \notin types})
  BY <1>1, WithoutType
<1>3. Filtered(net, types) = [m \in W |-> [n \in W |-> Without(net[m][n], types)]]
  BY FilteredEntry
<1> QED BY <1>2, <1>3

(* The networks of the nodes W, and what a node sends. *)
NetworksOf(W, M) == [W -> [W -> Seq(M)]]
SendingsOf(W, M) == [W -> Seq(M)]

(* A message that is taken. *)
FirstTaken(net, m, n) == [net EXCEPT ![m][n] = Tail(@)]

LEMMA FilteredTaken ==
  ASSUME NEW W, NEW M, NEW types, NEW net \in NetworksOf(W, M),
         NEW m \in W, NEW n \in W, net[m][n] # <<>>
  PROVE  /\ FirstTaken(net, m, n) \in NetworksOf(W, M)
         /\ Head(net[m][n]).type \in types =>
              Filtered(FirstTaken(net, m, n), types) = Filtered(net, types)
         /\ Head(net[m][n]).type \notin types =>
              /\ Filtered(net, types)[m][n] # <<>>
              /\ Head(Filtered(net, types)[m][n]) = Head(net[m][n])
              /\ Filtered(FirstTaken(net, m, n), types) = FirstTaken(Filtered(net, types), m, n)
<1> DEFINE rest == [net EXCEPT ![m][n] = Tail(@)]
           kept == Filtered(net, types)
           s == net[m][n]
<1>0. net \in [W -> [W -> Seq(M)]]
  BY DEF NetworksOf
<1>1. s \in Seq(M) /\ s # <<>> /\ Tail(s) \in Seq(M)
  BY <1>0
<1>2. /\ rest \in [W -> [W -> Seq(M)]]
      /\ \A x, y \in W : rest[x][y] = IF x = m /\ y = n THEN Tail(s) ELSE net[x][y]
  BY <1>0, <1>1
<1>3. kept \in [W -> [W -> Seq(M)]] /\ \A x, y \in W : kept[x][y] = Without(net[x][y], types)
  BY <1>0, FilteredKept
<1> HIDE DEF kept, rest
<1>4. ASSUME Head(s).type \in types PROVE Filtered(rest, types) = kept
  <2>1. Without(Tail(s), types) = Without(s, types)
    BY <1>1, <1>4, WithoutTail
  <2>2. \A x, y \in W : Without(rest[x][y], types) = kept[x][y]
    <3> SUFFICES ASSUME NEW x \in W, NEW y \in W PROVE Without(rest[x][y], types) = kept[x][y]
      OBVIOUS
    <3>1. CASE x = m /\ y = n
      BY <1>2, <1>3, <2>1, <3>1
    <3>2. CASE ~(x = m /\ y = n)
      BY <1>2, <1>3, <3>2
    <3> QED BY <3>1, <3>2
  <2>3. rest \in [W -> [W -> Seq(M)]] /\ kept \in [W -> [W -> Seq(M)]]
    BY <1>2, <1>3
  <2>5. Filtered(rest, types) = [x \in W |-> [y \in W |-> Without(rest[x][y], types)]]
    BY <2>3 DEF Filtered
  <2>6. kept = [x \in W |-> [y \in W |-> kept[x][y]]]
    BY <2>3
  <2> QED BY <2>2, <2>5, <2>6
<1>5. ASSUME Head(s).type \notin types
      PROVE  /\ kept[m][n] # <<>> /\ Head(kept[m][n]) = Head(s)
             /\ Filtered(rest, types) = [kept EXCEPT ![m][n] = Tail(@)]
  <2>1. /\ Without(s, types) # <<>> /\ Head(Without(s, types)) = Head(s)
        /\ Without(Tail(s), types) = Tail(Without(s, types))
    BY <1>1, <1>5, WithoutTail
  <2>2. kept[m][n] = Without(s, types)
    BY <1>3
  <2> DEFINE F == [kept EXCEPT ![m][n] = Tail(@)]
  <2>3. Tail(kept[m][n]) \in Seq(M)
    BY <1>3, <2>1, <2>2
  <2>4. /\ F \in [W -> [W -> Seq(M)]]
        /\ \A x, y \in W : F[x][y] = IF x = m /\ y = n THEN Tail(kept[m][n]) ELSE kept[x][y]
    BY <1>3, <2>3
  <2> HIDE DEF F
  <2>5. \A x, y \in W : Without(rest[x][y], types) = F[x][y]
    <3> SUFFICES ASSUME NEW x \in W, NEW y \in W PROVE Without(rest[x][y], types) = F[x][y]
      OBVIOUS
    <3>1. CASE x = m /\ y = n
      BY <1>2, <2>1, <2>2, <2>4, <3>1
    <3>2. CASE ~(x = m /\ y = n)
      <4>1. rest[x][y] = net[x][y] /\ F[x][y] = kept[x][y]
        BY <1>2, <2>4, <3>2
      <4>2. kept[x][y] = Without(net[x][y], types)
        BY <1>3
      <4> QED BY <4>1, <4>2
    <3> QED BY <3>1, <3>2
  <2>6. Filtered(rest, types) = F
    <3>1. rest \in [W -> [W -> Seq(M)]] /\ F \in [W -> [W -> Seq(M)]]
      BY <1>2, <2>4
    <3>5. Filtered(rest, types) = [x \in W |-> [y \in W |-> Without(rest[x][y], types)]]
      BY <3>1 DEF Filtered
    <3>6. F = [x \in W |-> [y \in W |-> F[x][y]]]
      BY <3>1
    <3> QED BY <2>5, <3>5, <3>6
  <2> QED BY <2>1, <2>2, <2>6 DEF F
<1>6. FirstTaken(net, m, n) = rest /\ FirstTaken(kept, m, n) = [kept EXCEPT ![m][n] = Tail(@)]
  BY DEF FirstTaken, rest
<1> QED BY <1>2, <1>4, <1>5, <1>6 DEF kept, NetworksOf

(* Messages that n sends, more[f] to each f, of which shown[f] are kept. *)
MoreSent(W, net, n, more) == [net EXCEPT ![n] = [f \in W |-> @[f] \o more[f]]]

LEMMA FilteredSent ==
  ASSUME NEW W, NEW M, NEW types, NEW net \in NetworksOf(W, M),
         NEW n \in W, NEW more \in SendingsOf(W, M),
         NEW shown, \A f \in W : Without(more[f], types) = shown[f]
  PROVE  /\ MoreSent(W, net, n, more) \in NetworksOf(W, M)
         /\ Filtered(MoreSent(W, net, n, more), types) = MoreSent(W, Filtered(net, types), n, shown)
<1> DEFINE after == [net EXCEPT ![n] = [f \in W |-> @[f] \o more[f]]]
           kept == Filtered(net, types)
<1>0. net \in [W -> [W -> Seq(M)]] /\ more \in [W -> Seq(M)]
  BY DEF NetworksOf, SendingsOf
<1>1. \A f \in W : net[n][f] \in Seq(M) /\ more[f] \in Seq(M) /\ net[n][f] \o more[f] \in Seq(M)
  BY <1>0
<1>2. /\ after \in [W -> [W -> Seq(M)]]
      /\ \A x, y \in W : after[x][y] = IF x = n THEN net[n][y] \o more[y] ELSE net[x][y]
  BY <1>0, <1>1
<1>3. kept \in [W -> [W -> Seq(M)]] /\ \A x, y \in W : kept[x][y] = Without(net[x][y], types)
  BY <1>0, FilteredKept
<1>4. \A f \in W : Without(more[f], types) \in Seq(M)
  BY <1>1, WithoutSeq
<1>5. \A f \in W : Without(net[n][f] \o more[f], types) = Without(net[n][f], types) \o Without(more[f], types)
  BY <1>1, WithoutConcat
<1> HIDE DEF kept, after
<1> DEFINE F == [kept EXCEPT ![n] = [f \in W |-> @[f] \o Without(more[f], types)]]
<1>6. \A f \in W : kept[n][f] \o Without(more[f], types) \in Seq(M)
  BY <1>3, <1>4
<1>7. /\ F \in [W -> [W -> Seq(M)]]
      /\ \A x, y \in W : F[x][y] = IF x = n THEN kept[n][y] \o Without(more[y], types) ELSE kept[x][y]
  BY <1>3, <1>6
<1> HIDE DEF F
<1>8. \A x, y \in W : Without(after[x][y], types) = F[x][y]
  <2> SUFFICES ASSUME NEW x \in W, NEW y \in W PROVE Without(after[x][y], types) = F[x][y]
    OBVIOUS
  <2>1. CASE x = n
    <3>1. after[x][y] = net[n][y] \o more[y] /\ F[x][y] = kept[n][y] \o Without(more[y], types)
      BY <1>2, <1>7, <2>1
    <3>2. kept[n][y] = Without(net[n][y], types)
      BY <1>3
    <3>3. Without(net[n][y] \o more[y], types) = Without(net[n][y], types) \o Without(more[y], types)
      BY <1>5
    <3> QED BY <3>1, <3>2, <3>3
  <2>2. CASE x # n
    BY <1>2, <1>3, <1>7, <2>2
  <2> QED BY <2>1, <2>2
<1>9. Filtered(after, types) = F
  <2>1. after \in [W -> [W -> Seq(M)]] /\ F \in [W -> [W -> Seq(M)]]
    BY <1>2, <1>7
  <2>5. Filtered(after, types) = [x \in W |-> [y \in W |-> Without(after[x][y], types)]]
    BY <2>1 DEF Filtered
  <2>6. F = [x \in W |-> [y \in W |-> F[x][y]]]
    BY <2>1
  <2> QED BY <1>8, <2>5, <2>6
<1>10. F = [kept EXCEPT ![n] = [f \in W |-> @[f] \o shown[f]]]
  BY DEF F
<1> QED BY <1>2, <1>9, <1>10 DEF kept, after, MoreSent, NetworksOf

-----------------------------------------------------------------------------
(***************************************************************************)
(* Sequences of sequences after each other.                                *)
(***************************************************************************)
(* What FlattenSeq of the community modules makes of s. *)
Flattened(s) ==
  IF Len(s) = 0 THEN s
  ELSE LET flatten[i \in 1..Len(s)] == IF i = 1 THEN s[i] ELSE flatten[i - 1] \o s[i]
       IN flatten[Len(s)]

(* The function by which it is defined, for the first n sequences of s. *)
IsFlat(f, n, s) == f = [i \in 1..n |-> IF i = 1 THEN s[i] ELSE f[i - 1] \o s[i]]

(* There is one. *)
LEMMA FlatExists ==
  ASSUME NEW s, NEW n \in Nat
  PROVE  \E f : IsFlat(f, n, s)
<1> DEFINE S == {i \in Nat : \E f : IsFlat(f, i, s)}
<1>1. 0 \in S
  <2> DEFINE f == [i \in 1..0 |-> <<>>]
  <2>1. IsFlat(f, 0, s)
    BY DEF IsFlat
  <2> QED BY <2>1
<1>2. ASSUME NEW k \in 0..(n - 1), k \in S PROVE k + 1 \in S
  <2>1. PICK f : IsFlat(f, k, s)
    BY <1>2
  <2> DEFINE last == IF k = 0 THEN s[1] ELSE f[k] \o s[k + 1]
             g == [i \in 1..(k + 1) |-> IF i = k + 1 THEN last ELSE f[i]]
             h(i) == IF i = 1 THEN s[i] ELSE g[i - 1] \o s[i]
  <2>2. ASSUME NEW i \in 1..(k + 1) PROVE g[i] = h(i)
    <3>1. CASE i = k + 1
      <4>1. (i = 1 <=> k = 0) /\ i - 1 = k /\ (k # 0 => k \in 1..(k + 1) /\ k # k + 1)
        BY <3>1
      <4>2. g[i] = last /\ (k # 0 => g[i - 1] = f[k])
        BY <3>1, <4>1
      <4> HIDE DEF g
      <4> QED BY <3>1, <4>1, <4>2
    <3>2. CASE i # k + 1
      <4>1. i \in 1..k /\ (i # 1 => i - 1 \in 1..(k + 1) /\ i - 1 # k + 1)
        BY <3>2
      <4>2. g[i] = f[i] /\ (i # 1 => g[i - 1] = f[i - 1])
        BY <3>2, <4>1
      <4>3. f[i] = IF i = 1 THEN s[i] ELSE f[i - 1] \o s[i]
        BY <2>1, <4>1 DEF IsFlat
      <4> HIDE DEF g
      <4> QED BY <4>2, <4>3
    <3> QED BY <3>1, <3>2
  <2>3. g = [i \in 1..(k + 1) |-> h(i)]
    <3> HIDE DEF h
    <3> QED BY <2>2
  <2>4. IsFlat(g, k + 1, s)
    BY <2>3 DEF IsFlat
  <2> QED BY <2>4
<1>3. \A i \in 0..(n - 1) : i \in S => i + 1 \in S
  BY <1>2
<1>4. \A i \in 0..n : i \in S
  <2> HIDE DEF S
  <2> QED BY <1>1, <1>3, UpTo
<1> QED BY <1>4

(* What is flattened holds the same things. *)
LEMMA FlattenType ==
  ASSUME NEW M, NEW s \in Seq(Seq(M))
  PROVE  Flattened(s) \in Seq(M)
<1> DEFINE f == CHOOSE g : IsFlat(g, Len(s), s)
           S == {i \in Nat : i = 0 \/ f[i] \in Seq(M)}
<1>1. Len(s) \in Nat /\ IsFlat(f, Len(s), s)
  <2>1. Len(s) \in Nat
    OBVIOUS
  <2> QED BY <2>1, FlatExists
<1>2. Flattened(s) = IF Len(s) = 0 THEN s ELSE f[Len(s)]
  BY DEF Flattened, IsFlat
<1> HIDE DEF f
<1>3. 0 \in S
  OBVIOUS
<1>4. ASSUME NEW i \in 0..(Len(s) - 1), i \in S PROVE i + 1 \in S
  <2>1. i + 1 \in 1..Len(s) /\ s[i + 1] \in Seq(M) /\ (i + 1) - 1 = i
    OBVIOUS
  <2>2. f[i + 1] = IF i + 1 = 1 THEN s[i + 1] ELSE f[i] \o s[i + 1]
    BY <1>1, <2>1 DEF IsFlat
  <2>3. i # 0 => f[i] \in Seq(M)
    BY <1>4
  <2>4. f[i + 1] \in Seq(M)
    BY <2>1, <2>2, <2>3
  <2> QED BY <2>1, <2>4
<1>5. \A i \in 0..Len(s) : i \in S
  <2> HIDE DEF S
  <2> QED BY <1>1, <1>3, <1>4, UpTo
<1>6. Len(s) \in 0..Len(s)
  OBVIOUS
<1>7. Len(s) # 0 => f[Len(s)] \in Seq(M)
  BY <1>5, <1>6
<1>8. Len(s) = 0 => s \in Seq(M)
  OBVIOUS
<1> QED BY <1>2, <1>7, <1>8

(* A single sequence is flattened to itself. *)
LEMMA FlattenOne ==
  ASSUME NEW s, s = [i \in 1..1 |-> s[1]], NEW u, s[1] = u
  PROVE  Flattened(s) = u
<1> DEFINE f == CHOOSE g : IsFlat(g, 1, s)
<1>1. IsFlat(f, 1, s)
  BY FlatExists
<1>2. Len(s) = 1
  OBVIOUS
<1>3. Flattened(s) = f[1]
  BY <1>2 DEF Flattened, IsFlat
<1> HIDE DEF f
<1> QED BY <1>1, <1>3 DEF IsFlat

=============================================================================
