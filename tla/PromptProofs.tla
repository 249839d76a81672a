----------------------------- MODULE PromptProofs -----------------------------
(***************************************************************************)
(* Every prompt is well formed and what was omitted stays omitted, for any *)
(* results, any number of messages and calls, and any KeepRecent.          *)
(*                                                                         *)
(* Session and turn together are a log in which results follow their call  *)
(* in the order of its calls, some of them missing at the end.  A prompt   *)
(* begins anywhere in it: the orphans are a prefix, what is missing of a   *)
(* call is a suffix of its calls, and the order of the rest is kept.       *)
(***************************************************************************)
EXTENDS PromptGovernance, FiniteSetTheorems, WellFoundedInduction, TLAPS

-----------------------------------------------------------------------------
(* The log                                                                  *)

Sizes == {"small", "large", "huge", "cut"}
MessagesOf(sizes) == [role : {"user", "assistant", "tool"}, calls : Seq(Nat), id : Nat,
                      compactable : BOOLEAN, size : sizes]
Message == MessagesOf(Sizes)
Log == messages \o turn

\* The result at p is that of the k-th call of the message k before it.
Answers(s, p, k) ==
    /\ k <= Len(s[p - k].calls) /\ s[p].id = s[p - k].calls[k]
    /\ \A q \in p - k + 1 .. p : s[q].role = "tool"

Paired(s) ==
    /\ \A p \in DOMAIN s :
          /\ s[p].role = "tool" => s[p].calls = <<>> /\ \E k \in 1 .. p - 1 : Answers(s, p, k)
          /\ s[p].role = "tool" <=> s[p].id # 0
    /\ \A p, q \in DOMAIN s : \A k \in DOMAIN s[p].calls, l \in DOMAIN s[q].calls :
          s[p].calls[k] = s[q].calls[l] => p = q /\ k = l

CallsUpTo(s, n) == \A p \in DOMAIN s : \A k \in DOMAIN s[p].calls : s[p].calls[k] \in 1 .. n

\* How many results that may be omitted come after p.
After(s, p) == {q \in Compactable(s) : q > p}
Old(s, p) == p \in Compactable(s) /\ Cardinality(After(s, p)) >= KeepRecent

WellFormed(s) ==
    \A i \in DOMAIN s :
        LET n == Len(s[i].calls)
            results == SubSeq(s, i + 1, i + n)
        IN  /\ n > 0 => /\ i + n <= Len(s)
                        /\ {results[k].id : k \in 1 .. n} = ToSet(s[i].calls)
                        /\ \A k \in 1 .. n : results[k].role = "tool"
            /\ s[i].role = "tool" => \E j \in 1 .. i - 1 :
                  s[i].id \in ToSet(s[j].calls) /\ i <= j + Len(s[j].calls)

TurnOK ==
    /\ messages \in Seq(Message) /\ turn \in Seq(Message) /\ ids \in Nat
    /\ Paired(Log) /\ CallsUpTo(Log, ids) /\ lastConsolidated \in 0 .. Len(messages)
    /\ phase \in {"idle", "asking", "tools", "saving"}
    /\ IF phase = "idle" THEN turn = <<>>
       ELSE turn # <<>> /\ turn[1] = User /\ from \in 1 .. Len(messages) + 1

\* What the last prompt omitted is old in the log, and omitted wherever it is in the prompt.
OmittedIsOld ==
    \A i \in DOMAIN prompt : prompt[i].size = "omitted" =>
        /\ \E p \in DOMAIN Log : Log[p].id = prompt[i].id /\ Old(Log, p)
        /\ \A k \in DOMAIN prompt : prompt[k].id = prompt[i].id => prompt[k].size = "omitted"

PromptInv ==
    /\ TurnOK
    /\ prompt \in Seq(MessagesOf(Sizes \cup {"omitted"})) /\ WellFormed(prompt)

-----------------------------------------------------------------------------
(* Induction, and sequences made of blocks                                  *)

LEMMA Induction ==
    ASSUME NEW T, 0 \in T, \A n \in Nat : n \in T => n + 1 \in T
    PROVE  Nat \subseteq T
<1>. SUFFICES ASSUME Nat \ T # {} PROVE FALSE
  OBVIOUS
<1>1. PICK x \in Nat \ T : \A y \in Nat \ T : <<y, x>> \notin OpToRel(<, Nat)
  BY WFMin, NatLessThanWellFounded, Zenon
<1>2. \A y \in Nat \ T : ~(y < x)
  BY <1>1, Zenon DEF OpToRel
<1>3. x - 1 \in Nat /\ x - 1 < x
  OBVIOUS
<1>. QED BY <1>2, <1>3

\* What holds of no number after one of which it does not hold, it holds of up to one.
LEMMA UpToOne ==
    ASSUME NEW n \in Nat, NEW A \in SUBSET (1 .. n), \A j \in A : \A i \in 1 .. j : i \in A
    PROVE  \E r \in 0 .. n : A = 1 .. r
<1>. DEFINE T == {r \in Nat : 1 .. r \subseteq A}
<1>1. 0 \in T
  OBVIOUS
<1>2. n + 1 \notin T
  OBVIOUS
<1>3. PICK r \in Nat : r \in T /\ r + 1 \notin T
  <2>1. ASSUME \A r \in Nat : r \in T => r + 1 \in T PROVE FALSE
    <3>. HIDE DEF T
    <3>1. Nat \subseteq T
      BY <1>1, <2>1, Induction
    <3>. QED BY <1>2, <3>1
  <2>. QED BY <2>1
<1>4. A = 1 .. r
  <2>1. 1 .. r \subseteq A
    BY <1>3
  <2>2. r + 1 \notin A
    <3>1. ASSUME r + 1 \in A PROVE 1 .. r + 1 \subseteq A
      BY <3>1
    <3>. QED BY <1>3, <3>1
  <2>3. ASSUME NEW j \in A, j > r PROVE FALSE
    <3>1. r + 1 \in 1 .. j
      BY <2>3
    <3>. QED BY <2>2, <3>1
  <2>4. A \subseteq 1 .. r
    <3>. SUFFICES ASSUME NEW j \in A PROVE j \in 1 .. r
      OBVIOUS
    <3>. QED BY <2>3
  <2>. QED BY <2>1, <2>4
<1>5. r <= n
  <2>1. r > n => n + 1 \in 1 .. r
    OBVIOUS
  <2>. QED BY <1>4, <2>1
<1>. QED BY <1>4, <1>5, SMTT(30)

\* The recursive function of FlattenSeq, along b, which has n elements.
IsFlatten(b, n, f) == f = [i \in 1 .. n |-> IF i = 1 THEN b[i] ELSE f[i - 1] \o b[i]]
Flat(b, n) == CHOOSE f : IsFlatten(b, n, f)

LEMMA FlattenExists ==
    ASSUME NEW b PROVE \A n \in Nat : \E f : IsFlatten(b, n, f)
<1>. DEFINE T == {n \in Nat : \E f : IsFlatten(b, n, f)}
<1>1. 0 \in T
  <2>1. IsFlatten(b, 0, [i \in 1 .. 0 |-> 0])
    BY DEF IsFlatten
  <2>. QED BY <2>1
<1>2. ASSUME NEW n \in Nat, n \in T PROVE n + 1 \in T
  <2>1. PICK f : IsFlatten(b, n, f)
    BY <1>2
  <2>. DEFINE g == [i \in 1 .. n + 1 |-> IF i = n + 1 THEN IF n = 0 THEN b[1] ELSE f[n] \o b[n + 1]
                                         ELSE f[i]]
  <2>2. ASSUME NEW i \in 1 .. n + 1 PROVE g[i] = IF i = 1 THEN b[i] ELSE g[i - 1] \o b[i]
    <3>1. CASE i = n + 1
      BY <3>1
    <3>2. CASE i # n + 1
      <4>1. i \in 1 .. n /\ g[i] = f[i] /\ (i # 1 => i - 1 \in 1 .. n /\ g[i - 1] = f[i - 1])
        BY <3>2
      <4>2. f[i] = IF i = 1 THEN b[i] ELSE f[i - 1] \o b[i]
        BY <2>1, <4>1, Zenon DEF IsFlatten
      <4>. QED BY <4>1, <4>2
    <3>. QED BY <3>1, <3>2
  <2>3. IsFlatten(b, n + 1, g)
    BY <2>2, Zenon DEF IsFlatten
  <2>. QED BY <2>3
<1>3. Nat \subseteq T
  <2>. HIDE DEF T
  <2>. QED BY <1>1, <1>2, Induction
<1>. QED BY <1>3

\* R is b[1] .. b[n] in a row, b[i] after the first start[i] of it.
InBlocks(S, b, n, R, start) ==
    /\ R \in Seq(S) /\ start \in [1 .. n + 1 -> Nat] /\ start[1] = 0 /\ start[n + 1] = Len(R)
    /\ \A i \in 1 .. n : /\ b[i] \in Seq(S) /\ start[i + 1] = start[i] + Len(b[i])
                         /\ \A k \in 1 .. Len(b[i]) : R[start[i] + k] = b[i][k]
    /\ \A i, j \in 1 .. n + 1 : i <= j => start[i] <= start[j]
    /\ \A q \in 1 .. Len(R) : \E i \in 1 .. n : \E k \in 1 .. Len(b[i]) : q = start[i] + k

LEMMA BlocksGrow ==
    ASSUME NEW S, NEW b, NEW n \in Nat, NEW R, NEW start, InBlocks(S, b, n, R, start),
           b[n + 1] \in Seq(S)
    PROVE  \E next : InBlocks(S, b, n + 1, R \o b[n + 1], next)
<1>. PICK c \in Seq(S) : c = b[n + 1]
  OBVIOUS
<1>. PICK Q : Q = R \o c
  OBVIOUS
<1>. DEFINE next == [i \in 1 .. (n + 1) + 1 |-> IF i = n + 2 THEN Len(R) + Len(c) ELSE start[i]]
<1>1. /\ R \in Seq(S) /\ start \in [1 .. n + 1 -> Nat] /\ start[1] = 0 /\ start[n + 1] = Len(R)
      /\ \A i, j \in 1 .. n + 1 : i <= j => start[i] <= start[j]
      /\ \A i \in 1 .. n + 1 : start[i] <= Len(R)
  BY SMTT(30) DEF InBlocks
<1>2. /\ Q \in Seq(S) /\ Len(Q) = Len(R) + Len(c) /\ Len(R) \in Nat /\ Len(c) \in Nat
      /\ \A i \in 1 .. Len(R) : Q[i] = R[i]
      /\ \A i \in 1 .. Len(c) : Q[Len(R) + i] = c[i]
  BY <1>1
<1>3. next \in [1 .. (n + 1) + 1 -> Nat] /\ next[1] = 0 /\ next[(n + 1) + 1] = Len(Q)
  BY <1>1, <1>2
<1>4. ASSUME NEW i \in 1 .. n + 1
      PROVE  /\ b[i] \in Seq(S) /\ next[i + 1] = next[i] + Len(b[i])
             /\ \A k \in 1 .. Len(b[i]) : Q[next[i] + k] = b[i][k]
  <2>1. CASE i = n + 1
    <3>1. next[i] = Len(R) /\ next[i + 1] = Len(R) + Len(c) /\ b[i] = c
      BY <1>1, <2>1
    <3>. QED BY <1>2, <3>1
  <2>2. CASE i # n + 1
    <3>. i \in 1 .. n
      BY <2>2
    <3>1. /\ b[i] \in Seq(S) /\ start[i + 1] = start[i] + Len(b[i])
          /\ \A k \in 1 .. Len(b[i]) : R[start[i] + k] = b[i][k]
      BY <2>2 DEF InBlocks
    <3>2. /\ next[i] = start[i] /\ next[i + 1] = start[i + 1]
          /\ start[i] \in Nat /\ start[i + 1] <= Len(R) /\ Len(b[i]) \in Nat
      BY <1>1, <2>2, <3>1
    <3>3. ASSUME NEW k \in 1 .. Len(b[i]) PROVE Q[next[i] + k] = b[i][k]
      <4>1. start[i] + k \in 1 .. Len(R)
        <5>1. PICK u, l, z \in Nat : u = start[i] /\ l = Len(b[i]) /\ z = Len(R)
          BY <1>2, <3>2
        <5>2. k \in 1 .. l /\ u + l <= z
          BY <3>1, <3>2, <5>1
        <5>3. u + k \in 1 .. z
          BY <5>2
        <5>. QED BY <5>1, <5>3
      <4>. QED BY <1>2, <3>1, <3>2, <4>1
    <3>. QED BY <3>1, <3>2, <3>3
  <2>. QED BY <2>1, <2>2
<1>5. ASSUME NEW i \in 1 .. (n + 1) + 1, NEW j \in 1 .. (n + 1) + 1, i <= j
      PROVE  next[i] <= next[j]
  <2>1. CASE j = n + 2
    BY <1>1, <1>2, <2>1
  <2>2. CASE j # n + 2
    BY <1>1, <1>5, <2>2
  <2>. QED BY <2>1, <2>2
<1>6. ASSUME NEW q \in 1 .. Len(Q)
      PROVE  \E i \in 1 .. n + 1 : \E k \in 1 .. Len(b[i]) : q = next[i] + k
  <2>1. CASE q <= Len(R)
    <3>1. PICK i \in 1 .. n : \E k \in 1 .. Len(b[i]) : q = start[i] + k
      BY <1>2, <2>1 DEF InBlocks
    <3>2. i \in 1 .. n + 1 /\ next[i] = start[i]
      OBVIOUS
    <3>. QED BY <3>1, <3>2
  <2>2. CASE q > Len(R)
    <3>1. next[n + 1] = Len(R) /\ n + 1 \in 1 .. n + 1 /\ b[n + 1] = c
      BY <1>1
    <3>2. PICK z, l \in Nat : z = Len(R) /\ l = Len(c)
      BY <1>2
    <3>3. q \in z + 1 .. z + l
      BY <1>2, <2>2, <3>2
    <3>4. q - z \in 1 .. l /\ q = z + (q - z)
      BY <3>3
    <3>. HIDE DEF next
    <3>. QED BY <3>1, <3>2, <3>4
  <2>3. q <= Len(R) \/ q > Len(R)
    BY <1>2
  <2>. QED BY <2>1, <2>2, <2>3
<1>. HIDE DEF next
<1>7. InBlocks(S, b, n + 1, Q, next)
  BY <1>2, <1>3, <1>4, <1>5, <1>6 DEF InBlocks
<1>. QED BY <1>7

LEMMA Blocks ==
    ASSUME NEW S, NEW n \in Nat, NEW b \in [1 .. n -> Seq(S)]
    PROVE  \E start : InBlocks(S, b, n, FlattenSeq(b), start)
<1>. DEFINE F == Flat(b, n)
            At(m) == IF m = 0 THEN <<>> ELSE F[m]
            T == {m \in Nat : m <= n => \E start : InBlocks(S, b, m, At(m), start)}
<1>1. IsFlatten(b, n, F)
  BY FlattenExists DEF Flat
<1>2. Len(b) = n /\ (n = 0 => b = <<>>)
  OBVIOUS
<1>3. FlattenSeq(b) = At(n)
  BY <1>2 DEF FlattenSeq, Flat, IsFlatten
<1>. HIDE DEF F
<1>4. 0 \in T
  <2>1. InBlocks(S, b, 0, <<>>, [i \in 1 .. 0 + 1 |-> 0])
    BY DEF InBlocks
  <2>. QED BY <2>1
<1>5. ASSUME NEW m \in Nat, m \in T PROVE m + 1 \in T
  <2>. SUFFICES ASSUME m + 1 <= n PROVE \E start : InBlocks(S, b, m + 1, At(m + 1), start)
    OBVIOUS
  <2>1. PICK start : InBlocks(S, b, m, At(m), start)
    BY <1>5
  <2>2. m + 1 \in 1 .. n /\ b[m + 1] \in Seq(S)
    OBVIOUS
  <2>3. At(m + 1) = At(m) \o b[m + 1]
    <3>1. F[m + 1] = IF m + 1 = 1 THEN b[m + 1] ELSE F[m + 1 - 1] \o b[m + 1]
      <4>1. PICK G : G = F
        OBVIOUS
      <4>2. G = [i \in 1 .. n |-> IF i = 1 THEN b[i] ELSE G[i - 1] \o b[i]]
        BY <1>1, <4>1 DEF IsFlatten
      <4>3. ASSUME NEW i \in 1 .. n PROVE G[i] = IF i = 1 THEN b[i] ELSE G[i - 1] \o b[i]
        BY <4>2, Zenon
      <4>4. G[m + 1] = IF m + 1 = 1 THEN b[m + 1] ELSE G[m + 1 - 1] \o b[m + 1]
        BY <2>2, <4>3
      <4>. QED BY <4>1, <4>4
    <3>2. m = 0 => <<>> \o b[m + 1] = b[m + 1]
      BY <2>2
    <3>3. m + 1 - 1 = m /\ (m + 1 = 1 <=> m = 0) /\ m + 1 # 0
      OBVIOUS
    <3>. QED BY <3>1, <3>2, <3>3
  <2>. HIDE DEF At
  <2>. QED BY <2>1, <2>2, <2>3, BlocksGrow
<1>6. Nat \subseteq T
  <2>. HIDE DEF T
  <2>. QED BY <1>4, <1>5, Induction
<1>. QED BY <1>3, <1>6

\* Choosing all but the first d.
LEMMA ChosenSuffix ==
    ASSUME NEW S, NEW s \in Seq(S), NEW K, NEW d \in 0 .. Len(s),
           \A i \in 1 .. Len(s) : i \in K <=> i > d
    PROVE  Chosen(s, K) = SubSeq(s, d + 1, Len(s))
<1>. PICK n \in Nat : n = Len(s)
  OBVIOUS
<1>. DEFINE b == [i \in DOMAIN s |-> IF i \in K THEN <<s[i]>> ELSE <<>>]
            R == FlattenSeq(b)
<1>1. DOMAIN s = 1 .. n /\ b \in [1 .. n -> Seq(S)]
  OBVIOUS
<1>. Chosen(s, K) = R
  BY DEF Chosen
<1>2. \A i \in 1 .. n : b[i] = IF i > d THEN <<s[i]>> ELSE <<>>
  BY <1>1
<1>. HIDE DEF b
<1>. HIDE DEF R
<1>3. PICK start : InBlocks(S, b, n, R, start)
  BY <1>1, Blocks DEF R
<1>. DEFINE T == {i \in Nat : i <= n => start[i + 1] = IF i <= d THEN 0 ELSE i - d}
<1>4. Nat \subseteq T
  <2>1. 0 \in T
    BY <1>3 DEF InBlocks
  <2>2. ASSUME NEW i \in Nat, i \in T PROVE i + 1 \in T
    <3>. SUFFICES ASSUME i + 1 <= n
                  PROVE  start[i + 1 + 1] = IF i + 1 <= d THEN 0 ELSE i + 1 - d
      OBVIOUS
    <3>1. i + 1 \in 1 .. n /\ start[i + 1 + 1] = start[i + 1] + Len(b[i + 1])
      BY <1>3 DEF InBlocks
    <3>2. Len(b[i + 1]) = IF i + 1 > d THEN 1 ELSE 0
      <4>1. b[i + 1] = IF i + 1 > d THEN <<s[i + 1]>> ELSE <<>>
        BY <1>2, <3>1
      <4>2. CASE i + 1 > d
        BY <4>1, <4>2
      <4>3. CASE ~(i + 1 > d)
        BY <4>1, <4>3
      <4>. QED BY <4>2, <4>3
    <3>3. start[i + 1] = IF i <= d THEN 0 ELSE i - d
      BY <2>2
    <3>. QED BY <3>1, <3>2, <3>3
  <2>. HIDE DEF T
  <2>. QED BY <2>1, <2>2, Induction
<1>5. Len(R) = n - d /\ R \in Seq(S)
  <2>1. start[n + 1] = IF n <= d THEN 0 ELSE n - d
    BY <1>4
  <2>. QED BY <1>3, <2>1 DEF InBlocks
<1>6. ASSUME NEW q \in 1 .. n - d PROVE R[q] = s[q + d]
  <2>. DEFINE i == q + d
  <2>1. i \in 1 .. n /\ i > d /\ i - 1 \in Nat
    OBVIOUS
  <2>2. start[i] = q - 1
    <3>. DEFINE j == i - 1
    <3>1. j \in Nat /\ j <= n /\ j + 1 = i /\ j >= d /\ j - d = q - 1 /\ (j <= d => q - 1 = 0)
      BY <2>1
    <3>. HIDE DEF i, j
    <3>2. j \in T
      BY <1>4, <3>1, Zenon
    <3>. QED BY <3>1, <3>2
  <2>. HIDE DEF i
  <2>3. b[i] = <<s[i]>> /\ 1 \in 1 .. Len(b[i]) /\ b[i][1] = s[i]
    <3>1. b[i] = <<s[i]>>
      BY <1>2, <2>1
    <3>2. Len(<<s[i]>>) = 1 /\ <<s[i]>>[1] = s[i]
      OBVIOUS
    <3>. QED BY <3>1, <3>2
  <2>4. R[start[i] + 1] = s[i]
    BY <1>3, <2>1, <2>3 DEF InBlocks
  <2>. QED BY <2>2, <2>4 DEF i
<1>7. /\ SubSeq(s, d + 1, n) \in Seq(S) /\ Len(SubSeq(s, d + 1, n)) = n - d
      /\ \A q \in 1 .. n - d : SubSeq(s, d + 1, n)[q] = s[q + d]
  OBVIOUS
<1>. QED BY <1>5, <1>6, <1>7

-----------------------------------------------------------------------------
(* Orphans                                                                  *)

LEMMA FromOn ==
    ASSUME NEW S, NEW s \in Seq(S), NEW a \in 1 .. Len(s) + 1
    PROVE  /\ SubSeq(s, a, Len(s)) \in Seq(S) /\ Len(SubSeq(s, a, Len(s))) = Len(s) - a + 1
           /\ \A i \in 1 .. Len(s) - a + 1 : SubSeq(s, a, Len(s))[i] = s[a - 1 + i]
OBVIOUS

LEMMA CallsAreSeq ==
    ASSUME NEW s \in Seq(Message), NEW p \in 1 .. Len(s)
    PROVE  /\ s[p] \in Message /\ s[p].calls \in Seq(Nat) /\ s[p].id \in Nat
           /\ DOMAIN s[p].calls = 1 .. Len(s[p].calls) /\ Len(s[p].calls) \in Nat
<1>1. s[p] \in Message
  OBVIOUS
<1>2. \A r \in Message : r.calls \in Seq(Nat) /\ r.id \in Nat
  BY DEF Message, MessagesOf
<1>. QED BY <1>1, <1>2

\* A result has one caller, at its place, which is no result itself.
LEMMA OneCaller ==
    ASSUME NEW s \in Seq(Message), Paired(s), NEW p \in 1 .. Len(s), s[p].role = "tool"
    PROVE  \E k \in 1 .. p - 1 :
              /\ Answers(s, p, k) /\ p - k \in 1 .. Len(s) /\ s[p - k].role # "tool"
              /\ k \in DOMAIN s[p - k].calls
              /\ \A c \in 1 .. Len(s) : \A l \in DOMAIN s[c].calls :
                    s[c].calls[l] = s[p].id => c = p - k /\ l = k
<1>1. PICK k \in 1 .. p - 1 : Answers(s, p, k)
  BY DEF Paired
<1>. PICK c : c = p - k
  OBVIOUS
<1>2. c \in 1 .. Len(s) /\ k \in Nat /\ k >= 1
  OBVIOUS
<1>3. k <= Len(s[c].calls) /\ s[p].id = s[c].calls[k]
  BY <1>1 DEF Answers
<1>4. k \in DOMAIN s[c].calls
  BY <1>2, <1>3, CallsAreSeq
<1>5. s[c].role # "tool"
  <2>1. s[c].role = "tool" => s[c].calls = <<>>
    BY <1>2 DEF Paired
  <2>. QED BY <1>4, <2>1
<1>6. ASSUME NEW d \in 1 .. Len(s), NEW l \in DOMAIN s[d].calls, s[d].calls[l] = s[p].id
      PROVE  d = c /\ l = k
  BY <1>2, <1>3, <1>4, <1>6 DEF Paired
<1>. QED BY <1>1, <1>2, <1>4, <1>5, <1>6

LEMMA OneResult ==
    ASSUME NEW s \in Seq(Message), Paired(s), NEW p \in 1 .. Len(s), NEW q \in 1 .. Len(s),
           s[p].id = s[q].id, s[p].id # 0
    PROVE  p = q
<1>1. s[p].role = "tool" /\ s[q].role = "tool"
  BY DEF Paired
<1>2. PICK k \in 1 .. p - 1 :
         \A c \in 1 .. Len(s) : \A l \in DOMAIN s[c].calls :
            s[c].calls[l] = s[p].id => c = p - k /\ l = k
  BY <1>1, OneCaller
<1>3. PICK j \in 1 .. q - 1 :
         /\ q - j \in 1 .. Len(s) /\ j \in DOMAIN s[q - j].calls
         /\ Answers(s, q, j)
  BY <1>1, OneCaller
<1>4. s[q - j].calls[j] = s[p].id
  BY <1>3 DEF Answers
<1>5. q - j = p - k /\ j = k
  BY <1>2, <1>3, <1>4
<1>. QED BY <1>5

Orphans(s) == {i \in 1 .. Len(s) : s[i].role = "tool" /\ s[i].id \notin Declared(s)}

LEMMA IsDeclared ==
    ASSUME NEW s \in Seq(Message), NEW x
    PROVE  x \in Declared(s) <=>
              \E c \in 1 .. Len(s) : \E l \in DOMAIN s[c].calls : s[c].calls[l] = x
<1>1. DOMAIN s = 1 .. Len(s)
  OBVIOUS
<1>2. x \in Declared(s) <=> \E c \in 1 .. Len(s) : x \in ToSet(s[c].calls)
  BY <1>1, Zenon DEF Declared
<1>3. \A c : x \in ToSet(s[c].calls) <=> \E l \in DOMAIN s[c].calls : s[c].calls[l] = x
  BY DEF ToSet
<1>. QED BY <1>2, <1>3

\* The rest of a log begins with its orphans, and without them it is paired again.
LEMMA OrphansFirst ==
    ASSUME NEW s \in Seq(Message), Paired(s), NEW a \in 1 .. Len(s) + 1
    PROVE  \E b \in a .. Len(s) + 1 :
              /\ DropOrphanToolResults(SubSeq(s, a, Len(s))) = SubSeq(s, b, Len(s))
              /\ Paired(SubSeq(s, b, Len(s)))
<1>. PICK n \in Nat : n = Len(s)
  OBVIOUS
<1>. PICK u : u = SubSeq(s, a, n)
  OBVIOUS
<1>. PICK m \in Nat : m = n - a + 1
  BY SMTT(30)
<1>1. u \in Seq(Message) /\ Len(u) = m /\ \A i \in 1 .. m : u[i] = s[a - 1 + i]
  BY FromOn
<1>2. ASSUME NEW i \in 1 .. m, u[i].role = "tool"
      PROVE  \E k \in 1 .. (a - 1 + i) - 1 :
                /\ i \in Orphans(u) <=> a - 1 + i - k < a
                /\ Answers(s, a - 1 + i, k)
                /\ s[a - 1 + i - k].role # "tool" /\ k \in DOMAIN s[a - 1 + i - k].calls
  <2>. PICK p : p = a - 1 + i
    OBVIOUS
  <2>1. p \in 1 .. Len(s) /\ s[p] = u[i] /\ s[p].role = "tool"
    BY <1>1, <1>2
  <2>2. PICK k \in 1 .. p - 1 :
              /\ Answers(s, p, k) /\ p - k \in 1 .. Len(s) /\ s[p - k].role # "tool"
              /\ k \in DOMAIN s[p - k].calls
              /\ \A c \in 1 .. Len(s) : \A l \in DOMAIN s[c].calls :
                    s[c].calls[l] = s[p].id => c = p - k /\ l = k
    BY <2>1, OneCaller
  <2>3. u[i].id \in Declared(u) <=>
           \E c \in 1 .. Len(u) : \E l \in DOMAIN u[c].calls : u[c].calls[l] = u[i].id
    <3>1. \A x : x \in Declared(u) <=>
              \E c \in 1 .. Len(u) : \E l \in DOMAIN u[c].calls : u[c].calls[l] = x
      BY <1>1, IsDeclared
    <3>. QED BY <3>1, Zenon
  <2>4. ASSUME p - k >= a PROVE u[i].id \in Declared(u)
    <3>. DEFINE c == p - k - a + 1
    <3>1. c \in 1 .. Len(u) /\ u[c] = s[p - k]
      BY <1>1, <2>2, <2>4
    <3>2. k \in DOMAIN u[c].calls /\ u[c].calls[k] = u[i].id
      BY <2>1, <2>2, <3>1 DEF Answers
    <3>. QED BY <2>3, <3>1, <3>2
  <2>5. ASSUME u[i].id \in Declared(u) PROVE p - k >= a
    <3>1. PICK c \in 1 .. Len(u) : \E l \in DOMAIN u[c].calls : u[c].calls[l] = u[i].id
      BY <2>3, <2>5
    <3>2. a - 1 + c \in 1 .. n /\ u[c] = s[a - 1 + c]
      BY <1>1
    <3>3. a - 1 + c = p - k
      BY <2>1, <2>2, <3>1, <3>2
    <3>. QED BY <3>3
  <2>6. i \in Orphans(u) <=> p - k < a
    BY <1>1, <1>2, <2>2, <2>4, <2>5 DEF Orphans
  <2>. QED BY <2>2, <2>6
<1>3. \A j \in Orphans(u) : \A i \in 1 .. j : i \in Orphans(u)
  <2>. SUFFICES ASSUME NEW j \in Orphans(u), NEW i \in 1 .. j PROVE i \in Orphans(u)
    OBVIOUS
  <2>1. j \in 1 .. m /\ u[j].role = "tool" /\ i \in 1 .. m
    BY <1>1 DEF Orphans
  <2>2. PICK k \in 1 .. (a - 1 + j) - 1 : a - 1 + j - k < a /\ Answers(s, a - 1 + j, k)
    BY <1>2, <2>1
  <2>3. ASSUME NEW p \in a .. a - 1 + j PROVE s[p].role = "tool"
    <3>. PICK t : t = a - 1 + j
      OBVIOUS
    <3>1. p \in t - k + 1 .. t
      BY <2>1, <2>2
    <3>2. \A q \in t - k + 1 .. t : s[q].role = "tool"
      BY <2>2 DEF Answers
    <3>. QED BY <3>1, <3>2
  <2>4. u[i].role = "tool"
    <3>1. u[i] = s[a - 1 + i] /\ a - 1 + i \in a .. a - 1 + j
      BY <1>1, <2>1
    <3>. QED BY <2>3, <3>1, Zenon
  <2>5. PICK h \in 1 .. (a - 1 + i) - 1 :
             (i \in Orphans(u) <=> a - 1 + i - h < a) /\ s[a - 1 + i - h].role # "tool"
    BY <1>2, <2>1, <2>4
  <2>6. a - 1 + i - h \notin a .. a - 1 + j
    BY <2>3, <2>5
  <2>7. a - 1 + i - h < a
    BY <2>1, <2>6
  <2>. QED BY <2>5, <2>7
<1>4. PICK d \in 0 .. m : Orphans(u) = 1 .. d
  BY <1>1, <1>3, UpToOne DEF Orphans
<1>. PICK b : b = a + d
  OBVIOUS
<1>5. b \in a .. n + 1 /\ DropOrphanToolResults(u) = SubSeq(s, b, n)
  <2>. DEFINE K == {i \in DOMAIN u : u[i].role = "tool" => u[i].id \in Declared(u)}
  <2>1. \A i \in 1 .. Len(u) : i \in K <=> i > d
    <3>1. DOMAIN u = 1 .. m /\ Len(u) = m
      BY <1>1
    <3>2. \A i \in 1 .. m : i \in K <=> i \notin Orphans(u)
      BY <3>1 DEF Orphans
    <3>. HIDE DEF K
    <3>. SUFFICES ASSUME NEW i \in 1 .. m PROVE i \in K <=> i > d
      BY <3>1
    <3>3. i \notin Orphans(u) <=> i > d
      BY <1>4
    <3>. QED BY <3>2, <3>3
  <2>. HIDE DEF K
  <2>2. Chosen(u, K) = SubSeq(u, d + 1, Len(u))
    BY <1>1, <2>1, ChosenSuffix
  <2>3. SubSeq(u, d + 1, m) = SubSeq(s, b, n)
    OBVIOUS
  <2>4. DropOrphanToolResults(u) = Chosen(u, K)
    BY DEF DropOrphanToolResults, K
  <2>5. b \in a .. n + 1
    OBVIOUS
  <2>. QED BY <1>1, <2>2, <2>3, <2>4, <2>5
<1>. PICK v : v = SubSeq(s, b, n)
  OBVIOUS
<1>6. v \in Seq(Message) /\ Len(v) = n - b + 1 /\ \A i \in 1 .. n - b + 1 : v[i] = s[b - 1 + i]
  BY <1>5, FromOn
<1>7. ASSUME NEW i \in 1 .. Len(v), v[i].role = "tool" PROVE \E k \in 1 .. i - 1 : Answers(v, i, k)
  <2>. PICK p : p = b - 1 + i
    OBVIOUS
  <2>1. p \in 1 .. n /\ v[i] = s[p] /\ i + d \in 1 .. m /\ a - 1 + (i + d) = p
    BY <1>5, <1>6
  <2>2. u[i + d] = s[p]
    BY <1>1, <2>1
  <2>3. i + d \notin Orphans(u)
    BY <1>4
  <2>4. PICK k \in 1 .. p - 1 : /\ ~(p - k < a) /\ Answers(s, p, k)
                               /\ s[p - k].role # "tool" /\ k \in DOMAIN s[p - k].calls
    BY <1>2, <1>7, <2>1, <2>2, <2>3
  <2>5. p - k >= b
    <3>. DEFINE c == p - k - a + 1
    <3>1. c \in 1 .. m /\ u[c] = s[p - k]
      BY <1>1, <2>1, <2>4
    <3>2. c \notin Orphans(u)
      BY <2>4, <3>1 DEF Orphans
    <3>3. c > d
      BY <1>4, <3>1, <3>2
    <3>. QED BY <3>3
  <2>6. k \in 1 .. i - 1 /\ v[i - k] = s[p - k]
    BY <1>6, <2>1, <2>4, <2>5
  <2>7. ASSUME NEW q \in i - k + 1 .. i PROVE v[q].role = "tool"
    <3>1. v[q] = s[b - 1 + q] /\ b - 1 + q \in p - k + 1 .. p
      BY <1>6, <2>1, <2>6
    <3>. QED BY <2>4, <3>1 DEF Answers
  <2>8. Answers(v, i, k)
    BY <2>1, <2>4, <2>6, <2>7 DEF Answers
  <2>. QED BY <2>6, <2>8
<1>8. \A i \in 1 .. Len(v) : b - 1 + i \in 1 .. n /\ v[i] = s[b - 1 + i]
  BY <1>5, <1>6
<1>9. Paired(v)
  <2>1. DOMAIN v = 1 .. Len(v) /\ DOMAIN s = 1 .. n
    BY <1>6
  <2>2. ASSUME NEW i \in DOMAIN v
        PROVE  /\ v[i].role = "tool" => v[i].calls = <<>> /\ \E k \in 1 .. i - 1 : Answers(v, i, k)
               /\ v[i].role = "tool" <=> v[i].id # 0
    <3>1. PICK p \in DOMAIN s : v[i] = s[p]
      BY <1>8, <2>1
    <3>2. /\ s[p].role = "tool" => s[p].calls = <<>>
          /\ s[p].role = "tool" <=> s[p].id # 0
      BY DEF Paired
    <3>. QED BY <1>7, <2>1, <3>1, <3>2
  <2>3. ASSUME NEW i \in DOMAIN v, NEW j \in DOMAIN v, NEW k \in DOMAIN v[i].calls,
               NEW l \in DOMAIN v[j].calls, v[i].calls[k] = v[j].calls[l]
        PROVE  i = j /\ k = l
    <3>1. PICK p \in DOMAIN s : p = b - 1 + i /\ v[i] = s[p]
      BY <1>8, <2>1
    <3>2. PICK q \in DOMAIN s : q = b - 1 + j /\ v[j] = s[q]
      BY <1>8, <2>1
    <3>3. p = q /\ k = l
      <4>1. /\ k \in DOMAIN s[p].calls /\ l \in DOMAIN s[q].calls
            /\ s[p].calls[k] = s[q].calls[l]
        BY <2>3, <3>1, <3>2
      <4>2. \A x, y \in DOMAIN s : \A g \in DOMAIN s[x].calls, h \in DOMAIN s[y].calls :
               s[x].calls[g] = s[y].calls[h] => x = y /\ g = h
        BY DEF Paired
      <4>3. \A g \in DOMAIN s[p].calls, h \in DOMAIN s[q].calls :
               s[p].calls[g] = s[q].calls[h] => p = q /\ g = h
        BY <4>2, Zenon
      <4>. QED BY <4>1, <4>3, Zenon
    <3>. QED BY <2>1, <3>1, <3>2, <3>3
  <2>. QED BY <2>2, <2>3, Zenon DEF Paired
<1>. QED BY <1>5, <1>9

-----------------------------------------------------------------------------
(* Missing results                                                          *)

\* The first r calls of message i have their results after it, the others have none.
Given(s, i, r) ==
    /\ r \in 0 .. Len(s[i].calls) /\ i + r <= Len(s)
    /\ \A k \in 1 .. r : s[i + k].role = "tool" /\ s[i + k].id = s[i].calls[k]
    /\ \A k \in 1 .. Len(s[i].calls) : s[i].calls[k] \in Answered(s) <=> k <= r

LEMMA IsAnswered ==
    ASSUME NEW s \in Seq(Message), NEW x
    PROVE  x \in Answered(s) <=> \E t \in 1 .. Len(s) : s[t].role = "tool" /\ s[t].id = x
BY DEF Answered

\* A call that has its result has it at its place, and so have the calls before it.
LEMMA ResultInPlace ==
    ASSUME NEW s \in Seq(Message), Paired(s), NEW i \in 1 .. Len(s),
           NEW k \in 1 .. Len(s[i].calls), s[i].calls[k] \in Answered(s)
    PROVE  /\ i + k <= Len(s)
           /\ \A j \in 1 .. k : s[i + j].role = "tool" /\ s[i + j].id = s[i].calls[j]
<1>1. PICK t \in 1 .. Len(s) : s[t].role = "tool" /\ s[t].id = s[i].calls[k]
  <2>1. \A x : x \in Answered(s) <=> \E t \in 1 .. Len(s) : s[t].role = "tool" /\ s[t].id = x
    BY IsAnswered
  <2>. QED BY <2>1
<1>2. k \in DOMAIN s[i].calls /\ k \in Nat /\ k >= 1
  BY CallsAreSeq
<1>3. PICK h \in 1 .. t - 1 :
         /\ Answers(s, t, h) /\ t - h \in 1 .. Len(s) /\ s[t - h].role # "tool"
         /\ h \in DOMAIN s[t - h].calls
         /\ \A c \in 1 .. Len(s) : \A l \in DOMAIN s[c].calls :
               s[c].calls[l] = s[t].id => c = t - h /\ l = h
  BY <1>1, OneCaller
<1>4. i = t - h /\ k = h
  BY <1>1, <1>2, <1>3
<1>5. t = i + k /\ s[i].role # "tool"
  BY <1>3, <1>4
<1>6. \A q \in i + 1 .. i + k : s[q].role = "tool"
  <2>1. \A q \in t - h + 1 .. t : s[q].role = "tool"
    BY <1>3 DEF Answers
  <2>. QED BY <1>4, <1>5, <2>1
<1>7. ASSUME NEW j \in 1 .. k PROVE s[i + j].id = s[i].calls[j]
  <2>. PICK p : p = i + j
    OBVIOUS
  <2>1. p \in 1 .. Len(s) /\ s[p].role = "tool" /\ j \in Nat /\ p <= i + k
    BY <1>2, <1>5, <1>6
  <2>2. PICK g \in 1 .. p - 1 : /\ Answers(s, p, g) /\ s[p - g].role # "tool"
    BY <2>1, OneCaller
  <2>3. ~(g < j)
    <3>1. g < j => p - g \in i + 1 .. i + k
      BY <1>2, <2>1
    <3>. QED BY <1>6, <2>2, <3>1
  <2>4. ~(g > j)
    <3>1. g > j => i \in p - g + 1 .. p
      BY <2>1
    <3>2. \A q \in p - g + 1 .. p : s[q].role = "tool"
      BY <2>2 DEF Answers
    <3>. QED BY <1>5, <3>1, <3>2
  <2>5. g = j /\ p - g = i
    BY <2>1, <2>3, <2>4
  <2>6. s[p].id = s[p - g].calls[g]
    BY <2>2 DEF Answers
  <2>. QED BY <2>5, <2>6
<1>8. \A j \in 1 .. k : s[i + j].role = "tool"
  BY <1>2, <1>6
<1>9. i + k <= Len(s)
  BY <1>5
<1>. QED BY <1>7, <1>8, <1>9

LEMMA MissingLast ==
    ASSUME NEW s \in Seq(Message), Paired(s), NEW i \in 1 .. Len(s)
    PROVE  \E r : /\ Given(s, i, r)
                  /\ Missing(s, s[i]) = SubSeq(s[i].calls, r + 1, Len(s[i].calls))
<1>. PICK calls \in Seq(Nat) : calls = s[i].calls
  BY CallsAreSeq
<1>. PICK n \in Nat : n = Len(calls)
  OBVIOUS
<1>. DEFINE A == {k \in 1 .. n : calls[k] \in Answered(s)}
<1>1. ASSUME NEW k \in A
      PROVE  /\ i + k <= Len(s)
             /\ \A j \in 1 .. k : s[i + j].role = "tool" /\ s[i + j].id = calls[j]
  <2>1. k \in 1 .. Len(s[i].calls) /\ s[i].calls[k] \in Answered(s)
    OBVIOUS
  <2>. QED BY <2>1, ResultInPlace
<1>2. ASSUME NEW k \in A, NEW j \in 1 .. k PROVE j \in A
  <2>1. i + j \in 1 .. Len(s) /\ j \in 1 .. n
    BY <1>1
  <2>2. s[i + j].role = "tool" /\ s[i + j].id = calls[j]
    BY <1>1
  <2>3. \A x : x \in Answered(s) <=> \E t \in 1 .. Len(s) : s[t].role = "tool" /\ s[t].id = x
    BY IsAnswered
  <2>. QED BY <2>1, <2>2, <2>3
<1>3. PICK r \in 0 .. n : A = 1 .. r
  <2>. A \in SUBSET (1 .. n)
    OBVIOUS
  <2>. HIDE DEF A
  <2>. QED BY <1>2, UpToOne
<1>4. Given(s, i, r)
  <2>1. r > 0 => r \in A
    BY <1>3
  <2>2. i + r <= Len(s) /\ \A k \in 1 .. r : s[i + k].role = "tool" /\ s[i + k].id = calls[k]
    BY <1>1, <2>1
  <2>3. ASSUME NEW k \in 1 .. n PROVE calls[k] \in Answered(s) <=> k <= r
    <3>1. calls[k] \in Answered(s) <=> k \in A
      BY Zenon
    <3>2. k \in A <=> k \in 1 .. r
      BY <1>3, Zenon
    <3>3. k \in 1 .. r <=> k <= r
      OBVIOUS
    <3>. QED BY <3>1, <3>2, <3>3, Zenon
  <2>. QED BY <2>2, <2>3 DEF Given
<1>5. Missing(s, s[i]) = SubSeq(calls, r + 1, n)
  <2>. DEFINE K == {k \in DOMAIN calls : calls[k] \notin Answered(s)}
  <2>1. \A k \in 1 .. Len(calls) : k \in K <=> k > r
    BY <1>4 DEF Given
  <2>2. Missing(s, s[i]) = Chosen(calls, K)
    BY DEF Missing
  <2>. HIDE DEF K
  <2>3. Chosen(calls, K) = SubSeq(calls, r + 1, Len(calls))
    BY <2>1, ChosenSuffix
  <2>. QED BY <2>2, <2>3
<1>. QED BY <1>4, <1>5

\* R is s with what is missing of each call put in after it: message i is at pos[i], and
\* given[i] of its calls have their results.
Fills(s, R, pos, given) ==
    /\ R \in Seq(Message) /\ pos \in [1 .. Len(s) + 1 -> Nat \ {0}] /\ pos[Len(s) + 1] = Len(R) + 1
    /\ \A i \in 1 .. Len(s) :
          /\ Given(s, i, given[i]) /\ R[pos[i]] = s[i]
          /\ pos[i + 1] = pos[i] + 1 + (Len(s[i].calls) - given[i])
          /\ \A k \in 1 .. Len(s[i].calls) - given[i] :
                R[pos[i] + k] = Unavailable(s[i].calls[given[i] + k])
    /\ \A i, j \in 1 .. Len(s) + 1 : i <= j => pos[i] <= pos[j]
    /\ \A q \in 1 .. Len(R) : \E i \in 1 .. Len(s) :
          \E k \in 0 .. Len(s[i].calls) - given[i] : q = pos[i] + k

LEMMA UnavailableIsMessage ==
    ASSUME NEW x \in Nat
    PROVE  /\ Unavailable(x) \in Message /\ Unavailable(x).role = "tool" /\ Unavailable(x).id = x
           /\ Unavailable(x).calls = <<>> /\ Unavailable(x).size = "small"
BY DEF Unavailable, Msg, Plain, Message, MessagesOf, Sizes

LEMMA Prefixed ==
    ASSUME NEW S, NEW x \in S, NEW u \in Seq(S)
    PROVE  /\ <<x>> \o u \in Seq(S) /\ Len(<<x>> \o u) = 1 + Len(u) /\ (<<x>> \o u)[1] = x
           /\ \A k \in 1 .. Len(u) : (<<x>> \o u)[1 + k] = u[k]
<1>1. <<x>> \in Seq(S) /\ Len(<<x>>) = 1 /\ <<x>>[1] = x
  OBVIOUS
<1>2. PICK y \in Seq(S) : y = <<x>> /\ Len(y) = 1 /\ y[1] = x
  BY <1>1
<1>3. /\ y \o u \in Seq(S) /\ Len(y \o u) = 1 + Len(u) /\ (y \o u)[1] = x
      /\ \A k \in 1 .. Len(u) : (y \o u)[1 + k] = u[k]
  BY <1>2
<1>. QED BY <1>2, <1>3

\* What is put in for these calls.
Row(c) == [k \in DOMAIN c |-> Unavailable(c[k])]

LEMMA RowOfCalls ==
    ASSUME NEW c \in Seq(Nat)
    PROVE  Row(c) \in Seq(Message) /\ Len(Row(c)) = Len(c)
           /\ \A k \in 1 .. Len(c) : Row(c)[k] = Unavailable(c[k])
<1>1. DOMAIN c = 1 .. Len(c) /\ \A k \in 1 .. Len(c) : c[k] \in Nat
  OBVIOUS
<1>2. \A k \in 1 .. Len(c) : Unavailable(c[k]) \in Message
  BY <1>1, UnavailableIsMessage
<1>3. Row(c) = [k \in 1 .. Len(c) |-> Unavailable(c[k])]
  BY <1>1 DEF Row
<1>. QED BY <1>2, <1>3

\* A message and what is put in after it.
LEMMA BlockOfCall ==
    ASSUME NEW x \in Message, NEW calls \in Seq(Nat), NEW r \in 0 .. Len(calls)
    PROVE  LET h == <<x>> \o Row(SubSeq(calls, r + 1, Len(calls))) IN
           /\ h \in Seq(Message) /\ Len(h) = 1 + (Len(calls) - r) /\ Len(calls) - r \in Nat
           /\ h[1] = x /\ \A k \in 1 .. Len(calls) - r : h[1 + k] = Unavailable(calls[r + k])
<1>1. PICK m \in Nat : m = Len(calls) - r
  OBVIOUS
<1>2. PICK c \in Seq(Nat) : /\ c = SubSeq(calls, r + 1, Len(calls)) /\ Len(c) = m
                           /\ \A k \in 1 .. m : c[k] = calls[r + k]
  <2>1. PICK a \in 1 .. Len(calls) + 1 : a = r + 1 /\ Len(calls) - a + 1 = m
    BY <1>1
  <2>2. /\ SubSeq(calls, a, Len(calls)) \in Seq(Nat)
        /\ Len(SubSeq(calls, a, Len(calls))) = Len(calls) - a + 1
        /\ \A i \in 1 .. Len(calls) - a + 1 : SubSeq(calls, a, Len(calls))[i] = calls[a - 1 + i]
    BY FromOn
  <2>3. a - 1 = r
    BY <2>1
  <2>4. PICK c : c = SubSeq(calls, a, Len(calls))
    OBVIOUS
  <2>5. c \in Seq(Nat) /\ Len(c) = m /\ \A k \in 1 .. m : c[k] = calls[r + k]
    BY <2>1, <2>2, <2>3, <2>4
  <2>. QED BY <2>1, <2>4, <2>5
<1>3. PICK u \in Seq(Message) : /\ u = Row(c) /\ Len(u) = m
                               /\ \A k \in 1 .. m : u[k] = Unavailable(c[k])
  BY <1>2, RowOfCalls
<1>4. /\ <<x>> \o u \in Seq(Message) /\ Len(<<x>> \o u) = 1 + m /\ (<<x>> \o u)[1] = x
      /\ \A k \in 1 .. m : (<<x>> \o u)[1 + k] = u[k]
  BY <1>3, Prefixed
<1>5. \A k \in 1 .. m : (<<x>> \o u)[1 + k] = Unavailable(calls[r + k])
  BY <1>2, <1>3, <1>4
<1>. QED BY <1>1, <1>2, <1>3, <1>4, <1>5

\* The same blocks by where each begins.
AtPlaces(S, b, n, R, pos) ==
    /\ pos \in [1 .. n + 1 -> Nat \ {0}] /\ R \in Seq(S) /\ pos[n + 1] = Len(R) + 1
    /\ \A i \in 1 .. n : \A m \in Nat : Len(b[i]) = 1 + m =>
          /\ pos[i + 1] = pos[i] + 1 + m /\ R[pos[i]] = b[i][1]
          /\ \A k \in 1 .. m : R[pos[i] + k] = b[i][1 + k]
    /\ \A i, j \in 1 .. n + 1 : i <= j => pos[i] <= pos[j]
    /\ \A q \in 1 .. Len(R) : \E i \in 1 .. n : \E k \in 1 .. Len(b[i]) : q = pos[i] + (k - 1)

LEMMA BlocksBegin ==
    ASSUME NEW S, NEW n \in Nat, NEW b, NEW R, NEW start, InBlocks(S, b, n, R, start)
    PROVE  \E pos : AtPlaces(S, b, n, R, pos)
<1>1. /\ R \in Seq(S) /\ start \in [1 .. n + 1 -> Nat] /\ start[n + 1] = Len(R)
      /\ \A i, j \in 1 .. n + 1 : i <= j => start[i] <= start[j]
  BY DEF InBlocks
<1>2. PICK pos \in [1 .. n + 1 -> Nat \ {0}] : \A i \in 1 .. n + 1 : pos[i] = start[i] + 1
  <2>. DEFINE pos == [i \in 1 .. n + 1 |-> start[i] + 1]
  <2>1. pos \in [1 .. n + 1 -> Nat \ {0}] /\ \A i \in 1 .. n + 1 : pos[i] = start[i] + 1
    BY <1>1
  <2>. QED BY <2>1
<1>3. ASSUME NEW i \in 1 .. n, NEW m \in Nat, Len(b[i]) = 1 + m
      PROVE  /\ pos[i + 1] = pos[i] + 1 + m /\ R[pos[i]] = b[i][1]
             /\ \A k \in 1 .. m : R[pos[i] + k] = b[i][1 + k]
  <2>1. start[i + 1] = start[i] + Len(b[i]) /\ \A k \in 1 .. Len(b[i]) : R[start[i] + k] = b[i][k]
    BY DEF InBlocks
  <2>2. i \in 1 .. n + 1 /\ i + 1 \in 1 .. n + 1
    OBVIOUS
  <2>3. PICK x \in Nat : x = start[i]
    BY <1>1, <2>2
  <2>4. pos[i] = x + 1 /\ pos[i + 1] = start[i + 1] + 1 /\ start[i + 1] = x + (1 + m)
    BY <1>2, <1>3, <2>1, <2>2, <2>3
  <2>5. \A k \in 1 .. 1 + m : R[x + k] = b[i][k]
    BY <1>3, <2>1, <2>3
  <2>6. R[x + 1] = b[i][1]
    BY <2>5
  <2>7. ASSUME NEW k \in 1 .. m PROVE R[pos[i] + k] = b[i][1 + k]
    <3>1. 1 + k \in 1 .. 1 + m /\ x + (1 + k) = (x + 1) + k
      OBVIOUS
    <3>. QED BY <2>4, <2>5, <3>1
  <2>8. pos[i + 1] = pos[i] + 1 + m
    BY <2>4
  <2>. QED BY <2>4, <2>6, <2>7, <2>8
<1>4. ASSUME NEW i \in 1 .. n + 1, NEW j \in 1 .. n + 1, i <= j PROVE pos[i] <= pos[j]
  <2>1. start[i] \in Nat /\ start[j] \in Nat /\ start[i] <= start[j]
    BY <1>1, <1>4
  <2>2. pos[i] = start[i] + 1 /\ pos[j] = start[j] + 1
    BY <1>2
  <2>. QED BY <2>1, <2>2
<1>5. ASSUME NEW q \in 1 .. Len(R)
      PROVE  \E i \in 1 .. n : \E k \in 1 .. Len(b[i]) : q = pos[i] + (k - 1)
  <2>1. PICK i \in 1 .. n : \E k \in 1 .. Len(b[i]) : q = start[i] + k
    BY DEF InBlocks
  <2>2. PICK k \in 1 .. Len(b[i]) : q = start[i] + k
    BY <2>1
  <2>3. pos[i] = start[i] + 1 /\ start[i] \in Nat
    BY <1>1, <1>2
  <2>4. q = pos[i] + (k - 1)
    BY <2>2, <2>3, SMTT(30)
  <2>. QED BY <2>4
<1>6. pos[n + 1] = Len(R) + 1
  BY <1>1, <1>2
<1>7. AtPlaces(S, b, n, R, pos)
  BY <1>1, <1>3, <1>4, <1>5, <1>6 DEF AtPlaces
<1>. QED BY <1>7

LEMMA FilledIn ==
    ASSUME NEW s \in Seq(Message), Paired(s)
    PROVE  \E pos, given : Fills(s, BackfillMissingToolResults(s), pos, given)
<1>. PICK n \in Nat : n = Len(s)
  OBVIOUS
<1>0. DOMAIN s = 1 .. n /\ \A i \in 1 .. n : s[i] \in Message /\ s[i].calls \in Seq(Nat)
  BY CallsAreSeq
<1>1. PICK given : \A i \in 1 .. n : /\ Given(s, i, given[i])
                        /\ Missing(s, s[i]) = SubSeq(s[i].calls, given[i] + 1, Len(s[i].calls))
  <2>. DEFINE W(i, r) == /\ Given(s, i, r)
                         /\ Missing(s, s[i]) = SubSeq(s[i].calls, r + 1, Len(s[i].calls))
              g == [i \in 1 .. n |-> CHOOSE r : W(i, r)]
  <2>1. ASSUME NEW i \in 1 .. n PROVE \E r : W(i, r)
    BY MissingLast
  <2>2. \A i \in 1 .. n : W(i, g[i])
    <3>. HIDE DEF W
    <3>. QED BY <2>1
  <2>. QED BY <2>2
<1>2. PICK b : b = [i \in DOMAIN s |-> <<s[i]>> \o Row(Missing(s, s[i]))]
  OBVIOUS
<1>3. PICK R : R = FlattenSeq(b)
  OBVIOUS
<1>4. R = BackfillMissingToolResults(s)
  BY <1>2, <1>3 DEF BackfillMissingToolResults, Row
<1>5. ASSUME NEW i \in 1 .. n
      PROVE  /\ b[i] \in Seq(Message) /\ Len(b[i]) = 1 + (Len(s[i].calls) - given[i])
             /\ Len(s[i].calls) - given[i] \in Nat /\ b[i][1] = s[i]
             /\ \A k \in 1 .. Len(s[i].calls) - given[i] :
                   b[i][1 + k] = Unavailable(s[i].calls[given[i] + k])
  <2>1. PICK calls \in Seq(Nat) : calls = s[i].calls
    BY <1>0
  <2>2. PICK r \in 0 .. Len(calls) : r = given[i]
    BY <1>1, <2>1 DEF Given
  <2>3. PICK x \in Message : x = s[i]
    BY <1>0
  <2>4. Missing(s, s[i]) = SubSeq(calls, r + 1, Len(calls))
    BY <1>1, <2>1, <2>2
  <2>5. PICK h : h = b[i]
    OBVIOUS
  <2>6. h = <<x>> \o Row(SubSeq(calls, r + 1, Len(calls)))
    <3>1. b[i] = <<s[i]>> \o Row(Missing(s, s[i]))
      BY <1>0, <1>2
    <3>. QED BY <2>3, <2>4, <2>5, <3>1
  <2>7. /\ h \in Seq(Message) /\ Len(h) = 1 + (Len(calls) - r) /\ Len(calls) - r \in Nat
        /\ h[1] = x /\ \A k \in 1 .. Len(calls) - r : h[1 + k] = Unavailable(calls[r + k])
    BY <2>6, BlockOfCall
  <2>. QED BY <2>1, <2>2, <2>3, <2>5, <2>7
<1>6. b \in [1 .. n -> Seq(Message)]
  BY <1>0, <1>2, <1>5
<1>7. PICK start : InBlocks(Message, b, n, R, start)
  BY <1>3, <1>6, Blocks
<1>8. PICK pos : AtPlaces(Message, b, n, R, pos)
  BY <1>7, BlocksBegin
<1>9. ASSUME NEW i \in 1 .. n
      PROVE  /\ R[pos[i]] = s[i] /\ pos[i + 1] = pos[i] + 1 + (Len(s[i].calls) - given[i])
             /\ \A k \in 1 .. Len(s[i].calls) - given[i] :
                   R[pos[i] + k] = Unavailable(s[i].calls[given[i] + k])
  <2>1. PICK m \in Nat : m = Len(s[i].calls) - given[i]
    BY <1>5
  <2>2. Len(b[i]) = 1 + m /\ b[i][1] = s[i]
        /\ \A k \in 1 .. m : b[i][1 + k] = Unavailable(s[i].calls[given[i] + k])
    BY <1>5, <2>1
  <2>3. pos[i + 1] = pos[i] + 1 + m /\ R[pos[i]] = b[i][1]
        /\ \A k \in 1 .. m : R[pos[i] + k] = b[i][1 + k]
    BY <1>8, <2>2 DEF AtPlaces
  <2>. QED BY <2>1, <2>2, <2>3
<1>10. ASSUME NEW q \in 1 .. Len(R)
       PROVE  \E i \in 1 .. n : \E k \in 0 .. Len(s[i].calls) - given[i] : q = pos[i] + k
  <2>1. PICK i \in 1 .. n : \E k \in 1 .. Len(b[i]) : q = pos[i] + (k - 1)
    BY <1>8 DEF AtPlaces
  <2>2. PICK k \in 1 .. Len(b[i]) : q = pos[i] + (k - 1)
    BY <2>1
  <2>3. PICK m \in Nat : m = Len(s[i].calls) - given[i] /\ Len(b[i]) = 1 + m
    BY <1>5
  <2>4. PICK l \in 0 .. m : l = k - 1
    BY <2>3
  <2>. QED BY <2>2, <2>3, <2>4
<1>11. Fills(s, R, pos, given)
  BY <1>1, <1>8, <1>9, <1>10 DEF Fills, AtPlaces
<1>. QED BY <1>4, <1>11

\* The results of a call are in a row after it, the m missing ones first.
RowAfter(s, R, pos, given, i, m) ==
    /\ m + given[i] = Len(s[i].calls) /\ pos[i] \in Nat \ {0}
    /\ pos[i] + Len(s[i].calls) <= Len(R)
    /\ \A j \in 1 .. given[i] : pos[i + j] = pos[i] + m + j /\ R[pos[i] + m + j] = s[i + j]
    /\ \A k \in 1 .. m : R[pos[i] + k] = Unavailable(s[i].calls[given[i] + k])

LEMMA RowAfterCall ==
    ASSUME NEW s \in Seq(Message), Paired(s), NEW R, NEW pos, NEW given, Fills(s, R, pos, given),
           NEW i \in 1 .. Len(s)
    PROVE  \E m \in Nat : RowAfter(s, R, pos, given, i, m)
<1>1. PICK n \in Nat : n = Len(s)
  OBVIOUS
<1>2. Given(s, i, given[i]) /\ Len(s[i].calls) \in Nat
  BY CallsAreSeq DEF Fills
<1>3. PICK g, m \in Nat : g = given[i] /\ m + g = Len(s[i].calls) /\ m = Len(s[i].calls) - given[i]
  <2>1. given[i] \in 0 .. Len(s[i].calls)
    BY <1>2 DEF Given
  <2>2. PICK g, l \in Nat : g = given[i] /\ l = Len(s[i].calls) /\ g <= l
    BY <1>2, <2>1
  <2>3. l - g \in Nat /\ (l - g) + g = l
    BY <2>2
  <2>. QED BY <2>2, <2>3
<1>4. i + g <= n /\ \A k \in 1 .. g : s[i + k].role = "tool"
  BY <1>1, <1>2, <1>3 DEF Given
<1>5. /\ \A x \in 1 .. n : R[pos[x]] = s[x] /\ Given(s, x, given[x])
                         /\ pos[x + 1] = pos[x] + 1 + (Len(s[x].calls) - given[x])
      /\ \A x \in 1 .. n + 1 : pos[x] \in Nat \ {0} /\ pos[x] <= Len(R) + 1 /\ Len(R) \in Nat
  <2>1. /\ R \in Seq(Message) /\ pos \in [1 .. n + 1 -> Nat \ {0}] /\ pos[n + 1] = Len(R) + 1
        /\ \A x, y \in 1 .. n + 1 : x <= y => pos[x] <= pos[y]
    BY <1>1 DEF Fills
  <2>2. \A x \in 1 .. n + 1 : x <= n + 1 /\ n + 1 \in 1 .. n + 1
    OBVIOUS
  <2>3. \A x \in 1 .. n + 1 : pos[x] \in Nat \ {0} /\ pos[x] <= Len(R) + 1 /\ Len(R) \in Nat
    BY <2>1, <2>2
  <2>4. \A x \in 1 .. n : R[pos[x]] = s[x] /\ Given(s, x, given[x])
                         /\ pos[x + 1] = pos[x] + 1 + (Len(s[x].calls) - given[x])
    BY <1>1 DEF Fills
  <2>. QED BY <2>3, <2>4
<1>6. PICK z \in Nat \ {0} : z = pos[i]
  BY <1>1, <1>5
<1>7. pos[i + 1] = z + 1 + m
  BY <1>1, <1>3, <1>5, <1>6
<1>8. ASSUME NEW j \in 1 .. g PROVE pos[i + j + 1] = pos[i + j] + 1
  <2>1. i + j \in 1 .. n /\ s[i + j].role = "tool"
    BY <1>1, <1>4
  <2>2. s[i + j].calls = <<>>
    BY <1>1, <2>1 DEF Paired
  <2>3. given[i + j] = 0
    <3>1. given[i + j] \in 0 .. Len(s[i + j].calls)
      BY <1>5, <2>1 DEF Given
    <3>. QED BY <2>2, <3>1
  <2>4. pos[i + j + 1] = pos[i + j] + 1 + (Len(s[i + j].calls) - given[i + j])
    BY <1>5, <2>1
  <2>5. Len(s[i + j].calls) - given[i + j] = 0
    BY <2>2, <2>3
  <2>6. PICK y \in Nat : y = pos[i + j]
    <3>1. i + j \in 1 .. n + 1
      BY <2>1
    <3>. QED BY <1>5, <3>1
  <2>. QED BY <2>4, <2>5, <2>6
<1>. DEFINE T == {j \in Nat : j <= g => pos[i + j + 1] = z + 1 + m + j}
<1>9. Nat \subseteq T
  <2>1. 0 \in T
    BY <1>7
  <2>2. ASSUME NEW j \in Nat, j \in T PROVE j + 1 \in T
    <3>. SUFFICES ASSUME j + 1 <= g PROVE pos[i + (j + 1) + 1] = z + 1 + m + (j + 1)
      OBVIOUS
    <3>1. pos[i + j + 1] = z + 1 + m + j
      BY <2>2
    <3>2. i + j + 1 = i + (j + 1) /\ j + 1 \in 1 .. g
      OBVIOUS
    <3>3. pos[i + (j + 1) + 1] = pos[i + (j + 1)] + 1
      BY <1>8, <3>2
    <3>4. pos[i + (j + 1) + 1] = (z + 1 + m + j) + 1
      BY <3>1, <3>2, <3>3
    <3>. QED BY <3>4
  <2>. HIDE DEF T
  <2>. QED BY <2>1, <2>2, Induction
<1>10. ASSUME NEW j \in 1 .. g PROVE pos[i + j] = z + m + j
  <2>1. PICK h \in Nat : j = h + 1
    <3>1. j - 1 \in Nat /\ j = (j - 1) + 1
      OBVIOUS
    <3>. QED BY <3>1
  <2>2. pos[i + h + 1] = z + 1 + m + h
    <3>1. h <= g /\ h \in T
      BY <1>9, <2>1
    <3>. QED BY <3>1
  <2>3. i + h + 1 = i + j /\ z + 1 + m + h = z + m + j
    BY <2>1
  <2>. QED BY <2>2, <2>3
<1>11. ASSUME NEW j \in 1 .. g PROVE R[z + m + j] = s[i + j]
  <2>1. i + j \in 1 .. n
    BY <1>1, <1>4
  <2>. QED BY <1>5, <1>10, <2>1
<1>12. z + (m + g) <= Len(R)
  <2>1. pos[i + g + 1] = z + 1 + m + g
    BY <1>9
  <2>2. i + g + 1 \in 1 .. n + 1
    BY <1>1, <1>4
  <2>3. pos[i + g + 1] <= Len(R) + 1 /\ Len(R) \in Nat
    BY <1>5, <2>2
  <2>. QED BY <2>1, <2>3
<1>13. \A k \in 1 .. m : R[z + k] = Unavailable(s[i].calls[g + k])
  BY <1>3, <1>6 DEF Fills
<1>14. RowAfter(s, R, pos, given, i, m)
  BY <1>3, <1>6, <1>10, <1>11, <1>12, <1>13 DEF RowAfter
<1>. QED BY <1>14

\* These calls have all their results right after p.
ResultsAt(R, p, calls) ==
    /\ p + Len(calls) <= Len(R)
    /\ \A k \in 1 .. Len(calls) : R[p + k].role = "tool"
    /\ {R[p + k].id : k \in 1 .. Len(calls)} = ToSet(calls)

\* So every call has its results in what is filled in, and every result its call.
LEMMA CallIsFilledIn ==
    ASSUME NEW s \in Seq(Message), Paired(s), NEW R, NEW pos, NEW given, Fills(s, R, pos, given),
           NEW i \in 1 .. Len(s)
    PROVE  ResultsAt(R, pos[i], s[i].calls)
<1>0. PICK m \in Nat : RowAfter(s, R, pos, given, i, m)
  BY RowAfterCall
<1>1. /\ m + given[i] = Len(s[i].calls) /\ pos[i] \in Nat \ {0}
      /\ pos[i] + Len(s[i].calls) <= Len(R)
      /\ \A j \in 1 .. given[i] : pos[i + j] = pos[i] + m + j /\ R[pos[i] + m + j] = s[i + j]
      /\ \A k \in 1 .. m : R[pos[i] + k] = Unavailable(s[i].calls[given[i] + k])
  BY <1>0, Zenon DEF RowAfter
<1>2. Given(s, i, given[i])
  BY DEF Fills
<1>3. PICK calls \in Seq(Nat) : calls = s[i].calls
  BY CallsAreSeq
<1>4. PICK g \in Nat : g = given[i]
  BY <1>2, <1>3 DEF Given
<1>5. PICK z \in Nat : z = pos[i]
  BY <1>1
<1>6. Len(calls) = m + g
  BY <1>1, <1>3, <1>4
<1>7. ASSUME NEW k \in 1 .. m
      PROVE  g + k \in 1 .. m + g /\ R[z + k].role = "tool" /\ R[z + k].id = calls[g + k]
  <2>1. g + k \in 1 .. m + g
    OBVIOUS
  <2>2. calls[g + k] \in Nat
    BY <1>6, <2>1
  <2>3. R[z + k] = Unavailable(calls[g + k])
    BY <1>1, <1>3, <1>4, <1>5
  <2>. QED BY <2>1, <2>2, <2>3, UnavailableIsMessage
<1>8. ASSUME NEW j \in 1 .. g
      PROVE  m + j \in 1 .. m + g /\ R[z + (m + j)].role = "tool" /\ R[z + (m + j)].id = calls[j]
  <2>1. m + j \in 1 .. m + g
    OBVIOUS
  <2>2. s[i + j].role = "tool" /\ s[i + j].id = calls[j]
    BY <1>2, <1>3, <1>4 DEF Given
  <2>3. R[z + m + j] = s[i + j]
    BY <1>1, <1>4, <1>5
  <2>4. z + (m + j) = z + m + j
    OBVIOUS
  <2>. QED BY <2>1, <2>2, <2>3, <2>4
<1>9. ASSUME NEW k \in 1 .. m + g, k \notin 1 .. m PROVE \E j \in 1 .. g : k = m + j
  <2>1. k - m \in 1 .. g /\ k = m + (k - m)
    BY <1>9
  <2>. QED BY <2>1
<1>10. ASSUME NEW k \in 1 .. m + g
       PROVE  R[z + k].role = "tool" /\ \E l \in 1 .. m + g : R[z + k].id = calls[l]
  <2>1. CASE k \in 1 .. m
    BY <1>7, <2>1
  <2>2. CASE k \notin 1 .. m
    <3>1. PICK j \in 1 .. g : k = m + j
      BY <1>9, <2>2
    <3>2. j \in 1 .. m + g
      OBVIOUS
    <3>. QED BY <1>8, <3>1, <3>2
  <2>. QED BY <2>1, <2>2
<1>11. ASSUME NEW l \in 1 .. m + g PROVE \E k \in 1 .. m + g : R[z + k].id = calls[l]
  <2>1. CASE l \in 1 .. g
    BY <1>8, <2>1
  <2>2. CASE l \notin 1 .. g
    <3>1. PICK k \in 1 .. m : l = g + k
      <4>1. l - g \in 1 .. m /\ l = g + (l - g)
        BY <2>2
      <4>. QED BY <4>1
    <3>2. k \in 1 .. m + g
      OBVIOUS
    <3>. QED BY <1>7, <3>1, <3>2
  <2>. QED BY <2>1, <2>2
<1>12. ToSet(calls) = {calls[l] : l \in 1 .. m + g}
  <2>1. DOMAIN calls = 1 .. m + g
    BY <1>6
  <2>. QED BY <2>1, Zenon DEF ToSet
<1>13. {R[z + k].id : k \in 1 .. m + g} = {calls[l] : l \in 1 .. m + g}
  <2>1. \A x : x \in {R[z + k].id : k \in 1 .. m + g} => x \in {calls[l] : l \in 1 .. m + g}
    BY <1>10
  <2>2. \A x : x \in {calls[l] : l \in 1 .. m + g} => x \in {R[z + k].id : k \in 1 .. m + g}
    BY <1>11
  <2>. QED BY <2>1, <2>2
<1>14. ResultsAt(R, z, calls)
  BY <1>1, <1>3, <1>5, <1>6, <1>10, <1>12, <1>13 DEF ResultsAt
<1>. QED BY <1>3, <1>5, <1>14

\* The caller of a result that is there is as far before it as its calls reach.
LEMMA ResultIsFilledIn ==
    ASSUME NEW s \in Seq(Message), Paired(s), NEW R, NEW pos, NEW given, Fills(s, R, pos, given),
           NEW i \in 1 .. Len(s), s[i].role = "tool"
    PROVE  \E c \in 1 .. Len(s) : /\ s[i].id \in ToSet(s[c].calls)
                                  /\ pos[c] < pos[i] /\ pos[i] <= pos[c] + Len(s[c].calls)
<1>1. PICK k \in 1 .. i - 1 : /\ Answers(s, i, k) /\ i - k \in 1 .. Len(s)
                             /\ k \in DOMAIN s[i - k].calls
  BY OneCaller
<1>2. PICK c \in 1 .. Len(s) : c = i - k /\ i = c + k
  BY <1>1
<1>3. s[c].calls[k] = s[i].id /\ k \in DOMAIN s[c].calls /\ k \in 1 .. Len(s[c].calls)
  <2>1. DOMAIN s[c].calls = 1 .. Len(s[c].calls)
    BY CallsAreSeq
  <2>. QED BY <1>1, <1>2, <2>1 DEF Answers
<1>4. PICK m \in Nat :
              /\ m + given[c] = Len(s[c].calls) /\ pos[c] \in Nat \ {0}
              /\ \A j \in 1 .. given[c] : pos[c + j] = pos[c] + m + j
  <2>1. PICK m \in Nat : RowAfter(s, R, pos, given, c, m)
    BY RowAfterCall
  <2>. QED BY <2>1 DEF RowAfter
<1>5. Given(s, c, given[c])
  BY DEF Fills
<1>6. s[c].calls[k] \in Answered(s)
  BY <1>3, IsAnswered
<1>7. k <= given[c] /\ given[c] \in Nat
  BY <1>3, <1>5, <1>6, CallsAreSeq DEF Given
<1>8. pos[i] = pos[c] + m + k
  BY <1>2, <1>4, <1>7
<1>9. s[i].id \in ToSet(s[c].calls)
  BY <1>3 DEF ToSet
<1>10. pos[c] < pos[i] /\ pos[i] <= pos[c] + Len(s[c].calls)
  <2>1. PICK z, g, l \in Nat : z = pos[c] /\ g = given[c] /\ l = Len(s[c].calls) /\ m + g = l
    BY <1>4, <1>7, SMTT(30)
  <2>2. PICK h \in Nat : pos[i] = z + m + h /\ h >= 1 /\ h <= g
    BY <1>7, <1>8, <2>1
  <2>3. z < z + m + h /\ z + m + h <= z + (m + g)
    BY <2>2
  <2>. QED BY <2>1, <2>2, <2>3
<1>. QED BY <1>9, <1>10

LEMMA RowOf ==
    ASSUME NEW S, NEW R \in Seq(S), NEW q \in Nat, NEW n \in Nat, q + n <= Len(R)
    PROVE  \A k \in 1 .. n : SubSeq(R, q + 1, q + n)[k] = R[q + k]
<1>. SUFFICES ASSUME NEW k \in 1 .. n PROVE SubSeq(R, q + 1, q + n)[k] = R[q + k]
  OBVIOUS
<1>1. \A j \in 1 .. (q + n) - (q + 1) + 1 : SubSeq(R, q + 1, q + n)[j] = R[q + 1 + j - 1]
  OBVIOUS
<1>2. k \in 1 .. (q + n) - (q + 1) + 1 /\ q + 1 + k - 1 = q + k
  OBVIOUS
<1>. QED BY <1>1, <1>2

\* Well formed, without the sequence of the results.
CallsFollowed(s) ==
    \A i \in DOMAIN s :
        /\ Len(s[i].calls) > 0 => ResultsAt(s, i, s[i].calls)
        /\ s[i].role = "tool" => \E j \in 1 .. i - 1 :
              s[i].id \in ToSet(s[j].calls) /\ i <= j + Len(s[j].calls)

LEMMA FollowedIsWellFormed ==
    ASSUME NEW sizes, NEW s \in Seq(MessagesOf(sizes)), CallsFollowed(s)
    PROVE  WellFormed(s)
<1>1. ASSUME NEW i \in DOMAIN s, Len(s[i].calls) > 0
      PROVE  /\ i + Len(s[i].calls) <= Len(s)
             /\ {SubSeq(s, i + 1, i + Len(s[i].calls))[k].id : k \in 1 .. Len(s[i].calls)}
                  = ToSet(s[i].calls)
             /\ \A k \in 1 .. Len(s[i].calls) :
                   SubSeq(s, i + 1, i + Len(s[i].calls))[k].role = "tool"
  <2>1. PICK n \in Nat : n = Len(s[i].calls)
    <3>1. s[i] \in MessagesOf(sizes)
      OBVIOUS
    <3>2. s[i].calls \in Seq(Nat)
      BY <3>1 DEF MessagesOf
    <3>. QED BY <3>2
  <2>2. /\ i + n <= Len(s) /\ \A k \in 1 .. n : s[i + k].role = "tool"
        /\ {s[i + k].id : k \in 1 .. n} = ToSet(s[i].calls)
    BY <1>1, <2>1 DEF CallsFollowed, ResultsAt
  <2>3. \A k \in 1 .. n : SubSeq(s, i + 1, i + n)[k] = s[i + k]
    BY <2>2, RowOf
  <2>4. {SubSeq(s, i + 1, i + n)[k].id : k \in 1 .. n} = {s[i + k].id : k \in 1 .. n}
    BY <2>3
  <2>. QED BY <2>1, <2>2, <2>3, <2>4
<1>2. \A i \in DOMAIN s : s[i].role = "tool" => \E j \in 1 .. i - 1 :
              s[i].id \in ToSet(s[j].calls) /\ i <= j + Len(s[j].calls)
  BY DEF CallsFollowed
<1>. QED BY <1>1, <1>2, Zenon DEF WellFormed

LEMMA FilledIsFollowed ==
    ASSUME NEW s \in Seq(Message), Paired(s), NEW R, NEW pos, NEW given, Fills(s, R, pos, given)
    PROVE  CallsFollowed(R)
<1>. SUFFICES ASSUME NEW q \in DOMAIN R
              PROVE  /\ Len(R[q].calls) > 0 => ResultsAt(R, q, R[q].calls)
                     /\ R[q].role = "tool" => \E j \in 1 .. q - 1 :
                          R[q].id \in ToSet(R[j].calls) /\ q <= j + Len(R[j].calls)
  BY Zenon DEF CallsFollowed
<1>1. R \in Seq(Message) /\ q \in 1 .. Len(R)
  BY DEF Fills
<1>2. PICK i \in 1 .. Len(s) : \E k \in 0 .. Len(s[i].calls) - given[i] : q = pos[i] + k
  BY <1>1 DEF Fills
<1>3. PICK m \in Nat : RowAfter(s, R, pos, given, i, m)
  BY RowAfterCall
<1>4. PICK z \in Nat \ {0} : z = pos[i]
  BY <1>3 DEF RowAfter
<1>5. PICK k \in 0 .. m : q = z + k
  <2>1. Given(s, i, given[i]) /\ Len(s[i].calls) \in Nat
    BY CallsAreSeq DEF Fills
  <2>2. PICK g, l \in Nat : g = given[i] /\ l = Len(s[i].calls) /\ m + g = l
    BY <1>3, <2>1 DEF Given, RowAfter
  <2>3. l - g = m
    BY <2>2
  <2>. QED BY <1>2, <1>4, <2>2, <2>3
<1>6. R[z] = s[i]
  BY <1>4 DEF Fills
<1>7. ResultsAt(R, z, s[i].calls)
  BY <1>4, CallIsFilledIn
<1>8. CASE k = 0
  <2>1. q = z /\ R[q] = s[i]
    BY <1>5, <1>6, <1>8
  <2>2. ASSUME s[i].role = "tool"
        PROVE  \E j \in 1 .. q - 1 : s[i].id \in ToSet(R[j].calls) /\ q <= j + Len(R[j].calls)
    <3>1. PICK c \in 1 .. Len(s) : /\ s[i].id \in ToSet(s[c].calls)
                                  /\ pos[c] < pos[i] /\ pos[i] <= pos[c] + Len(s[c].calls)
      BY <2>2, ResultIsFilledIn
    <3>2. R[pos[c]] = s[c] /\ pos[c] \in Nat \ {0}
      <4>1. R[pos[c]] = s[c] /\ pos \in [1 .. Len(s) + 1 -> Nat \ {0}]
        BY <3>1 DEF Fills
      <4>2. c \in 1 .. Len(s) + 1
        OBVIOUS
      <4>. QED BY <4>1, <4>2
    <3>3. pos[c] \in 1 .. q - 1
      BY <1>4, <2>1, <3>1, <3>2
    <3>. QED BY <1>4, <2>1, <3>1, <3>2, <3>3
  <2>. QED BY <1>7, <2>1, <2>2
<1>9. CASE k # 0
  <2>1. PICK x \in Nat : R[q] = Unavailable(x) /\ q = z + k /\ k \in 1 .. m /\ z \in 1 .. q - 1
    <3>1. k \in 1 .. m /\ z \in 1 .. q - 1
      BY <1>5, <1>9
    <3>2. R[q] = Unavailable(s[i].calls[given[i] + k])
      BY <1>3, <1>4, <1>5, <3>1 DEF RowAfter
    <3>3. s[i].calls[given[i] + k] \in Nat
      <4>1. s[i].calls \in Seq(Nat) /\ given[i] \in Nat
        <5>1. Given(s, i, given[i]) /\ s[i].calls \in Seq(Nat)
          BY CallsAreSeq DEF Fills
        <5>2. given[i] \in 0 .. Len(s[i].calls) /\ Len(s[i].calls) \in Nat
          BY <5>1 DEF Given
        <5>. QED BY <5>1, <5>2
      <4>2. given[i] + k \in 1 .. Len(s[i].calls)
        <5>1. PICK g, l \in Nat : g = given[i] /\ l = Len(s[i].calls) /\ m + g = l
          BY <1>3, <4>1 DEF RowAfter
        <5>. QED BY <3>1, <5>1
      <4>3. PICK calls, h : calls \in Seq(Nat) /\ calls = s[i].calls /\ h = given[i] + k
        BY <4>1
      <4>4. h \in 1 .. Len(calls)
        BY <4>2, <4>3
      <4>5. calls[h] \in Nat
        BY <4>3, <4>4, SMTT(30)
      <4>. QED BY <4>3, <4>5
    <3>. QED BY <1>5, <3>1, <3>2, <3>3
  <2>2. R[q].calls = <<>>
    BY <2>1, UnavailableIsMessage
  <2>3. PICK l \in Nat : l = Len(s[i].calls) /\ m <= l
    <3>1. given[i] \in Nat /\ m + given[i] = Len(s[i].calls)
      BY <1>3, CallsAreSeq DEF Fills, Given, RowAfter
    <3>. QED BY <3>1
  <2>4. R[q].id \in ToSet(s[i].calls)
    <3>1. k \in 1 .. Len(s[i].calls)
      BY <2>1, <2>3
    <3>2. R[q].id \in {R[z + j].id : j \in 1 .. Len(s[i].calls)}
      BY <2>1, <3>1
    <3>. QED BY <1>7, <3>2, Zenon DEF ResultsAt
  <2>5. q <= z + Len(s[i].calls)
    BY <2>1, <2>3
  <2>6. ~(Len(R[q].calls) > 0)
    BY <2>2
  <2>7. \E j \in 1 .. q - 1 : R[q].id \in ToSet(R[j].calls) /\ q <= j + Len(R[j].calls)
    BY <1>6, <2>1, <2>4, <2>5
  <2>. QED BY <2>6, <2>7
<1>. QED BY <1>8, <1>9

-----------------------------------------------------------------------------
(* What compaction leaves alone                                             *)

\* The same messages but for the sizes.
Alike(s, t) ==
    /\ Len(s) = Len(t) /\ DOMAIN s = 1 .. Len(s) /\ DOMAIN t = 1 .. Len(s)
    /\ \A i \in 1 .. Len(s) : /\ t[i].role = s[i].role /\ t[i].id = s[i].id
                              /\ t[i].calls = s[i].calls

LEMMA AlikeFollowed ==
    ASSUME NEW R \in Seq(Message), NEW t, Alike(R, t), CallsFollowed(R)
    PROVE  CallsFollowed(t)
<1>0. /\ Len(R) = Len(t) /\ DOMAIN R = 1 .. Len(R) /\ DOMAIN t = 1 .. Len(R) /\ Len(R) \in Nat
      /\ \A i \in 1 .. Len(R) : /\ t[i].role = R[i].role /\ t[i].id = R[i].id
                                /\ t[i].calls = R[i].calls
  BY DEF Alike
<1>1. ASSUME NEW i \in 1 .. Len(R), Len(t[i].calls) > 0 PROVE ResultsAt(t, i, t[i].calls)
  <2>1. PICK calls \in Seq(Nat) : calls = R[i].calls /\ calls = t[i].calls
    BY <1>0, CallsAreSeq
  <2>2. PICK n \in Nat : n = Len(calls)
    BY <2>1
  <2>3. ResultsAt(R, i, calls)
    BY <1>0, <1>1, <2>1 DEF CallsFollowed
  <2>4. /\ i + n <= Len(R) /\ \A k \in 1 .. n : R[i + k].role = "tool"
        /\ {R[i + k].id : k \in 1 .. n} = ToSet(calls)
    BY <2>2, <2>3 DEF ResultsAt
  <2>5. \A k \in 1 .. n : i + k \in 1 .. Len(R)
    BY <1>0, <2>4
  <2>6. \A k \in 1 .. n : t[i + k].role = "tool" /\ t[i + k].id = R[i + k].id
    BY <1>0, <2>4, <2>5
  <2>7. {t[i + k].id : k \in 1 .. n} = {R[i + k].id : k \in 1 .. n}
    BY <2>6
  <2>8. ResultsAt(t, i, calls)
    BY <1>0, <2>2, <2>4, <2>6, <2>7 DEF ResultsAt
  <2>. QED BY <2>1, <2>8
<1>2. ASSUME NEW i \in 1 .. Len(R), t[i].role = "tool"
      PROVE  \E j \in 1 .. i - 1 : t[i].id \in ToSet(t[j].calls) /\ i <= j + Len(t[j].calls)
  <2>1. PICK j \in 1 .. i - 1 : R[i].id \in ToSet(R[j].calls) /\ i <= j + Len(R[j].calls)
    BY <1>0, <1>2 DEF CallsFollowed
  <2>2. t[i].id = R[i].id /\ t[j].calls = R[j].calls
    BY <1>0
  <2>. QED BY <2>1, <2>2
<1>. QED BY <1>0, <1>1, <1>2, Zenon DEF CallsFollowed

LEMMA AlikePaired ==
    ASSUME NEW s \in Seq(Message), NEW t, Alike(s, t), Paired(s)
    PROVE  Paired(t)
<1>0. /\ DOMAIN s = 1 .. Len(s) /\ DOMAIN t = 1 .. Len(s) /\ Len(s) \in Nat
      /\ \A i \in 1 .. Len(s) : /\ t[i].role = s[i].role /\ t[i].id = s[i].id
                                /\ t[i].calls = s[i].calls
  BY DEF Alike
<1>1. ASSUME NEW p \in 1 .. Len(s), t[p].role = "tool"
      PROVE  t[p].calls = <<>> /\ \E k \in 1 .. p - 1 : Answers(t, p, k)
  <2>1. s[p].calls = <<>> /\ \E k \in 1 .. p - 1 : Answers(s, p, k)
    BY <1>0, <1>1 DEF Paired
  <2>2. PICK k \in 1 .. p - 1 : Answers(s, p, k)
    BY <2>1
  <2>3. p - k \in 1 .. Len(s) /\ \A q \in p - k + 1 .. p : q \in 1 .. Len(s)
    BY <1>0
  <2>4. Answers(t, p, k)
    BY <1>0, <2>2, <2>3 DEF Answers
  <2>. QED BY <1>0, <2>1, <2>4
<1>2. \A p \in 1 .. Len(s) : t[p].role = "tool" <=> t[p].id # 0
  BY <1>0 DEF Paired
<1>3. ASSUME NEW p \in 1 .. Len(s), NEW q \in 1 .. Len(s),
             NEW k \in DOMAIN t[p].calls, NEW l \in DOMAIN t[q].calls, t[p].calls[k] = t[q].calls[l]
      PROVE  p = q /\ k = l
  <2>1. /\ k \in DOMAIN s[p].calls /\ l \in DOMAIN s[q].calls
        /\ s[p].calls[k] = s[q].calls[l]
    BY <1>0, <1>3
  <2>2. \A x, y \in 1 .. Len(s) : \A g \in DOMAIN s[x].calls, h \in DOMAIN s[y].calls :
           s[x].calls[g] = s[y].calls[h] => x = y /\ g = h
    BY <1>0 DEF Paired
  <2>3. \A g \in DOMAIN s[p].calls, h \in DOMAIN s[q].calls :
           s[p].calls[g] = s[q].calls[h] => p = q /\ g = h
    BY <2>2, Zenon
  <2>. QED BY <2>1, <2>3, Zenon
<1>4. ASSUME NEW p \in DOMAIN t
      PROVE  /\ t[p].role = "tool" => t[p].calls = <<>> /\ \E k \in 1 .. p - 1 : Answers(t, p, k)
             /\ t[p].role = "tool" <=> t[p].id # 0
  BY <1>0, <1>1, <1>2
<1>. QED BY <1>0, <1>3, <1>4, Zenon DEF Paired

\* A message with another size.
LEMMA Resized ==
    ASSUME NEW x \in Message, NEW z \in Sizes \cup {"omitted"}
    PROVE  /\ [x EXCEPT !.size = z] \in MessagesOf(Sizes \cup {"omitted"})
           /\ z \in Sizes => [x EXCEPT !.size = z] \in Message
           /\ [x EXCEPT !.size = z].role = x.role /\ [x EXCEPT !.size = z].id = x.id
           /\ [x EXCEPT !.size = z].calls = x.calls /\ [x EXCEPT !.size = z].size = z
           /\ [x EXCEPT !.size = z].compactable = x.compactable
<1>1. x = [role |-> x.role, calls |-> x.calls, id |-> x.id,
           compactable |-> x.compactable, size |-> x.size]
      /\ x.role \in {"user", "assistant", "tool"} /\ x.calls \in Seq(Nat) /\ x.id \in Nat
      /\ x.compactable \in BOOLEAN /\ x.size \in Sizes
  BY DEF Message, MessagesOf
<1>2. [x EXCEPT !.size = z] = [role |-> x.role, calls |-> x.calls, id |-> x.id,
                               compactable |-> x.compactable, size |-> z]
  BY <1>1
<1>3. PICK y : y = [role |-> x.role, calls |-> x.calls, id |-> x.id,
                    compactable |-> x.compactable, size |-> z]
  OBVIOUS
<1>4. /\ y \in MessagesOf(Sizes \cup {"omitted"}) /\ (z \in Sizes => y \in Message)
      /\ y.role = x.role /\ y.id = x.id /\ y.calls = x.calls /\ y.size = z
      /\ y.compactable = x.compactable
  BY <1>1, <1>3 DEF Message, MessagesOf
<1>. QED BY <1>2, <1>3, <1>4

LEMMA TruncatedIsAlike ==
    ASSUME NEW x \in Message
    PROVE  /\ Truncated(x) \in Message /\ Truncated(x).role = x.role /\ Truncated(x).id = x.id
           /\ Truncated(x).calls = x.calls /\ Truncated(x).compactable = x.compactable
           /\ x.size # "huge" => Truncated(x).size = x.size
           /\ x.size = "huge" => Truncated(x).size \in {"huge", "cut"}
<1>1. CASE x.role = "tool" /\ x.size = "huge"
  <2>1. Truncated(x) = [x EXCEPT !.size = "cut"]
    BY <1>1 DEF Truncated
  <2>2. "cut" \in Sizes /\ "cut" \in Sizes \cup {"omitted"}
    BY DEF Sizes
  <2>. QED BY <1>1, <2>1, <2>2, Resized
<1>2. CASE ~(x.role = "tool" /\ x.size = "huge")
  BY <1>2 DEF Truncated
<1>. QED BY <1>1, <1>2

LEMMA MessagesGrow == ASSUME NEW x \in Message PROVE x \in MessagesOf(Sizes \cup {"omitted"})
BY DEF Message, MessagesOf

LEMMA Compacted ==
    ASSUME NEW R \in Seq(Message)
    PROVE  /\ Microcompact(R) \in Seq(MessagesOf(Sizes \cup {"omitted"}))
           /\ Alike(R, Microcompact(R))
           /\ \A i \in 1 .. Len(R) : Microcompact(R)[i].size = "omitted" <=> i \in ToCompact(R)
<1>1. DOMAIN R = 1 .. Len(R) /\ Len(R) \in Nat /\ \A i \in 1 .. Len(R) : R[i] \in Message
  OBVIOUS
<1>2. \A x \in Message : x.size # "omitted"
  BY DEF Message, MessagesOf, Sizes
<1>3. CASE ToCompact(R) = {}
  <2>1. Microcompact(R) = R
    BY <1>3 DEF Microcompact
  <2>2. \A i \in 1 .. Len(R) : R[i] \in MessagesOf(Sizes \cup {"omitted"})
    BY <1>1, MessagesGrow
  <2>3. R \in Seq(MessagesOf(Sizes \cup {"omitted"}))
    <3>1. PICK Z : Z = MessagesOf(Sizes \cup {"omitted"})
      OBVIOUS
    <3>2. R \in [1 .. Len(R) -> Z]
      <4>1. R = [i \in 1 .. Len(R) |-> R[i]]
        BY <1>1
      <4>2. \A i \in 1 .. Len(R) : R[i] \in Z
        BY <2>2, <3>1
      <4>. QED BY <4>1, <4>2, Zenon
    <3>3. R \in Seq(Z)
      BY <1>1, <3>2
    <3>. QED BY <3>1, <3>3
  <2>. QED BY <1>1, <1>2, <1>3, <2>1, <2>3 DEF Alike
<1>4. CASE ToCompact(R) # {}
  <2>. DEFINE P == [i \in 1 .. Len(R) |-> IF i \in ToCompact(R) THEN [R[i] EXCEPT !.size = "omitted"]
                                          ELSE Truncated(R[i])]
  <2>1. Microcompact(R) = P
    BY <1>1, <1>4 DEF Microcompact
  <2>2. ASSUME NEW i \in 1 .. Len(R)
        PROVE  /\ P[i] \in MessagesOf(Sizes \cup {"omitted"}) /\ P[i].role = R[i].role
               /\ P[i].id = R[i].id /\ P[i].calls = R[i].calls
               /\ P[i].size = "omitted" <=> i \in ToCompact(R)
    <3>1. PICK x \in Message : x = R[i]
      BY <1>1
    <3>2. CASE i \in ToCompact(R)
      <4>1. P[i] = [x EXCEPT !.size = "omitted"]
        BY <3>1, <3>2
      <4>. HIDE DEF P
      <4>2. PICK y : y = [x EXCEPT !.size = "omitted"]
        OBVIOUS
      <4>3. /\ y \in MessagesOf(Sizes \cup {"omitted"}) /\ y.role = x.role /\ y.id = x.id
            /\ y.calls = x.calls /\ y.size = "omitted"
        BY <4>2, Resized
      <4>4. P[i] = y
        BY <4>1, <4>2
      <4>. QED BY <3>1, <3>2, <4>3, <4>4
    <3>3. CASE i \notin ToCompact(R)
      <4>1. P[i] = Truncated(x)
        BY <3>1, <3>3
      <4>. HIDE DEF P
      <4>2. /\ Truncated(x) \in Message /\ Truncated(x).role = x.role /\ Truncated(x).id = x.id
            /\ Truncated(x).calls = x.calls
        BY TruncatedIsAlike
      <4>3. Truncated(x) \in MessagesOf(Sizes \cup {"omitted"}) /\ Truncated(x).size # "omitted"
        BY <1>2, <4>2, MessagesGrow
      <4>. QED BY <3>1, <3>3, <4>1, <4>2, <4>3
    <3>. QED BY <3>2, <3>3
  <2>3. DOMAIN P = 1 .. Len(R)
    OBVIOUS
  <2>4. Len(P) = Len(R) /\ P = [i \in 1 .. Len(R) |-> P[i]]
    BY <1>1
  <2>. HIDE DEF P
  <2>5. P \in Seq(MessagesOf(Sizes \cup {"omitted"}))
    <3>1. PICK Z : Z = MessagesOf(Sizes \cup {"omitted"})
      OBVIOUS
    <3>2. P \in [1 .. Len(R) -> Z]
      BY <2>2, <2>4, <3>1
    <3>3. P \in Seq(Z)
      BY <1>1, <3>2
    <3>. QED BY <3>1, <3>3
  <2>. QED BY <1>1, <2>1, <2>2, <2>3, <2>4, <2>5 DEF Alike
<1>. QED BY <1>3, <1>4

\* What the modifier makes of the end of a log.
LEMMA ModifiedIsWellFormed ==
    ASSUME NEW s \in Seq(Message), Paired(s), NEW a \in 1 .. Len(s) + 1
    PROVE  /\ BuildMessageModifier(SubSeq(s, a, Len(s))) \in Seq(MessagesOf(Sizes \cup {"omitted"}))
           /\ WellFormed(BuildMessageModifier(SubSeq(s, a, Len(s))))
<1>1. PICK b \in a .. Len(s) + 1 :
              /\ DropOrphanToolResults(SubSeq(s, a, Len(s))) = SubSeq(s, b, Len(s))
              /\ Paired(SubSeq(s, b, Len(s)))
  BY OrphansFirst
<1>2. PICK v : v = SubSeq(s, b, Len(s))
  OBVIOUS
<1>3. b \in 1 .. Len(s) + 1
  OBVIOUS
<1>4. v \in Seq(Message) /\ Paired(v)
  BY <1>1, <1>2, <1>3, FromOn
<1>5. PICK R : R = BackfillMissingToolResults(v)
  OBVIOUS
<1>6. PICK pos, given : Fills(v, R, pos, given)
  BY <1>4, <1>5, FilledIn
<1>7. CallsFollowed(R) /\ R \in Seq(Message)
  <2>1. R \in Seq(Message)
    BY <1>6 DEF Fills
  <2>. QED BY <1>4, <1>6, <2>1, FilledIsFollowed
<1>8. PICK P : P = Microcompact(R)
  OBVIOUS
<1>9. P \in Seq(MessagesOf(Sizes \cup {"omitted"})) /\ Alike(R, P)
  BY <1>7, <1>8, Compacted
<1>10. CallsFollowed(P)
  BY <1>7, <1>9, AlikeFollowed
<1>11. WellFormed(P)
  BY <1>9, <1>10, FollowedIsWellFormed
<1>12. BuildMessageModifier(SubSeq(s, a, Len(s))) = P
  BY <1>1, <1>2, <1>5, <1>8 DEF BuildMessageModifier
<1>. QED BY <1>9, <1>11, <1>12

-----------------------------------------------------------------------------
(* The log grows                                                            *)

LEMMA Appended ==
    ASSUME NEW S, NEW s \in Seq(S), NEW x \in S
    PROVE  /\ Append(s, x) \in Seq(S) /\ Len(Append(s, x)) = Len(s) + 1
           /\ DOMAIN Append(s, x) = 1 .. Len(s) + 1 /\ Append(s, x)[Len(s) + 1] = x
           /\ \A i \in 1 .. Len(s) : Append(s, x)[i] = s[i]
OBVIOUS

LEMMA AnswersStays ==
    ASSUME NEW s, NEW t, NEW n \in Nat, NEW p \in 1 .. n, NEW k \in 1 .. p - 1, Answers(s, p, k),
           \A i \in 1 .. n : t[i] = s[i]
    PROVE  Answers(t, p, k)
<1>1. p - k \in 1 .. n /\ \A q \in p - k + 1 .. p : q \in 1 .. n
  OBVIOUS
<1>. QED BY <1>1 DEF Answers

\* A message that is no result, with calls of its own.
LEMMA PairedWithCalls ==
    ASSUME NEW s \in Seq(Message), Paired(s), NEW m \in Nat, CallsUpTo(s, m), NEW l \in Nat,
           NEW x \in Message, x.role # "tool", x.id = 0,
           DOMAIN x.calls = 1 .. l, \A k \in 1 .. l : x.calls[k] = m + k
    PROVE  Paired(Append(s, x)) /\ CallsUpTo(Append(s, x), m + l)
<1>1. PICK t, n : t = Append(s, x) /\ n = Len(s)
  OBVIOUS
<1>2. /\ t \in Seq(Message) /\ n \in Nat /\ DOMAIN t = 1 .. n + 1 /\ DOMAIN s = 1 .. n
      /\ t[n + 1] = x /\ \A i \in 1 .. n : t[i] = s[i]
  <2>1. /\ Append(s, x) \in Seq(Message) /\ DOMAIN Append(s, x) = 1 .. Len(s) + 1
        /\ Append(s, x)[Len(s) + 1] = x /\ \A i \in 1 .. Len(s) : Append(s, x)[i] = s[i]
    BY Appended
  <2>. QED BY <1>1, <2>1
<1>3. ASSUME NEW p \in 1 .. n + 1
      PROVE  /\ t[p].role = "tool" => t[p].calls = <<>> /\ \E k \in 1 .. p - 1 : Answers(t, p, k)
             /\ t[p].role = "tool" <=> t[p].id # 0
  <2>1. CASE p = n + 1
    BY <1>2, <2>1
  <2>2. CASE p # n + 1
    <3>1. p \in 1 .. n /\ t[p] = s[p]
      BY <1>2, <2>2
    <3>2. /\ s[p].role = "tool" => s[p].calls = <<>> /\ \E k \in 1 .. p - 1 : Answers(s, p, k)
          /\ s[p].role = "tool" <=> s[p].id # 0
      BY <1>2, <3>1 DEF Paired
    <3>3. ASSUME NEW k \in 1 .. p - 1, Answers(s, p, k) PROVE Answers(t, p, k)
      BY <1>2, <3>1, <3>3, AnswersStays
    <3>. QED BY <3>1, <3>2, <3>3
  <2>. QED BY <2>1, <2>2
<1>4. \A p \in 1 .. n : \A k \in DOMAIN s[p].calls : s[p].calls[k] \in 1 .. m
  BY <1>2 DEF CallsUpTo
<1>5. ASSUME NEW p \in 1 .. n + 1, NEW q \in 1 .. n + 1,
             NEW k \in DOMAIN t[p].calls, NEW h \in DOMAIN t[q].calls, t[p].calls[k] = t[q].calls[h]
      PROVE  p = q /\ k = h
  <2>1. CASE p = n + 1 /\ q = n + 1
    <3>1. k \in 1 .. l /\ h \in 1 .. l /\ m + k = m + h
      BY <1>2, <1>5, <2>1
    <3>. QED BY <2>1, <3>1
  <2>2. CASE p = n + 1 /\ q # n + 1
    <3>1. q \in 1 .. n /\ t[q] = s[q] /\ t[p] = x
      BY <1>2, <2>2
    <3>2. t[q].calls[h] \in 1 .. m
      BY <1>4, <3>1
    <3>3. k \in 1 .. l /\ t[p].calls[k] = m + k
      BY <3>1
    <3>. QED BY <1>5, <3>2, <3>3
  <2>3. CASE p # n + 1 /\ q = n + 1
    <3>1. p \in 1 .. n /\ t[p] = s[p] /\ t[q] = x
      BY <1>2, <2>3
    <3>2. t[p].calls[k] \in 1 .. m
      BY <1>4, <3>1
    <3>3. h \in 1 .. l /\ t[q].calls[h] = m + h
      BY <3>1
    <3>. QED BY <1>5, <3>2, <3>3
  <2>4. CASE p # n + 1 /\ q # n + 1
    <3>1. p \in DOMAIN s /\ t[p] = s[p] /\ q \in DOMAIN s /\ t[q] = s[q]
      BY <1>2, <2>4
    <3>2. \A y, z \in DOMAIN s : \A g \in DOMAIN s[y].calls, j \in DOMAIN s[z].calls :
             s[y].calls[g] = s[z].calls[j] => y = z /\ g = j
      BY DEF Paired
    <3>3. \A g \in DOMAIN s[p].calls, j \in DOMAIN s[q].calls :
             s[p].calls[g] = s[q].calls[j] => p = q /\ g = j
      BY <3>1, <3>2, Zenon
    <3>4. k \in DOMAIN s[p].calls /\ h \in DOMAIN s[q].calls /\ s[p].calls[k] = s[q].calls[h]
      BY <1>5, <3>1
    <3>. QED BY <3>3, <3>4, Zenon
  <2>. QED BY <2>1, <2>2, <2>3, <2>4
<1>6. ASSUME NEW p \in 1 .. n + 1, NEW k \in DOMAIN t[p].calls PROVE t[p].calls[k] \in 1 .. m + l
  <2>1. CASE p = n + 1
    <3>1. k \in 1 .. l /\ t[p].calls[k] = m + k
      BY <1>2, <2>1
    <3>. QED BY <3>1
  <2>2. CASE p # n + 1
    <3>1. p \in 1 .. n /\ t[p] = s[p]
      BY <1>2, <2>2
    <3>2. t[p].calls[k] \in 1 .. m
      BY <1>4, <3>1
    <3>. QED BY <3>2
  <2>. QED BY <2>1, <2>2
<1>7. Paired(t)
  BY <1>2, <1>3, <1>5, Zenon DEF Paired
<1>8. CallsUpTo(t, m + l)
  BY <1>2, <1>6, Zenon DEF CallsUpTo
<1>. QED BY <1>1, <1>7, <1>8

LEMMA PairedWithout ==
    ASSUME NEW s \in Seq(Message), Paired(s), NEW m \in Nat, CallsUpTo(s, m),
           NEW x \in Message, x.role # "tool", x.id = 0, x.calls = <<>>
    PROVE  Paired(Append(s, x)) /\ CallsUpTo(Append(s, x), m)
<1>1. PICK l \in Nat : l = 0
  OBVIOUS
<1>2. DOMAIN x.calls = 1 .. l /\ \A k \in 1 .. l : x.calls[k] = m + k
  BY <1>1
<1>3. Paired(Append(s, x)) /\ CallsUpTo(Append(s, x), m + l)
  BY <1>2, PairedWithCalls
<1>4. m + l = m
  BY <1>1
<1>. QED BY <1>3, <1>4

LEMMA Joined ==
    ASSUME NEW S, NEW s \in Seq(S), NEW r \in Seq(S)
    PROVE  /\ s \o r \in Seq(S) /\ Len(s \o r) = Len(s) + Len(r)
           /\ DOMAIN (s \o r) = 1 .. Len(s) + Len(r)
           /\ \A i \in 1 .. Len(s) : (s \o r)[i] = s[i]
           /\ \A k \in 1 .. Len(r) : (s \o r)[Len(s) + k] = r[k]
OBVIOUS

\* The first results of the last message.
LEMMA PairedWithResults ==
    ASSUME NEW s \in Seq(Message), Paired(s), NEW m \in Nat, CallsUpTo(s, m), s # <<>>,
           NEW r \in Seq(Message), Len(r) <= Len(s[Len(s)].calls),
           \A k \in 1 .. Len(r) : /\ r[k].role = "tool" /\ r[k].calls = <<>>
                                  /\ r[k].id = s[Len(s)].calls[k]
    PROVE  Paired(s \o r) /\ CallsUpTo(s \o r, m)
<1>1. PICK n, d \in Nat : n = Len(s) /\ d = Len(r) /\ n >= 1
  OBVIOUS
<1>2. PICK t : t = s \o r
  OBVIOUS
<1>3. PICK calls \in Seq(Nat) : calls = s[n].calls /\ d <= Len(calls)
  BY <1>1, CallsAreSeq
<1>4. /\ t \in Seq(Message) /\ DOMAIN t = 1 .. n + d /\ DOMAIN s = 1 .. n
      /\ \A i \in 1 .. n : t[i] = s[i]
      /\ \A k \in 1 .. d : t[n + k] = r[k]
  <2>1. /\ s \o r \in Seq(Message) /\ DOMAIN (s \o r) = 1 .. Len(s) + Len(r)
        /\ \A i \in 1 .. Len(s) : (s \o r)[i] = s[i]
        /\ \A k \in 1 .. Len(r) : (s \o r)[Len(s) + k] = r[k]
    BY Joined
  <2>. QED BY <1>1, <1>2, <2>1
<1>5. ASSUME NEW k \in 1 .. d
      PROVE  /\ t[n + k].role = "tool" /\ t[n + k].calls = <<>> /\ t[n + k].id = calls[k]
             /\ calls[k] \in 1 .. m
  <2>1. r[k].role = "tool" /\ r[k].calls = <<>> /\ r[k].id = calls[k]
    BY <1>1, <1>3
  <2>2. k \in DOMAIN calls
    BY <1>3
  <2>3. calls[k] \in 1 .. m
    BY <1>1, <1>3, <1>4, <2>2 DEF CallsUpTo
  <2>. QED BY <1>4, <2>1, <2>3
<1>6. ASSUME NEW p \in 1 .. n + d, p > n PROVE \E k \in 1 .. d : p = n + k
  <2>1. p - n \in 1 .. d /\ p = n + (p - n)
    BY <1>6
  <2>. QED BY <2>1
<1>7. ASSUME NEW k \in 1 .. d PROVE Answers(t, n + k, k)
  <2>1. (n + k) - k = n /\ t[n].calls = calls /\ k <= Len(calls)
    BY <1>1, <1>3, <1>4
  <2>2. ASSUME NEW q \in n + 1 .. n + k PROVE t[q].role = "tool"
    <3>1. q \in 1 .. n + d /\ q > n
      OBVIOUS
    <3>2. PICK j \in 1 .. d : q = n + j
      BY <1>6, <3>1
    <3>. QED BY <1>5, <3>2
  <2>. QED BY <1>5, <2>1, <2>2 DEF Answers
<1>8. ASSUME NEW p \in 1 .. n + d
      PROVE  /\ t[p].role = "tool" => t[p].calls = <<>> /\ \E k \in 1 .. p - 1 : Answers(t, p, k)
             /\ t[p].role = "tool" <=> t[p].id # 0
  <2>1. CASE p > n
    <3>1. PICK k \in 1 .. d : p = n + k
      BY <1>6, <2>1
    <3>2. k \in 1 .. p - 1 /\ Answers(t, p, k)
      BY <1>1, <1>7, <3>1
    <3>3. t[p].role = "tool" /\ t[p].calls = <<>> /\ t[p].id \in 1 .. m
      BY <1>5, <3>1
    <3>4. t[p].id # 0
      BY <3>3
    <3>. QED BY <3>2, <3>3, <3>4
  <2>2. CASE ~(p > n)
    <3>1. p \in 1 .. n /\ t[p] = s[p]
      BY <1>4, <2>2
    <3>2. /\ s[p].role = "tool" => s[p].calls = <<>> /\ \E k \in 1 .. p - 1 : Answers(s, p, k)
          /\ s[p].role = "tool" <=> s[p].id # 0
      BY <1>4, <3>1 DEF Paired
    <3>3. ASSUME NEW k \in 1 .. p - 1, Answers(s, p, k) PROVE Answers(t, p, k)
      BY <1>4, <3>1, <3>3, AnswersStays
    <3>. QED BY <3>1, <3>2, <3>3
  <2>. QED BY <2>1, <2>2
<1>9. ASSUME NEW p \in 1 .. n + d, NEW k \in DOMAIN t[p].calls PROVE p \in 1 .. n /\ t[p] = s[p]
  <2>1. ~(p > n)
    <3>1. ASSUME p > n PROVE FALSE
      <4>1. PICK j \in 1 .. d : p = n + j
        BY <1>6, <3>1
      <4>2. t[p].calls = <<>>
        BY <1>5, <4>1
      <4>. QED BY <1>9, <4>2
    <3>. QED BY <3>1
  <2>. QED BY <1>4, <2>1
<1>10. ASSUME NEW p \in 1 .. n + d, NEW q \in 1 .. n + d,
              NEW k \in DOMAIN t[p].calls, NEW h \in DOMAIN t[q].calls, t[p].calls[k] = t[q].calls[h]
       PROVE  p = q /\ k = h
  <2>1. p \in DOMAIN s /\ t[p] = s[p] /\ q \in DOMAIN s /\ t[q] = s[q]
    BY <1>4, <1>9
  <2>2. \A y, z \in DOMAIN s : \A g \in DOMAIN s[y].calls, j \in DOMAIN s[z].calls :
           s[y].calls[g] = s[z].calls[j] => y = z /\ g = j
    BY DEF Paired
  <2>3. \A g \in DOMAIN s[p].calls, j \in DOMAIN s[q].calls :
           s[p].calls[g] = s[q].calls[j] => p = q /\ g = j
    BY <2>1, <2>2, Zenon
  <2>4. k \in DOMAIN s[p].calls /\ h \in DOMAIN s[q].calls /\ s[p].calls[k] = s[q].calls[h]
    BY <1>10, <2>1
  <2>. QED BY <2>3, <2>4, Zenon
<1>11. ASSUME NEW p \in 1 .. n + d, NEW k \in DOMAIN t[p].calls PROVE t[p].calls[k] \in 1 .. m
  <2>1. p \in DOMAIN s /\ t[p] = s[p]
    BY <1>4, <1>9
  <2>. QED BY <1>11, <2>1 DEF CallsUpTo
<1>12. Paired(t)
  BY <1>4, <1>8, <1>10, Zenon DEF Paired
<1>13. CallsUpTo(t, m)
  BY <1>4, <1>11, Zenon DEF CallsUpTo
<1>. QED BY <1>2, <1>12, <1>13

\* Without what was added last.
LEMMA PairedBefore ==
    ASSUME NEW s \in Seq(Message), NEW r \in Seq(Message), NEW m \in Nat,
           Paired(s \o r), CallsUpTo(s \o r, m)
    PROVE  Paired(s) /\ CallsUpTo(s, m)
<1>1. PICK n, d \in Nat : n = Len(s) /\ d = Len(r)
  OBVIOUS
<1>2. PICK t : t = s \o r
  OBVIOUS
<1>3. DOMAIN t = 1 .. n + d /\ DOMAIN s = 1 .. n /\ \A i \in 1 .. n : i \in DOMAIN t /\ t[i] = s[i]
  <2>1. DOMAIN (s \o r) = 1 .. Len(s) + Len(r) /\ \A i \in 1 .. Len(s) : (s \o r)[i] = s[i]
    BY Joined
  <2>. QED BY <1>1, <1>2, <2>1
<1>4. Paired(t) /\ CallsUpTo(t, m)
  BY <1>2
<1>5. ASSUME NEW p \in 1 .. n
      PROVE  /\ s[p].role = "tool" => s[p].calls = <<>> /\ \E k \in 1 .. p - 1 : Answers(s, p, k)
             /\ s[p].role = "tool" <=> s[p].id # 0
  <2>1. /\ t[p].role = "tool" => t[p].calls = <<>> /\ \E k \in 1 .. p - 1 : Answers(t, p, k)
        /\ t[p].role = "tool" <=> t[p].id # 0
    BY <1>3, <1>4 DEF Paired
  <2>2. ASSUME NEW k \in 1 .. p - 1, Answers(t, p, k) PROVE Answers(s, p, k)
    <3>1. \A i \in 1 .. n : s[i] = t[i]
      BY <1>3
    <3>. QED BY <2>2, <3>1, AnswersStays
  <2>. QED BY <1>3, <2>1, <2>2
<1>6. ASSUME NEW p \in 1 .. n, NEW q \in 1 .. n,
              NEW k \in DOMAIN s[p].calls, NEW h \in DOMAIN s[q].calls, s[p].calls[k] = s[q].calls[h]
       PROVE  p = q /\ k = h
  <2>1. p \in DOMAIN t /\ t[p] = s[p] /\ q \in DOMAIN t /\ t[q] = s[q]
    BY <1>3
  <2>2. \A y, z \in DOMAIN t : \A g \in DOMAIN t[y].calls, j \in DOMAIN t[z].calls :
           t[y].calls[g] = t[z].calls[j] => y = z /\ g = j
    BY <1>4 DEF Paired
  <2>3. \A g \in DOMAIN t[p].calls, j \in DOMAIN t[q].calls :
           t[p].calls[g] = t[q].calls[j] => p = q /\ g = j
    BY <2>1, <2>2, Zenon
  <2>4. k \in DOMAIN t[p].calls /\ h \in DOMAIN t[q].calls /\ t[p].calls[k] = t[q].calls[h]
    BY <1>6, <2>1
  <2>. QED BY <2>3, <2>4, Zenon
<1>7. \A p \in 1 .. n : \A k \in DOMAIN s[p].calls : s[p].calls[k] \in 1 .. m
  BY <1>3, <1>4 DEF CallsUpTo
<1>. QED BY <1>3, <1>5, <1>6, <1>7, Zenon DEF Paired, CallsUpTo

-----------------------------------------------------------------------------
(* The steps                                                                *)

LEMMA LeastExists ==
    ASSUME NEW A \in SUBSET Nat, A # {}
    PROVE  \E x \in A : \A y \in A : x <= y
<1>1. PICK x \in A : \A y \in A : <<y, x>> \notin OpToRel(<, Nat)
  BY WFMin, NatLessThanWellFounded, Zenon
<1>2. \A y \in A : ~(y < x)
  BY <1>1, Zenon DEF OpToRel
<1>3. \A y \in A : y \in Nat /\ x \in Nat
  OBVIOUS
<1>4. \A y \in A : x <= y
  BY <1>2, <1>3
<1>. QED BY <1>4

LEMMA PlainMessages ==
    /\ User \in Message /\ User.role = "user" /\ User.id = 0 /\ User.calls = <<>>
    /\ \A c \in Seq(Nat) : /\ Assistant(c) \in Message /\ Assistant(c).role = "assistant"
                           /\ Assistant(c).id = 0 /\ Assistant(c).calls = c
    /\ \A x \in Nat : \A r \in Results :
          /\ Msg("tool", <<>>, x, r) \in Message /\ Msg("tool", <<>>, x, r).role = "tool"
          /\ Msg("tool", <<>>, x, r).calls = <<>> /\ Msg("tool", <<>>, x, r).id = x
<1>1. User \in Message /\ User.role = "user" /\ User.id = 0 /\ User.calls = <<>>
  BY DEF User, Msg, Plain, Message, MessagesOf, Sizes
<1>2. \A c \in Seq(Nat) : /\ Assistant(c) \in Message /\ Assistant(c).role = "assistant"
                          /\ Assistant(c).id = 0 /\ Assistant(c).calls = c
  BY DEF Assistant, Msg, Plain, Message, MessagesOf, Sizes
<1>3. ASSUME NEW x \in Nat, NEW r \in Results
      PROVE  /\ Msg("tool", <<>>, x, r) \in Message /\ Msg("tool", <<>>, x, r).role = "tool"
             /\ Msg("tool", <<>>, x, r).calls = <<>> /\ Msg("tool", <<>>, x, r).id = x
  <2>1. r.compactable \in BOOLEAN /\ r.size \in Sizes
    BY PromptAssumption DEF Sizes
  <2>. QED BY <2>1 DEF Msg, Message, MessagesOf
<1>. QED BY <1>1, <1>2, <1>3

LEMMA PromptStarts == PromptInit => PromptInv
<1>. SUFFICES ASSUME PromptInit PROVE PromptInv
  OBVIOUS
<1>1. /\ messages = <<>> /\ turn = <<>> /\ prompt = <<>> /\ lastConsolidated = 0
      /\ ids = 0 /\ phase = "idle"
  BY DEF PromptInit
<1>2. Log = <<>>
  BY <1>1 DEF Log
<1>3. Paired(<<>>) /\ CallsUpTo(<<>>, 0) /\ WellFormed(<<>>)
  BY DEF Paired, CallsUpTo, WellFormed
<1>4. TurnOK
  BY <1>1, <1>2, <1>3 DEF TurnOK
<1>. QED BY <1>1, <1>3, <1>4 DEF PromptInv

LEMMA HistoryInSession ==
    ASSUME messages \in Seq(Message), lastConsolidated \in 0 .. Len(messages)
    PROVE  HistoryStart \in 1 .. Len(messages) + 1
<1>. DEFINE users == {i \in {j \in DOMAIN messages : j > lastConsolidated} : messages[i].role = "user"}
<1>1. users \subseteq 1 .. Len(messages)
  OBVIOUS
<1>2. HistoryStart = IF users = {} THEN lastConsolidated + 1
                     ELSE CHOOSE i \in users : \A j \in users : i <= j
  BY DEF HistoryStart
<1>. HIDE DEF users
<1>3. CASE users = {}
  BY <1>2, <1>3
<1>4. CASE users # {}
  <2>1. \E i \in users : \A j \in users : i <= j
    <3>1. users \in SUBSET Nat
      BY <1>1
    <3>. QED BY <1>4, <3>1, LeastExists
  <2>2. HistoryStart \in users
    BY <1>2, <1>4, <2>1
  <2>. QED BY <1>1, <2>2
<1>. QED BY <1>3, <1>4

\* What the model is sent is the end of the log.
LEMMA InputIsEnd ==
    ASSUME messages \in Seq(Message), turn \in Seq(Message), from \in 1 .. Len(messages) + 1
    PROVE  /\ Log \in Seq(Message) /\ from \in 1 .. Len(Log) + 1
           /\ Input = SubSeq(Log, from, Len(Log))
<1>1. PICK n, d \in Nat : n = Len(messages) /\ d = Len(turn) /\ from \in 1 .. n + 1
  OBVIOUS
<1>2. PICK t : t = Log
  OBVIOUS
<1>3. /\ t \in Seq(Message) /\ Len(t) = n + d
      /\ \A i \in 1 .. n : t[i] = messages[i]
      /\ \A k \in 1 .. d : t[n + k] = turn[k]
  BY <1>1, <1>2, Joined DEF Log
<1>4. PICK u : u = SubSeq(messages, from, n)
  OBVIOUS
<1>5. u \in Seq(Message) /\ Len(u) = n - from + 1
      /\ \A i \in 1 .. n - from + 1 : u[i] = messages[from - 1 + i]
  BY <1>1, <1>4, FromOn
<1>6. PICK v : v = u \o turn
  OBVIOUS
<1>7. PICK h \in Nat : h = n - from + 1 /\ n = from - 1 + h
  BY <1>1
<1>8. /\ v \in Seq(Message) /\ Len(v) = h + d
      /\ \A i \in 1 .. h : v[i] = u[i]
      /\ \A k \in 1 .. d : v[h + k] = turn[k]
  <2>1. /\ u \o turn \in Seq(Message) /\ Len(u \o turn) = Len(u) + Len(turn)
        /\ \A i \in 1 .. Len(u) : (u \o turn)[i] = u[i]
        /\ \A k \in 1 .. Len(turn) : (u \o turn)[Len(u) + k] = turn[k]
    <3>1. PICK x, y \in Seq(Message) : x = u /\ y = turn
      BY <1>5
    <3>2. /\ x \o y \in Seq(Message) /\ Len(x \o y) = Len(x) + Len(y)
          /\ \A i \in 1 .. Len(x) : (x \o y)[i] = x[i]
          /\ \A k \in 1 .. Len(y) : (x \o y)[Len(x) + k] = y[k]
      BY Joined
    <3>. QED BY <3>1, <3>2
  <2>2. Len(u) = h /\ Len(turn) = d
    BY <1>1, <1>5, <1>7
  <2>. QED BY <1>6, <2>1, <2>2
<1>9. PICK w : w = SubSeq(t, from, n + d)
  OBVIOUS
<1>10. from \in 1 .. Len(t) + 1
  BY <1>1, <1>3
<1>11. /\ w \in Seq(Message) /\ Len(w) = h + d
       /\ \A i \in 1 .. h + d : w[i] = t[from - 1 + i]
  <2>1. /\ SubSeq(t, from, Len(t)) \in Seq(Message) /\ Len(SubSeq(t, from, Len(t))) = Len(t) - from + 1
        /\ \A i \in 1 .. Len(t) - from + 1 : SubSeq(t, from, Len(t))[i] = t[from - 1 + i]
    BY <1>3, <1>10, FromOn
  <2>2. Len(t) - from + 1 = h + d
    BY <1>1, <1>3, <1>7
  <2>. QED BY <1>3, <1>9, <2>1, <2>2
<1>12. ASSUME NEW i \in 1 .. h + d PROVE v[i] = w[i]
  <2>1. CASE i <= h
    <3>1. i \in 1 .. h /\ from - 1 + i \in 1 .. n
      BY <1>1, <1>7, <2>1
    <3>. QED BY <1>3, <1>5, <1>7, <1>8, <1>11, <3>1
  <2>2. CASE ~(i <= h)
    <3>1. PICK k \in 1 .. d : i = h + k
      <4>1. i - h \in 1 .. d /\ i = h + (i - h)
        BY <2>2
      <4>. QED BY <4>1
    <3>2. from - 1 + i = n + k
      BY <1>1, <1>7, <3>1
    <3>3. w[i] = t[n + k]
      BY <1>11, <3>2
    <3>. QED BY <1>3, <1>8, <3>1, <3>3
  <2>. QED BY <2>1, <2>2
<1>13. v = w
  BY <1>8, <1>11, <1>12
<1>. QED BY <1>1, <1>2, <1>3, <1>4, <1>6, <1>9, <1>10, <1>13 DEF Input

LEMMA CutIsAlike ==
    ASSUME NEW out, messages \in Seq(Message)
    PROVE  CutInPlace(out) \in Seq(Message) /\ Alike(messages, CutInPlace(out))
<1>1. PICK c : c = CutInPlace(out)
  OBVIOUS
<1>2. PICK n \in Nat : n = Len(messages) /\ DOMAIN messages = 1 .. n
                      /\ \A i \in 1 .. n : messages[i] \in Message
  OBVIOUS
<1>3. c = [i \in 1 .. n |->
             IF \E k \in DOMAIN out : out[k].id = messages[i].id /\ out[k].size = "cut"
             THEN Truncated(messages[i]) ELSE messages[i]]
  BY <1>1, <1>2 DEF CutInPlace
<1>4. ASSUME NEW i \in 1 .. n
      PROVE  /\ c[i] \in Message /\ c[i].role = messages[i].role /\ c[i].id = messages[i].id
             /\ c[i].calls = messages[i].calls
  <2>1. c[i] = Truncated(messages[i]) \/ c[i] = messages[i]
    BY <1>3
  <2>2. messages[i] \in Message
    BY <1>2
  <2>. QED BY <2>1, <2>2, TruncatedIsAlike
<1>5. DOMAIN c = 1 .. n /\ c = [i \in 1 .. n |-> c[i]]
  BY <1>3
<1>6. c \in [1 .. n -> Message]
  BY <1>4, <1>5, Zenon
<1>7. c \in Seq(Message) /\ Len(c) = n
  BY <1>5, <1>6
<1>. QED BY <1>1, <1>2, <1>4, <1>5, <1>7 DEF Alike

\* The log keeps its order when the session's part of it is replaced by one like it.
LEMMA LogIsAlike ==
    ASSUME NEW s \in Seq(Message), NEW c \in Seq(Message), NEW r \in Seq(Message), Alike(s, c),
           NEW m, Paired(s \o r), CallsUpTo(s \o r, m)
    PROVE  Paired(c \o r) /\ CallsUpTo(c \o r, m)
<1>0. Len(s) = Len(c) /\ Len(s) \in Nat /\ Len(r) \in Nat
  BY DEF Alike
<1>1. PICK n, d \in Nat : n = Len(s) /\ d = Len(r) /\ n = Len(c)
  BY <1>0
<1>2. PICK t, u : t = s \o r /\ u = c \o r
  OBVIOUS
<1>3. /\ t \in Seq(Message) /\ Len(t) = n + d /\ DOMAIN t = 1 .. n + d
      /\ \A i \in 1 .. n : t[i] = s[i]
      /\ \A k \in 1 .. d : t[n + k] = r[k]
  <2>1. /\ s \o r \in Seq(Message) /\ Len(s \o r) = Len(s) + Len(r)
        /\ DOMAIN (s \o r) = 1 .. Len(s) + Len(r)
        /\ \A i \in 1 .. Len(s) : (s \o r)[i] = s[i]
        /\ \A k \in 1 .. Len(r) : (s \o r)[Len(s) + k] = r[k]
    BY Joined
  <2>. QED BY <1>1, <1>2, <2>1
<1>4. /\ u \in Seq(Message) /\ Len(u) = n + d /\ DOMAIN u = 1 .. n + d
      /\ \A i \in 1 .. n : u[i] = c[i]
      /\ \A k \in 1 .. d : u[n + k] = r[k]
  <2>1. /\ c \o r \in Seq(Message) /\ Len(c \o r) = Len(c) + Len(r)
        /\ DOMAIN (c \o r) = 1 .. Len(c) + Len(r)
        /\ \A i \in 1 .. Len(c) : (c \o r)[i] = c[i]
        /\ \A k \in 1 .. Len(r) : (c \o r)[Len(c) + k] = r[k]
    BY Joined
  <2>. QED BY <1>1, <1>2, <2>1
<1>5. ASSUME NEW i \in 1 .. n + d
      PROVE  u[i].role = t[i].role /\ u[i].id = t[i].id /\ u[i].calls = t[i].calls
  <2>1. CASE i <= n
    <3>1. i \in 1 .. n
      BY <2>1
    <3>2. c[i].role = s[i].role /\ c[i].id = s[i].id /\ c[i].calls = s[i].calls
      BY <1>1, <3>1 DEF Alike
    <3>. QED BY <1>3, <1>4, <3>1, <3>2
  <2>2. CASE ~(i <= n)
    <3>1. PICK k \in 1 .. d : i = n + k
      <4>1. i - n \in 1 .. d /\ i = n + (i - n)
        BY <2>2
      <4>. QED BY <4>1
    <3>. QED BY <1>3, <1>4, <3>1
  <2>. QED BY <2>1, <2>2
<1>6. Alike(t, u)
  BY <1>3, <1>4, <1>5 DEF Alike
<1>7. Paired(u)
  BY <1>2, <1>3, <1>6, AlikePaired
<1>8. CallsUpTo(u, m)
  <2>1. \A p \in 1 .. n + d : \A k \in DOMAIN t[p].calls : t[p].calls[k] \in 1 .. m
    BY <1>2, <1>3 DEF CallsUpTo
  <2>. QED BY <1>4, <1>5, <2>1 DEF CallsUpTo
<1>. QED BY <1>2, <1>7, <1>8

LEMMA AppendIsInner ==
    ASSUME NEW S, NEW s \in Seq(S), NEW r \in Seq(S), NEW x \in S
    PROVE  s \o Append(r, x) = Append(s \o r, x)
OBVIOUS

LEMMA JoinedTwice ==
    ASSUME NEW S, NEW s \in Seq(S), NEW r \in Seq(S), NEW v \in Seq(S)
    PROVE  s \o (r \o v) = (s \o r) \o v
OBVIOUS

LEMMA LastOfLog ==
    ASSUME NEW S, NEW s \in Seq(S), NEW r \in Seq(S), r # <<>>
    PROVE  (s \o r)[Len(s \o r)] = Last(r) /\ Last(r) = r[Len(r)] /\ s \o r # <<>>
BY DEF Last

LEMMA TurnBegins ==
    ASSUME TurnOK, BeginTurn PROVE TurnOK'
<1>1. /\ messages \in Seq(Message) /\ ids \in Nat /\ lastConsolidated \in 0 .. Len(messages)
      /\ turn = <<>> /\ Paired(messages \o turn) /\ CallsUpTo(messages \o turn, ids)
  BY DEF TurnOK, BeginTurn, Log
<1>2. /\ from' = HistoryStart /\ turn' = <<User>> /\ phase' = "asking"
      /\ messages' = messages /\ lastConsolidated' = lastConsolidated /\ ids' = ids
  BY DEF BeginTurn
<1>3. from' \in 1 .. Len(messages) + 1
  BY <1>1, <1>2, HistoryInSession
<1>4. messages \o turn = messages /\ messages \o <<User>> = Append(messages, User)
  BY <1>1, PlainMessages
<1>5. Paired(messages) /\ CallsUpTo(messages, ids)
  BY <1>1, <1>4
<1>6. Paired(Append(messages, User)) /\ CallsUpTo(Append(messages, User), ids)
  <2>1. User \in Message /\ User.role # "tool" /\ User.id = 0 /\ User.calls = <<>>
    BY PlainMessages
  <2>. QED BY <1>1, <1>5, <2>1, PairedWithout
<1>7. Log' = Append(messages, User)
  BY <1>2, <1>4 DEF Log
<1>8. turn' \in Seq(Message) /\ turn' # <<>> /\ turn'[1] = User
  BY <1>2, PlainMessages
<1>. QED BY <1>1, <1>2, <1>3, <1>6, <1>7, <1>8 DEF TurnOK

LEMMA TurnAsks ==
    ASSUME TurnOK, Ask
    PROVE  /\ TurnOK'
           /\ prompt' \in Seq(MessagesOf(Sizes \cup {"omitted"})) /\ WellFormed(prompt')
<1>1. /\ messages \in Seq(Message) /\ turn \in Seq(Message) /\ ids \in Nat
      /\ lastConsolidated \in 0 .. Len(messages) /\ Paired(messages \o turn)
      /\ CallsUpTo(messages \o turn, ids) /\ turn # <<>> /\ turn[1] = User
      /\ from \in 1 .. Len(messages) + 1
  BY DEF TurnOK, Ask, Log
<1>2. /\ prompt' = BuildMessageModifier(Input) /\ messages' = CutInPlace(prompt')
      /\ lastConsolidated' = lastConsolidated /\ from' = from
  BY DEF Ask
<1>3. PICK s : s = Log
  OBVIOUS
<1>4. s \in Seq(Message) /\ from \in 1 .. Len(s) + 1 /\ Input = SubSeq(s, from, Len(s)) /\ Paired(s)
  BY <1>1, <1>3, InputIsEnd DEF Log
<1>5. prompt' \in Seq(MessagesOf(Sizes \cup {"omitted"})) /\ WellFormed(prompt')
  BY <1>2, <1>4, ModifiedIsWellFormed
<1>6. PICK c : c = messages'
  OBVIOUS
<1>7. c \in Seq(Message) /\ Alike(messages, c) /\ Len(c) = Len(messages)
  <2>1. \A out : CutInPlace(out) \in Seq(Message) /\ Alike(messages, CutInPlace(out))
    BY <1>1, CutIsAlike
  <2>2. c \in Seq(Message) /\ Alike(messages, c)
    BY <1>2, <1>6, <2>1
  <2>. QED BY <2>2 DEF Alike
<1>8. Paired(c \o turn) /\ CallsUpTo(c \o turn, ids) /\ c \o turn \in Seq(Message)
  <2>1. Paired(c \o turn) /\ CallsUpTo(c \o turn, ids)
    BY <1>1, <1>7, LogIsAlike
  <2>2. c \o turn \in Seq(Message)
    BY <1>1, <1>7
  <2>. QED BY <2>1, <2>2
<1>9. ASSUME NEW x \in Message
      PROVE  /\ Append(turn, x) \in Seq(Message) /\ Append(turn, x) # <<>>
             /\ Append(turn, x)[1] = User /\ c \o Append(turn, x) = Append(c \o turn, x)
  <2>1. c \o Append(turn, x) = Append(c \o turn, x)
    BY <1>1, <1>7, AppendIsInner
  <2>2. Append(turn, x) \in Seq(Message) /\ Append(turn, x) # <<>> /\ Append(turn, x)[1] = turn[1]
    BY <1>1
  <2>. QED BY <1>1, <2>1, <2>2
<1>10. lastConsolidated' \in 0 .. Len(c) /\ from' \in 1 .. Len(c) + 1
  BY <1>1, <1>2, <1>7
<1>11. CASE turn' = Append(turn, Assistant(<<>>)) /\ phase' = "saving" /\ ids' = ids
  <2>1. PICK x \in Message : /\ x = Assistant(<<>>) /\ x.role # "tool" /\ x.id = 0
                            /\ x.calls = <<>>
    <3>1. <<>> \in Seq(Nat)
      OBVIOUS
    <3>. QED BY <3>1, PlainMessages
  <2>2. Paired(Append(c \o turn, x)) /\ CallsUpTo(Append(c \o turn, x), ids)
    BY <1>1, <1>8, <2>1, PairedWithout
  <2>3. Log' = Append(c \o turn, x) /\ turn' = Append(turn, x)
    BY <1>6, <1>9, <1>11, <2>1 DEF Log
  <2>4. turn' \in Seq(Message) /\ turn' # <<>> /\ turn'[1] = User
    BY <1>9, <2>3
  <2>5. TurnOK'
    BY <1>1, <1>6, <1>7, <1>10, <1>11, <2>2, <2>3, <2>4 DEF TurnOK
  <2>. QED BY <1>5, <2>5
<1>12. ASSUME NEW n \in 1 .. MaxCalls, turn' = Append(turn, Assistant([k \in 1 .. n |-> ids + k])),
              ids' = ids + n, phase' = "tools"
       PROVE  TurnOK'
  <2>1. PICK calls \in Seq(Nat) : /\ calls = [k \in 1 .. n |-> ids + k] /\ DOMAIN calls = 1 .. n
                                 /\ \A k \in 1 .. n : calls[k] = ids + k
    <3>1. n \in Nat /\ \A k \in 1 .. n : ids + k \in Nat
      BY <1>1, PromptAssumption
    <3>2. [k \in 1 .. n |-> ids + k] \in Seq(Nat)
      BY <3>1
    <3>. QED BY <3>2
  <2>2. PICK x \in Message : x = Assistant(calls) /\ x.role # "tool" /\ x.id = 0 /\ x.calls = calls
    BY PlainMessages
  <2>3. n \in Nat
    BY PromptAssumption
  <2>4. PICK t \in Seq(Message) : t = c \o turn /\ Paired(t) /\ CallsUpTo(t, ids)
    BY <1>8
  <2>5. Paired(Append(t, x)) /\ CallsUpTo(Append(t, x), ids + n)
    <3>1. DOMAIN x.calls = 1 .. n /\ \A k \in 1 .. n : x.calls[k] = ids + k
      BY <2>1, <2>2
    <3>. QED BY <1>1, <2>2, <2>3, <2>4, <3>1, PairedWithCalls
  <2>6. Log' = Append(t, x) /\ turn' = Append(turn, x)
    BY <1>6, <1>9, <1>12, <2>1, <2>2, <2>4 DEF Log
  <2>7. turn' \in Seq(Message) /\ turn' # <<>> /\ turn'[1] = User /\ ids' \in Nat
    <3>1. ids' \in Nat
      BY <1>1, <1>12, <2>3
    <3>. QED BY <1>9, <2>6, <3>1
  <2>8. CallsUpTo(Log, ids)'
    BY <1>12, <2>5, <2>6
  <2>. QED BY <1>6, <1>7, <1>10, <1>12, <2>5, <2>6, <2>7, <2>8 DEF TurnOK
<1>13. CASE phase' = "saving" /\ turn' = turn /\ ids' = ids
  <2>1. Log' = c \o turn
    BY <1>6, <1>13 DEF Log
  <2>2. TurnOK'
    BY <1>1, <1>6, <1>7, <1>8, <1>10, <1>13, <2>1 DEF TurnOK
  <2>. QED BY <1>5, <2>2
<1>14. \/ turn' = Append(turn, Assistant(<<>>)) /\ phase' = "saving" /\ ids' = ids
       \/ \E n \in 1 .. MaxCalls : /\ turn' = Append(turn, Assistant([k \in 1 .. n |-> ids + k]))
                                   /\ ids' = ids + n /\ phase' = "tools"
       \/ phase' = "saving" /\ turn' = turn /\ ids' = ids
  BY Zenon DEF Ask
<1>. QED BY <1>5, <1>11, <1>12, <1>13, <1>14

LEMMA ToolsRun ==
    ASSUME TurnOK, RunTools PROVE TurnOK'
<1>1. /\ messages \in Seq(Message) /\ turn \in Seq(Message) /\ ids \in Nat
      /\ lastConsolidated \in 0 .. Len(messages) /\ Paired(messages \o turn)
      /\ CallsUpTo(messages \o turn, ids) /\ turn # <<>> /\ turn[1] = User
      /\ from \in 1 .. Len(messages) + 1
  BY DEF TurnOK, RunTools, Log
<1>2. /\ messages' = messages /\ lastConsolidated' = lastConsolidated /\ from' = from /\ ids' = ids
  BY DEF RunTools
<1>3. PICK calls : calls = Last(turn).calls
  OBVIOUS
<1>4. PICK done \in 0 .. Len(calls) : \E r \in [1 .. done -> Results] :
          /\ turn' = turn \o [k \in 1 .. done |-> Msg("tool", <<>>, calls[k], r[k])]
          /\ phase' \in {"saving"} \cup (IF done = Len(calls) THEN {"asking"} ELSE {})
  BY <1>3, Zenon DEF RunTools
<1>5. PICK r \in [1 .. done -> Results] :
          /\ turn' = turn \o [k \in 1 .. done |-> Msg("tool", <<>>, calls[k], r[k])]
          /\ phase' \in {"saving", "asking"}
  BY <1>4
<1>6. PICK s \in Seq(Message) : s = messages \o turn
  <2>1. PICK a, b \in Seq(Message) : a = messages /\ b = turn
    BY <1>1
  <2>2. a \o b \in Seq(Message)
    BY Joined
  <2>. QED BY <2>1, <2>2
<1>7. s[Len(s)] = Last(turn) /\ s # <<>> /\ Len(s) \in Nat
  <2>1. (messages \o turn)[Len(messages \o turn)] = Last(turn) /\ messages \o turn # <<>>
    BY <1>1, LastOfLog
  <2>. QED BY <1>6, <2>1
<1>8. calls = s[Len(s)].calls /\ calls \in Seq(Nat)
  <2>1. Len(s) \in 1 .. Len(s)
    BY <1>7
  <2>. QED BY <1>3, <1>7, <2>1, CallsAreSeq
<1>9. PICK v : v = [k \in 1 .. done |-> Msg("tool", <<>>, calls[k], r[k])]
  OBVIOUS
<1>10. done \in Nat /\ done <= Len(calls) /\ Len(calls) \in Nat
  BY <1>8
<1>11. ASSUME NEW k \in 1 .. done
       PROVE  v[k] \in Message /\ v[k].role = "tool" /\ v[k].calls = <<>> /\ v[k].id = calls[k]
  <2>1. calls[k] \in Nat /\ r[k] \in Results
    BY <1>8, <1>10
  <2>2. v[k] = Msg("tool", <<>>, calls[k], r[k])
    BY <1>9
  <2>. QED BY <2>1, <2>2, PlainMessages
<1>12. v \in Seq(Message) /\ Len(v) = done
  <2>1. v = [k \in 1 .. done |-> v[k]]
    BY <1>9
  <2>2. v \in [1 .. done -> Message]
    BY <1>11, <2>1, Zenon
  <2>. QED BY <1>10, <2>1, <2>2
<1>13. Paired(s \o v) /\ CallsUpTo(s \o v, ids)
  BY <1>1, <1>6, <1>7, <1>8, <1>10, <1>11, <1>12, PairedWithResults
<1>14. Log' = s \o v
  <2>1. messages \o (turn \o v) = (messages \o turn) \o v
    <3>1. messages \in Seq(Message) /\ turn \in Seq(Message) /\ v \in Seq(Message)
      BY <1>1, <1>12
    <3>2. \A a, b, w \in Seq(Message) : a \o (b \o w) = (a \o b) \o w
      BY SMTT(30)
    <3>. QED BY <3>1, <3>2, Zenon
  <2>. QED BY <1>2, <1>5, <1>6, <1>9, <2>1 DEF Log
<1>15. turn' \in Seq(Message) /\ turn' # <<>> /\ turn'[1] = User
  <2>1. turn \o v \in Seq(Message) /\ turn \o v # <<>> /\ (turn \o v)[1] = turn[1]
    BY <1>1, <1>12
  <2>. QED BY <1>1, <1>5, <1>9, <2>1
<1>. QED BY <1>1, <1>2, <1>5, <1>13, <1>14, <1>15 DEF TurnOK

LEMMA TurnIsSaved ==
    ASSUME TurnOK, SaveTurn PROVE TurnOK'
<1>1. /\ messages \in Seq(Message) /\ turn \in Seq(Message) /\ ids \in Nat
      /\ lastConsolidated \in 0 .. Len(messages) /\ Paired(messages \o turn)
      /\ CallsUpTo(messages \o turn, ids)
  BY DEF TurnOK, Log
<1>2. /\ messages' = IF Len(turn) > 1 THEN messages \o turn ELSE messages
      /\ turn' = <<>> /\ phase' = "idle" /\ lastConsolidated' = lastConsolidated /\ ids' = ids
  BY DEF SaveTurn
<1>3. Paired(messages) /\ CallsUpTo(messages, ids)
  BY <1>1, PairedBefore
<1>4. messages' \in Seq(Message) /\ Len(messages') >= Len(messages) /\ Len(messages') \in Nat
  BY <1>1, <1>2
<1>5. Paired(messages') /\ CallsUpTo(messages', ids)
  BY <1>1, <1>2, <1>3
<1>6. Log' = messages'
  <2>1. messages' \o <<>> = messages'
    BY <1>4
  <2>. QED BY <1>2, <2>1 DEF Log
<1>7. lastConsolidated' \in 0 .. Len(messages')
  BY <1>1, <1>2, <1>4
<1>8. turn' \in Seq(Message)
  BY <1>2
<1>. QED BY <1>1, <1>2, <1>4, <1>5, <1>6, <1>7, <1>8 DEF TurnOK

-----------------------------------------------------------------------------
(* What is old stays old                                                    *)

LEMMA NoMore ==
    ASSUME NEW A, NEW T, IsFiniteSet(T), NEW f, \A x \in A : f[x] \in T,
           \A x, y \in A : f[x] = f[y] => x = y
    PROVE  Cardinality(A) <= Cardinality(T) /\ Cardinality(A) \in Nat /\ Cardinality(T) \in Nat
<1>. DEFINE g == [x \in A |-> f[x]]
<1>1. g \in Injection(A, T)
  BY DEF Injection, IsInjective
<1>. HIDE DEF g
<1>2. IsFiniteSet(A) /\ Cardinality(A) <= Cardinality(T)
  BY <1>1, FS_Injection
<1>. QED BY <1>2, FS_CardinalityType

LEMMA CompactableIs ==
    ASSUME NEW sizes, NEW s \in Seq(MessagesOf(sizes))
    PROVE  /\ \A q : q \in Compactable(s) <=>
                 /\ q \in 1 .. Len(s) /\ s[q].role = "tool" /\ s[q].compactable
                 /\ s[q].size \in {"large", "huge", "cut"}
           /\ \A p \in Nat : IsFiniteSet(After(s, p))
           /\ \A q \in Compactable(s) : q \in Nat
<1>1. DOMAIN s = 1 .. Len(s) /\ Len(s) \in Nat
  OBVIOUS
<1>2. \A q : q \in Compactable(s) <=>
                 /\ q \in 1 .. Len(s) /\ s[q].role = "tool" /\ s[q].compactable
                 /\ s[q].size \in {"large", "huge", "cut"}
  BY <1>1, Zenon DEF Compactable
<1>3. ASSUME NEW p \in Nat PROVE IsFiniteSet(After(s, p))
  <2>1. After(s, p) \subseteq 1 .. Len(s)
    BY <1>2 DEF After
  <2>2. IsFiniteSet(1 .. Len(s))
    BY <1>1, FS_Interval
  <2>. QED BY <2>1, <2>2, FS_Subset
<1>4. \A q \in Compactable(s) : q \in Nat
  BY <1>1, <1>2
<1>. QED BY <1>2, <1>3, <1>4

\* A message is as old in one log as in another when all that comes after it is in both.
Carries(s, p, t, q, f) ==
    /\ q \in Compactable(t)
    /\ \A x \in Compactable(s) : x > p => f[x] \in Compactable(t) /\ f[x] > q
    /\ \A x, y \in Compactable(s) : f[x] = f[y] => x = y

LEMMA AsOld ==
    ASSUME NEW s, NEW t \in Seq(Message), NEW p, NEW q \in Nat, Old(s, p),
           NEW f, Carries(s, p, t, q, f)
    PROVE  Old(t, q)
<1>1. /\ \A x \in After(s, p) : f[x] \in After(t, q)
      /\ \A x, y \in After(s, p) : f[x] = f[y] => x = y
  BY DEF After, Carries
<1>2. IsFiniteSet(After(t, q))
  BY CompactableIs DEF Message
<1>3. PICK A, T : A = After(s, p) /\ T = After(t, q)
  OBVIOUS
<1>4. Cardinality(A) <= Cardinality(T) /\ Cardinality(A) \in Nat /\ Cardinality(T) \in Nat
  BY <1>1, <1>2, <1>3, NoMore
<1>5. Cardinality(T) >= KeepRecent
  BY <1>3, <1>4, PromptAssumption DEF Old
<1>. QED BY <1>3, <1>5 DEF Old, Carries

LEMMA CompactsTheOld ==
    ASSUME NEW R PROVE \A k : k \in ToCompact(R) <=> Old(R, k)
BY DEF ToCompact, Old, After

\* In the end of a log what is old is what is old in the log.
LEMMA OldInEnd ==
    ASSUME NEW s \in Seq(Message), NEW b \in 1 .. Len(s) + 1, NEW v,
           v = SubSeq(s, b, Len(s)), NEW i \in 1 .. Len(v)
    PROVE  /\ v \in Seq(Message) /\ b - 1 + i \in 1 .. Len(s) /\ v[i] = s[b - 1 + i]
           /\ Old(v, i) <=> Old(s, b - 1 + i)
<1>1. PICK n \in Nat : n = Len(s)
  OBVIOUS
<1>2. v \in Seq(Message) /\ Len(v) = n - b + 1 /\ \A j \in 1 .. n - b + 1 : v[j] = s[b - 1 + j]
  BY <1>1, FromOn
<1>3. PICK p \in Nat : p = b - 1 + i /\ p \in 1 .. n /\ v[i] = s[p]
  BY <1>1, <1>2
<1>4. /\ \A q : q \in Compactable(s) <=>
            /\ q \in 1 .. Len(s) /\ s[q].role = "tool" /\ s[q].compactable
            /\ s[q].size \in {"large", "huge", "cut"}
      /\ \A q : q \in Compactable(v) <=>
            /\ q \in 1 .. Len(v) /\ v[q].role = "tool" /\ v[q].compactable
            /\ v[q].size \in {"large", "huge", "cut"}
  BY <1>2, CompactableIs DEF Message
<1>5. ASSUME NEW j \in Nat
      PROVE  j >= 1 => (j \in Compactable(v) <=> b - 1 + j \in Compactable(s))
  <2>1. PICK y : y = b - 1 + j
    OBVIOUS
  <2>2. CASE j \in 1 .. n - b + 1
    <3>1. j \in 1 .. Len(v) /\ y \in 1 .. Len(s) /\ v[j] = s[y]
      BY <1>1, <1>2, <2>1, <2>2
    <3>2. j \in Compactable(v) <=> y \in Compactable(s)
      <4>1. PICK x : x = v[j] /\ x = s[y]
        BY <3>1
      <4>2. j \in Compactable(v) <=>
               x.role = "tool" /\ x.compactable /\ x.size \in {"large", "huge", "cut"}
        BY <1>4, <3>1, <4>1, ZenonT(60)
      <4>3. y \in Compactable(s) <=>
               x.role = "tool" /\ x.compactable /\ x.size \in {"large", "huge", "cut"}
        BY <1>4, <3>1, <4>1, ZenonT(60)
      <4>. QED BY <4>2, <4>3, Zenon
    <3>. QED BY <2>1, <3>2
  <2>3. CASE j \notin 1 .. n - b + 1
    <3>1. j >= 1 => j \notin 1 .. Len(v) /\ y \notin 1 .. Len(s)
      BY <1>1, <1>2, <2>1, <2>3
    <3>2. j >= 1 => (j \in Compactable(v) <=> y \in Compactable(s))
      BY <1>4, <3>1, Zenon
    <3>. QED BY <2>1, <3>2
  <2>. QED BY <2>2, <2>3
<1>6. i \in Nat /\ i >= 1
  BY <1>1, <1>2
<1>7. ASSUME Old(v, i) PROVE Old(s, p)
  <2>. DEFINE f == [j \in Nat |-> b - 1 + j]
  <2>1. ASSUME NEW x \in Compactable(v), x > i PROVE f[x] \in Compactable(s) /\ f[x] > p
    <3>1. x \in Nat /\ x >= 1
      BY <1>1, <1>2, <1>4
    <3>2. b - 1 + x \in Compactable(s)
      BY <1>5, <3>1
    <3>3. b - 1 + x > p
      BY <1>1, <1>3, <1>6, <2>1, <3>1
    <3>. QED BY <3>1, <3>2, <3>3
  <2>2. ASSUME NEW x \in Compactable(v), NEW y \in Compactable(v), f[x] = f[y] PROVE x = y
    <3>1. x \in Nat /\ y \in Nat
      BY <1>1, <1>2, <1>4
    <3>. QED BY <2>2, <3>1
  <2>3. p \in Compactable(s)
    BY <1>3, <1>5, <1>6, <1>7 DEF Old
  <2>. HIDE DEF f
  <2>4. Carries(v, i, s, p, f)
    BY <2>1, <2>2, <2>3, Zenon DEF Carries
  <2>. QED BY <1>7, <2>4, AsOld
<1>8. ASSUME Old(s, p) PROVE Old(v, i)
  <2>. DEFINE f == [x \in Nat |-> x - b + 1]
  <2>1. ASSUME NEW x \in Compactable(s), x > p PROVE f[x] \in Compactable(v) /\ f[x] > i
    <3>1. x \in Nat /\ x >= 1
      BY <1>1, <1>4
    <3>2. PICK j \in Nat : j = x - b + 1 /\ x = b - 1 + j /\ j > i
      <4>1. x - b + 1 \in Nat /\ x = b - 1 + (x - b + 1) /\ x - b + 1 > i
        BY <1>1, <1>3, <1>6, <2>1, <3>1
      <4>. QED BY <4>1
    <3>3. j \in Compactable(v)
      BY <1>5, <1>6, <3>2
    <3>. QED BY <3>1, <3>2, <3>3
  <2>2. ASSUME NEW x \in Compactable(s), NEW y \in Compactable(s), f[x] = f[y] PROVE x = y
    <3>1. x \in Nat /\ y \in Nat
      BY <1>1, <1>4
    <3>. QED BY <2>2, <3>1
  <2>3. i \in Compactable(v)
    BY <1>3, <1>5, <1>6, <1>8 DEF Old
  <2>. HIDE DEF f
  <2>4. Carries(s, p, v, i, f)
    BY <2>1, <2>2, <2>3, Zenon DEF Carries
  <2>. QED BY <1>2, <1>6, <1>8, <2>4, AsOld
<1>. QED BY <1>1, <1>2, <1>3, <1>7, <1>8

\* What is put in for a missing result is never compacted, and the order of the rest stays.
LEMMA FilledCompactable ==
    ASSUME NEW v \in Seq(Message), NEW R, NEW pos, NEW given, Fills(v, R, pos, given)
    PROVE  /\ \A i \in 1 .. Len(v) : i \in Compactable(v) <=> pos[i] \in Compactable(R)
           /\ \A k \in Compactable(R) : \E i \in Compactable(v) : k = pos[i]
           /\ \A i, j \in 1 .. Len(v) : pos[i] \in Nat /\ (i < j <=> pos[i] < pos[j])
<1>1. PICK n \in Nat : n = Len(v)
  OBVIOUS
<1>2. /\ R \in Seq(Message) /\ pos \in [1 .. n + 1 -> Nat \ {0}] /\ pos[n + 1] = Len(R) + 1
      /\ \A i \in 1 .. n : /\ Given(v, i, given[i]) /\ R[pos[i]] = v[i]
                           /\ pos[i + 1] = pos[i] + 1 + (Len(v[i].calls) - given[i])
      /\ \A i, j \in 1 .. n + 1 : i <= j => pos[i] <= pos[j]
  BY <1>1 DEF Fills
<1>3. ASSUME NEW i \in 1 .. n PROVE Len(v[i].calls) - given[i] \in Nat
  <2>1. Len(v[i].calls) \in Nat /\ given[i] \in 0 .. Len(v[i].calls)
    BY <1>1, <1>2, CallsAreSeq DEF Given
  <2>. QED BY <2>1
<1>4. ASSUME NEW i \in 1 .. n, NEW j \in 1 .. n, i < j PROVE pos[i] < pos[j]
  <2>1. PICK m \in Nat : m = Len(v[i].calls) - given[i]
    BY <1>3
  <2>2. pos[i + 1] = pos[i] + 1 + m
    BY <1>2, <2>1
  <2>3. i + 1 \in 1 .. n + 1 /\ j \in 1 .. n + 1 /\ i \in 1 .. n + 1 /\ i + 1 <= j
    BY <1>4
  <2>4. PICK x, y \in Nat : x = pos[i] /\ y = pos[j]
    BY <1>2, <2>3
  <2>5. pos[i + 1] <= y /\ pos[i + 1] = x + 1 + m
    BY <1>2, <2>2, <2>3, <2>4
  <2>6. x < y
    BY <2>5
  <2>. QED BY <2>4, <2>6
<1>5. ASSUME NEW i \in 1 .. n PROVE pos[i] \in 1 .. Len(R)
  <2>1. PICK m \in Nat : m = Len(v[i].calls) - given[i]
    BY <1>3
  <2>2. i \in 1 .. n + 1 /\ i + 1 \in 1 .. n + 1 /\ n + 1 \in 1 .. n + 1 /\ i + 1 <= n + 1
    OBVIOUS
  <2>3. PICK x \in Nat \ {0} : x = pos[i]
    BY <1>2, <2>2
  <2>4. x + 1 + m <= Len(R) + 1 /\ Len(R) \in Nat
    BY <1>2, <2>1, <2>2, <2>3, SMTT(30)
  <2>5. x \in 1 .. Len(R)
    BY <2>4
  <2>. QED BY <2>3, <2>5
<1>6. ASSUME NEW i \in 1 .. n PROVE i \in Compactable(v) <=> pos[i] \in Compactable(R)
  <2>1. PICK k \in 1 .. Len(R) : k = pos[i]
    BY <1>5
  <2>2. PICK x : x = v[i] /\ x = R[k]
    BY <1>2, <2>1
  <2>3. /\ \A q : q \in Compactable(v) <=>
              /\ q \in 1 .. Len(v) /\ v[q].role = "tool" /\ v[q].compactable
              /\ v[q].size \in {"large", "huge", "cut"}
        /\ \A q : q \in Compactable(R) <=>
              /\ q \in 1 .. Len(R) /\ R[q].role = "tool" /\ R[q].compactable
              /\ R[q].size \in {"large", "huge", "cut"}
    BY <1>2, CompactableIs DEF Message
  <2>4. i \in Compactable(v) <=>
           x.role = "tool" /\ x.compactable /\ x.size \in {"large", "huge", "cut"}
    BY <1>1, <2>2, <2>3, Zenon
  <2>5. k \in Compactable(R) <=>
           x.role = "tool" /\ x.compactable /\ x.size \in {"large", "huge", "cut"}
    BY <2>2, <2>3, Zenon
  <2>. QED BY <2>1, <2>4, <2>5, Zenon
<1>7. ASSUME NEW k \in Compactable(R) PROVE \E i \in Compactable(v) : k = pos[i]
  <2>1. k \in 1 .. Len(R) /\ R[k].size \in {"large", "huge", "cut"}
    BY <1>2, CompactableIs DEF Message
  <2>2. PICK i \in 1 .. n : \E l \in 0 .. Len(v[i].calls) - given[i] : k = pos[i] + l
    BY <1>1, <2>1 DEF Fills
  <2>3. PICK l \in 0 .. Len(v[i].calls) - given[i] : k = pos[i] + l
    BY <2>2
  <2>4. PICK m \in Nat : m = Len(v[i].calls) - given[i]
    BY <1>3
  <2>5. l \notin 1 .. m
    <3>1. ASSUME l \in 1 .. m PROVE FALSE
      <4>1. R[k] = Unavailable(v[i].calls[given[i] + l])
        BY <1>1, <2>3, <2>4, <3>1 DEF Fills
      <4>2. R[k].size = "small"
        BY <4>1 DEF Unavailable, Msg, Plain
      <4>. QED BY <2>1, <4>2
    <3>. QED BY <3>1
  <2>6. l = 0
    BY <2>4, <2>5
  <2>7. pos[i] \in Nat
    BY <1>5
  <2>8. k = pos[i]
    BY <2>3, <2>6, <2>7
  <2>. QED BY <1>6, <2>8
<1>8. ASSUME NEW i \in 1 .. n, NEW j \in 1 .. n
      PROVE  pos[i] \in Nat /\ (i < j <=> pos[i] < pos[j])
  <2>1. PICK x, y \in Nat : x = pos[i] /\ y = pos[j]
    BY <1>5
  <2>2. /\ i < j => x < y
        /\ j < i => y < x
        /\ i = j => x = y
    BY <1>4, <2>1
  <2>3. i < j <=> x < y
    BY <2>2
  <2>. QED BY <2>1, <2>3
<1>. QED BY <1>1, <1>6, <1>7, <1>8

LEMMA OldWhenFilled ==
    ASSUME NEW v \in Seq(Message), NEW R, NEW pos, NEW given, Fills(v, R, pos, given),
           NEW i \in 1 .. Len(v)
    PROVE  Old(v, i) <=> Old(R, pos[i])
<1>1. /\ \A x \in 1 .. Len(v) : x \in Compactable(v) <=> pos[x] \in Compactable(R)
      /\ \A k \in Compactable(R) : \E x \in Compactable(v) : k = pos[x]
      /\ \A x, y \in 1 .. Len(v) : pos[x] \in Nat /\ (x < y <=> pos[x] < pos[y])
  BY FilledCompactable
<1>2. /\ R \in Seq(Message) /\ Len(v) \in Nat
      /\ \A q \in Compactable(v) : q \in 1 .. Len(v)
  BY CompactableIs DEF Fills, Message
<1>3. i \in Nat /\ pos[i] \in Nat
  BY <1>1, <1>2
<1>4. ASSUME Old(v, i) PROVE Old(R, pos[i])
  <2>1. \A x \in Compactable(v) : x > i => pos[x] \in Compactable(R) /\ pos[x] > pos[i]
    <3>. SUFFICES ASSUME NEW x \in Compactable(v), x > i
                  PROVE  pos[x] \in Compactable(R) /\ pos[x] > pos[i]
      OBVIOUS
    <3>1. x \in 1 .. Len(v) /\ i < x
      BY <1>2, <1>3
    <3>2. pos[x] \in Compactable(R) /\ pos[i] < pos[x] /\ pos[x] \in Nat
      BY <1>1, <3>1
    <3>. QED BY <1>3, <3>2
  <2>2. \A x, y \in Compactable(v) : pos[x] = pos[y] => x = y
    <3>. SUFFICES ASSUME NEW x \in Compactable(v), NEW y \in Compactable(v), pos[x] = pos[y]
                  PROVE  x = y
      OBVIOUS
    <3>1. x \in 1 .. Len(v) /\ y \in 1 .. Len(v)
      BY <1>2
    <3>2. ~(x < y) /\ ~(y < x)
      BY <1>1, <3>1
    <3>. QED BY <1>2, <3>1, <3>2
  <2>3. pos[i] \in Compactable(R)
    BY <1>1, <1>4 DEF Old
  <2>4. Carries(v, i, R, pos[i], pos)
    BY <2>1, <2>2, <2>3, Zenon DEF Carries
  <2>. QED BY <1>2, <1>3, <1>4, <2>4, AsOld
<1>5. ASSUME Old(R, pos[i]) PROVE Old(v, i)
  <2>1. PICK f : \A k \in Compactable(R) : f[k] \in Compactable(v) /\ k = pos[f[k]]
    <3>. DEFINE g == [k \in Compactable(R) |-> CHOOSE x \in Compactable(v) : k = pos[x]]
    <3>1. \A k \in Compactable(R) : g[k] \in Compactable(v) /\ k = pos[g[k]]
      BY <1>1
    <3>. QED BY <3>1
  <2>2. \A k \in Compactable(R) : k > pos[i] => f[k] \in Compactable(v) /\ f[k] > i
    <3>. SUFFICES ASSUME NEW k \in Compactable(R), k > pos[i]
                  PROVE  f[k] \in Compactable(v) /\ f[k] > i
      OBVIOUS
    <3>1. PICK x \in Compactable(v) : x = f[k] /\ k = pos[x]
      BY <2>1
    <3>2. x \in 1 .. Len(v) /\ pos[x] \in Nat /\ pos[i] < pos[x]
      BY <1>1, <1>2, <1>3, <3>1
    <3>3. i < x
      BY <1>1, <3>2
    <3>. QED BY <1>2, <1>3, <3>1, <3>2, <3>3
  <2>3. \A k, l \in Compactable(R) : f[k] = f[l] => k = l
    BY <2>1
  <2>4. i \in Compactable(v)
    BY <1>1, <1>5 DEF Old
  <2>5. Carries(R, pos[i], v, i, f)
    BY <2>2, <2>3, <2>4, Zenon DEF Carries
  <2>. QED BY <1>3, <1>5, <2>5, AsOld
<1>. QED BY <1>4, <1>5

\* No result is put in for a call whose result is in the log.
LEMMA FilledIsNotGiven ==
    ASSUME NEW s \in Seq(Message), Paired(s), NEW b \in 1 .. Len(s) + 1, NEW v,
           v = SubSeq(s, b, Len(s)), NEW i \in 1 .. Len(v), NEW l \in 1 .. Len(v[i].calls),
           NEW p \in 1 .. Len(s), s[p].role = "tool", s[p].id = v[i].calls[l]
    PROVE  v[i].calls[l] \in Answered(v)
<1>1. /\ v \in Seq(Message) /\ Len(v) = Len(s) - b + 1 /\ Len(s) \in Nat
      /\ \A j \in 1 .. Len(s) - b + 1 : v[j] = s[b - 1 + j]
  BY FromOn
<1>2. PICK c \in 1 .. Len(s) : c = b - 1 + i /\ v[i] = s[c] /\ c >= b
  BY <1>1
<1>3. l \in DOMAIN s[c].calls /\ s[c].calls[l] = s[p].id
  <2>1. DOMAIN s[c].calls = 1 .. Len(s[c].calls)
    BY CallsAreSeq
  <2>. QED BY <1>2, <2>1
<1>4. PICK k \in 1 .. p - 1 :
         \A d \in 1 .. Len(s) : \A h \in DOMAIN s[d].calls :
            s[d].calls[h] = s[p].id => d = p - k /\ h = k
  BY OneCaller, ZenonT(60)
<1>5. c = p - k
  BY <1>3, <1>4
<1>6. PICK j \in 1 .. Len(v) : v[j] = s[p]
  <2>1. p >= b
    BY <1>2, <1>5
  <2>2. p - b + 1 \in 1 .. Len(s) - b + 1 /\ b - 1 + (p - b + 1) = p
    BY <1>1, <2>1
  <2>3. v[p - b + 1] = s[p]
    BY <1>1, <2>2
  <2>. QED BY <1>1, <2>2, <2>3
<1>7. \A x : x \in Answered(v) <=> \E t \in 1 .. Len(v) : v[t].role = "tool" /\ v[t].id = x
  BY <1>1, IsAnswered
<1>8. PICK x : x = v[i].calls[l]
  OBVIOUS
<1>9. v[j].role = "tool" /\ v[j].id = x
  BY <1>6, <1>8
<1>. QED BY <1>7, <1>8, <1>9

\* What is at a place: a message, or what is put in for a call without a result.
LEMMA FilledAt ==
    ASSUME NEW v \in Seq(Message), Paired(v), NEW R, NEW pos, NEW given, Fills(v, R, pos, given),
           NEW k \in 1 .. Len(R)
    PROVE  \E i \in 1 .. Len(v) :
              \/ k = pos[i] /\ R[k] = v[i]
              \/ \E h \in 1 .. Len(v[i].calls) :
                    /\ R[k] = Unavailable(v[i].calls[h]) /\ v[i].calls[h] \in Nat
                    /\ v[i].calls[h] \notin Answered(v)
<1>1. PICK i \in 1 .. Len(v) : \E l \in 0 .. Len(v[i].calls) - given[i] : k = pos[i] + l
  BY DEF Fills
<1>2. PICK m \in Nat : RowAfter(v, R, pos, given, i, m)
  BY RowAfterCall
<1>3. PICK calls \in Seq(Nat) : calls = v[i].calls
  BY CallsAreSeq
<1>4. Given(v, i, given[i]) /\ R[pos[i]] = v[i]
  BY DEF Fills
<1>5. PICK g \in Nat : g = given[i]
  BY <1>3, <1>4 DEF Given
<1>6. PICK z \in Nat : z = pos[i]
  BY <1>2 DEF RowAfter
<1>7. PICK n \in Nat : n = Len(calls) /\ m + g = n
  BY <1>2, <1>3, <1>5 DEF RowAfter
<1>8. PICK l \in 0 .. n - g : k = z + l
  BY <1>1, <1>3, <1>5, <1>6, <1>7
<1>9. CASE l = 0
  BY <1>4, <1>6, <1>8, <1>9
<1>10. CASE l # 0
  <2>1. l \in 1 .. m
    BY <1>7, <1>8, <1>10
  <2>2. PICK h \in 1 .. n : h = g + l /\ ~(h <= g)
    <3>1. g + l \in 1 .. n /\ ~(g + l <= g)
      BY <1>7, <2>1
    <3>. QED BY <3>1
  <2>3. R[k] = Unavailable(calls[h])
    BY <1>2, <1>3, <1>5, <1>6, <1>8, <2>1, <2>2 DEF RowAfter
  <2>4. calls[h] \in Nat
    BY <1>7
  <2>5. calls[h] \notin Answered(v)
    BY <1>3, <1>4, <1>5, <1>7, <2>2 DEF Given
  <2>. QED BY <1>3, <1>7, <2>3, <2>4, <2>5
<1>. QED BY <1>9, <1>10

\* What a prompt omits is old in the log, and what is old in the log is omitted.
OmitsTheOld(s, P) ==
    /\ \A k \in 1 .. Len(P) : P[k].size = "omitted" =>
          \E p \in 1 .. Len(s) : s[p].id = P[k].id /\ Old(s, p)
    /\ \A p \in 1 .. Len(s) : \A k \in 1 .. Len(P) :
          Old(s, p) /\ P[k].id = s[p].id => P[k].size = "omitted"

LEMMA ModifiedOmitsTheOld ==
    ASSUME NEW s \in Seq(Message), Paired(s), NEW a \in 1 .. Len(s) + 1
    PROVE  OmitsTheOld(s, BuildMessageModifier(SubSeq(s, a, Len(s))))
<1>1. PICK b \in a .. Len(s) + 1 :
              /\ DropOrphanToolResults(SubSeq(s, a, Len(s))) = SubSeq(s, b, Len(s))
              /\ Paired(SubSeq(s, b, Len(s)))
  BY OrphansFirst
<1>2. PICK v : v = SubSeq(s, b, Len(s))
  OBVIOUS
<1>3. b \in 1 .. Len(s) + 1
  OBVIOUS
<1>4. v \in Seq(Message) /\ Paired(v)
  BY <1>1, <1>2, <1>3, FromOn
<1>5. PICK R : R = BackfillMissingToolResults(v)
  OBVIOUS
<1>6. PICK pos, given : Fills(v, R, pos, given)
  BY <1>4, <1>5, FilledIn
<1>7. R \in Seq(Message)
  BY <1>6 DEF Fills
<1>8. PICK P : P = Microcompact(R)
  OBVIOUS
<1>9. /\ Alike(R, P)
      /\ \A k \in 1 .. Len(R) : P[k].size = "omitted" <=> k \in ToCompact(R)
  BY <1>7, <1>8, Compacted
<1>10. Len(P) = Len(R) /\ \A k \in 1 .. Len(R) : P[k].id = R[k].id
  BY <1>9 DEF Alike
<1>11. \A k \in 1 .. Len(R) : P[k].size = "omitted" <=> Old(R, k)
  BY <1>9, CompactsTheOld
<1>12. ASSUME NEW i \in 1 .. Len(v)
       PROVE  \E p \in 1 .. Len(s) : /\ p = b - 1 + i /\ v[i] = s[p] /\ R[pos[i]] = v[i]
                                     /\ Old(R, pos[i]) <=> Old(s, p)
  <2>1. Old(v, i) <=> Old(R, pos[i])
    BY <1>4, <1>6, OldWhenFilled
  <2>2. b - 1 + i \in 1 .. Len(s) /\ v[i] = s[b - 1 + i] /\ (Old(v, i) <=> Old(s, b - 1 + i))
    BY <1>2, <1>3, OldInEnd
  <2>3. R[pos[i]] = v[i]
    BY <1>6 DEF Fills
  <2>. QED BY <2>1, <2>2, <2>3
<1>13. ASSUME NEW k \in 1 .. Len(R), Old(R, k)
       PROVE  \E p \in 1 .. Len(s) : s[p].id = R[k].id /\ Old(s, p)
  <2>1. k \in Compactable(R)
    BY <1>13 DEF Old
  <2>2. PICK i \in Compactable(v) : k = pos[i]
    BY <1>4, <1>6, <2>1, FilledCompactable
  <2>3. i \in 1 .. Len(v)
    BY <1>4, CompactableIs DEF Message
  <2>. QED BY <1>12, <1>13, <2>2, <2>3
<1>14. ASSUME NEW p \in 1 .. Len(s), NEW k \in 1 .. Len(R), Old(s, p), R[k].id = s[p].id
       PROVE  Old(R, k)
  <2>1. s[p].role = "tool" /\ s[p].id # 0
    <3>1. s[p].role = "tool"
      BY <1>14, CompactableIs DEF Old, Message
    <3>. QED BY <3>1 DEF Paired
  <2>2. PICK i \in 1 .. Len(v) :
              \/ k = pos[i] /\ R[k] = v[i]
              \/ \E h \in 1 .. Len(v[i].calls) :
                    /\ R[k] = Unavailable(v[i].calls[h]) /\ v[i].calls[h] \in Nat
                    /\ v[i].calls[h] \notin Answered(v)
    BY <1>4, <1>6, FilledAt
  <2>3. CASE k = pos[i] /\ R[k] = v[i]
    <3>1. PICK q \in 1 .. Len(s) : v[i] = s[q] /\ (Old(R, pos[i]) <=> Old(s, q))
      BY <1>12
    <3>2. s[q].id = s[p].id
      BY <1>14, <2>3, <3>1
    <3>3. q = p
      BY <2>1, <3>2, OneResult
    <3>. QED BY <1>14, <2>3, <3>1, <3>3
  <2>4. ASSUME NEW h \in 1 .. Len(v[i].calls), R[k] = Unavailable(v[i].calls[h]),
               v[i].calls[h] \in Nat, v[i].calls[h] \notin Answered(v)
        PROVE  FALSE
    <3>1. Unavailable(v[i].calls[h]).id = v[i].calls[h]
      BY <2>4, UnavailableIsMessage
    <3>2. s[p].id = v[i].calls[h]
      BY <1>14, <2>4, <3>1
    <3>3. v[i].calls[h] \in Answered(v)
      BY <1>2, <1>3, <2>1, <3>2, FilledIsNotGiven
    <3>. QED BY <2>4, <3>3
  <2>. QED BY <2>2, <2>3, <2>4
<1>15. OmitsTheOld(s, P)
  <2>1. ASSUME NEW k \in 1 .. Len(P), P[k].size = "omitted"
        PROVE  \E p \in 1 .. Len(s) : s[p].id = P[k].id /\ Old(s, p)
    <3>1. k \in 1 .. Len(R) /\ Old(R, k) /\ P[k].id = R[k].id
      BY <1>10, <1>11, <2>1
    <3>. QED BY <1>13, <3>1
  <2>2. ASSUME NEW p \in 1 .. Len(s), NEW k \in 1 .. Len(P), Old(s, p), P[k].id = s[p].id
        PROVE  P[k].size = "omitted"
    <3>1. k \in 1 .. Len(R) /\ R[k].id = s[p].id
      BY <1>10, <2>2
    <3>2. Old(R, k)
      BY <1>14, <2>2, <3>1
    <3>. QED BY <1>11, <3>1, <3>2
  <2>. QED BY <2>1, <2>2, Zenon DEF OmitsTheOld
<1>16. BuildMessageModifier(SubSeq(s, a, Len(s))) = P
  BY <1>1, <1>2, <1>5, <1>8 DEF BuildMessageModifier
<1>. QED BY <1>15, <1>16

\* What may be omitted in one log may be omitted in the other, and is the same result.
Keeps(s, t) == \A q \in Compactable(s) : q \in Compactable(t) /\ t[q].id = s[q].id

LEMMA KeptOld ==
    ASSUME NEW s \in Seq(Message), NEW t \in Seq(Message), Keeps(s, t), NEW p, Old(s, p)
    PROVE  p \in 1 .. Len(t) /\ t[p].id = s[p].id /\ Old(t, p)
<1>. DEFINE f == [x \in Nat |-> x]
<1>1. \A q \in Compactable(s) : q \in Nat /\ f[q] = q
  BY CompactableIs DEF Message
<1>. HIDE DEF f
<1>2. p \in Compactable(s) /\ p \in Compactable(t) /\ t[p].id = s[p].id
  BY DEF Old, Keeps
<1>3. \A x \in Compactable(s) : x > p => f[x] \in Compactable(t) /\ f[x] > p
  BY <1>1 DEF Keeps
<1>4. \A x, y \in Compactable(s) : f[x] = f[y] => x = y
  BY <1>1
<1>5. Carries(s, p, t, p, f)
  BY <1>2, <1>3, <1>4, Zenon DEF Carries
<1>6. p \in Nat
  BY <1>1, <1>2
<1>7. p \in 1 .. Len(t)
  BY <1>2, CompactableIs DEF Message
<1>. QED BY <1>2, <1>5, <1>6, <1>7, AsOld

\* A log keeps what it had when its first part is kept and messages are added to the second.
LEMMA GrownKeeps ==
    ASSUME NEW s \in Seq(Message), NEW c \in Seq(Message), NEW r \in Seq(Message),
           NEW w \in Seq(Message), Len(c) = Len(s), Keeps(s, c), Len(r) <= Len(w),
           \A i \in 1 .. Len(r) : w[i] = r[i]
    PROVE  Keeps(s \o r, c \o w)
<1>1. PICK n, d, e \in Nat : n = Len(s) /\ d = Len(r) /\ e = Len(w) /\ n = Len(c) /\ d <= e
  OBVIOUS
<1>2. PICK t, u : t = s \o r /\ u = c \o w
  OBVIOUS
<1>3. /\ t \in Seq(Message) /\ Len(t) = n + d
      /\ \A i \in 1 .. n : t[i] = s[i]
      /\ \A k \in 1 .. d : t[n + k] = r[k]
  <2>1. /\ s \o r \in Seq(Message) /\ Len(s \o r) = Len(s) + Len(r)
        /\ \A i \in 1 .. Len(s) : (s \o r)[i] = s[i]
        /\ \A k \in 1 .. Len(r) : (s \o r)[Len(s) + k] = r[k]
    BY Joined
  <2>. QED BY <1>1, <1>2, <2>1
<1>4. /\ u \in Seq(Message) /\ Len(u) = n + e
      /\ \A i \in 1 .. n : u[i] = c[i]
      /\ \A k \in 1 .. e : u[n + k] = w[k]
  <2>1. /\ c \o w \in Seq(Message) /\ Len(c \o w) = Len(c) + Len(w)
        /\ \A i \in 1 .. Len(c) : (c \o w)[i] = c[i]
        /\ \A k \in 1 .. Len(w) : (c \o w)[Len(c) + k] = w[k]
    <3>1. PICK a, b \in Seq(Message) : a = c /\ b = w
      OBVIOUS
    <3>2. /\ a \o b \in Seq(Message) /\ Len(a \o b) = Len(a) + Len(b)
          /\ \A i \in 1 .. Len(a) : (a \o b)[i] = a[i]
          /\ \A k \in 1 .. Len(b) : (a \o b)[Len(a) + k] = b[k]
      BY Joined
    <3>. QED BY <3>1, <3>2
  <2>. QED BY <1>1, <1>2, <2>1
<1>5. ASSUME NEW a \in Seq(Message), NEW b \in Seq(Message), NEW q \in 1 .. Len(a),
             NEW h \in 1 .. Len(b), a[q] = b[h]
      PROVE  q \in Compactable(a) <=> h \in Compactable(b)
  <2>1. /\ \A j : j \in Compactable(a) <=>
              /\ j \in 1 .. Len(a) /\ a[j].role = "tool" /\ a[j].compactable
              /\ a[j].size \in {"large", "huge", "cut"}
        /\ \A j : j \in Compactable(b) <=>
              /\ j \in 1 .. Len(b) /\ b[j].role = "tool" /\ b[j].compactable
              /\ b[j].size \in {"large", "huge", "cut"}
    BY CompactableIs DEF Message
  <2>2. PICK x : x = a[q] /\ x = b[h]
    BY <1>5
  <2>3. q \in Compactable(a) <=>
           x.role = "tool" /\ x.compactable /\ x.size \in {"large", "huge", "cut"}
    BY <2>1, <2>2, ZenonT(60)
  <2>4. h \in Compactable(b) <=>
           x.role = "tool" /\ x.compactable /\ x.size \in {"large", "huge", "cut"}
    BY <2>1, <2>2, ZenonT(60)
  <2>. QED BY <2>3, <2>4, Zenon
<1>6. ASSUME NEW q \in Compactable(t) PROVE q \in Compactable(u) /\ u[q].id = t[q].id
  <2>1. q \in 1 .. n + d
    BY <1>3, CompactableIs DEF Message
  <2>2. CASE q <= n
    <3>1. q \in 1 .. Len(s) /\ q \in 1 .. Len(t) /\ t[q] = s[q]
      BY <1>1, <1>3, <2>1, <2>2
    <3>2. q \in Compactable(s)
      BY <1>3, <1>5, <3>1
    <3>3. q \in Compactable(c) /\ c[q].id = s[q].id
      BY <3>2 DEF Keeps
    <3>4. q \in 1 .. Len(c) /\ q \in 1 .. Len(u) /\ u[q] = c[q]
      BY <1>1, <1>4, <2>1, <2>2
    <3>5. q \in Compactable(u)
      BY <1>4, <1>5, <3>3, <3>4
    <3>. QED BY <3>1, <3>3, <3>4, <3>5
  <2>3. CASE ~(q <= n)
    <3>1. PICK k \in 1 .. d : q = n + k
      <4>1. q - n \in 1 .. d /\ q = n + (q - n)
        BY <2>1, <2>3
      <4>. QED BY <4>1
    <3>2. q \in 1 .. Len(t) /\ q \in 1 .. Len(u) /\ u[q] = t[q]
      BY <1>1, <1>3, <1>4, <3>1
    <3>3. q \in Compactable(u)
      BY <1>3, <1>4, <1>5, <3>2
    <3>. QED BY <3>2, <3>3
  <2>. QED BY <2>1, <2>2, <2>3
<1>7. Keeps(t, u)
  BY <1>6 DEF Keeps
<1>. QED BY <1>2, <1>7

LEMMA CutKeeps ==
    ASSUME NEW out, messages \in Seq(Message)
    PROVE  Keeps(messages, CutInPlace(out))
<1>1. PICK c : c = CutInPlace(out)
  OBVIOUS
<1>2. c \in Seq(Message) /\ Alike(messages, c)
  BY <1>1, CutIsAlike
<1>3. DOMAIN messages = 1 .. Len(messages) /\ Len(c) = Len(messages)
  BY <1>2 DEF Alike
<1>4. ASSUME NEW q \in Compactable(messages)
      PROVE  q \in Compactable(c) /\ c[q].id = messages[q].id
  <2>1. /\ \A j : j \in Compactable(messages) <=>
              /\ j \in 1 .. Len(messages) /\ messages[j].role = "tool" /\ messages[j].compactable
              /\ messages[j].size \in {"large", "huge", "cut"}
        /\ \A j : j \in Compactable(c) <=>
              /\ j \in 1 .. Len(c) /\ c[j].role = "tool" /\ c[j].compactable
              /\ c[j].size \in {"large", "huge", "cut"}
    BY <1>2, CompactableIs DEF Message
  <2>2. PICK x \in Message : x = messages[q] /\ q \in 1 .. Len(messages)
    <3>1. q \in 1 .. Len(messages)
      BY <2>1
    <3>. QED BY <3>1
  <2>3. x.role = "tool" /\ x.compactable /\ x.size \in {"large", "huge", "cut"}
    BY <2>1, <2>2, Zenon
  <2>4. c[q] = Truncated(x) \/ c[q] = x
    BY <1>1, <1>3, <2>2 DEF CutInPlace
  <2>5. PICK y : y = Truncated(x)
    OBVIOUS
  <2>6. /\ y.role = x.role /\ y.id = x.id /\ y.compactable = x.compactable
        /\ x.size # "huge" => y.size = x.size
        /\ x.size = "huge" => y.size \in {"huge", "cut"}
    BY <2>5, TruncatedIsAlike
  <2>7. y.role = "tool" /\ y.compactable /\ y.size \in {"large", "huge", "cut"} /\ y.id = x.id
    <3>1. y.size \in {"large", "huge", "cut"}
      BY <2>3, <2>6
    <3>2. y.compactable
      BY <2>3, <2>6, Zenon
    <3>. QED BY <2>3, <2>6, <3>1, <3>2, Zenon
  <2>8. CASE c[q] = y
    BY <1>3, <2>1, <2>2, <2>7, <2>8, Zenon
  <2>9. CASE c[q] = x
    BY <1>3, <2>1, <2>2, <2>3, <2>9, Zenon
  <2>. QED BY <2>4, <2>5, <2>8, <2>9
<1>. QED BY <1>1, <1>4 DEF Keeps

LEMMA KeepsItself == \A s : Keeps(s, s)
BY DEF Keeps

LEMMA OneLeft == ASSUME NEW S, NEW r \in Seq(S), r # <<>>, ~(Len(r) > 1) PROVE Len(r) = 1
<1>1. Len(r) = 0 => r = <<>>
  OBVIOUS
<1>2. PICK n \in Nat : n = Len(r)
  OBVIOUS
<1>3. n # 0 /\ ~(n > 1)
  BY <1>1, <1>2
<1>4. n = 1
  BY <1>3
<1>. QED BY <1>2, <1>4

LEMMA OneMore ==
    ASSUME NEW S, NEW a \in Seq(S), NEW r \in Seq(S)
    PROVE  Len(r) = 1 =>
              /\ Len(a \o r) = Len(a) + 1 /\ Len(a) \in Nat /\ (a \o r)[Len(a) + 1] = r[1]
              /\ \A i \in 1 .. Len(a) : (a \o r)[i] = a[i]
<1>1. /\ Len(a \o r) = Len(a) + Len(r)
      /\ \A i \in 1 .. Len(a) : (a \o r)[i] = a[i]
      /\ \A k \in 1 .. Len(r) : (a \o r)[Len(a) + k] = r[k]
  OBVIOUS
<1>2. Len(a) \in Nat
  OBVIOUS
<1>. QED BY <1>1, <1>2

\* Whatever the turn does, the log keeps what may be omitted: only the question of a turn
\* that brought nothing is dropped.
LEMMA LogKeeps ==
    ASSUME TurnOK, PromptNext, TurnOK'
    PROVE  Log \in Seq(Message) /\ Log' \in Seq(Message) /\ Keeps(Log, Log')
<1>1. /\ messages \in Seq(Message) /\ turn \in Seq(Message)
      /\ messages' \in Seq(Message) /\ turn' \in Seq(Message)
  BY DEF TurnOK
<1>2. Log = messages \o turn /\ Log' = messages' \o turn'
  BY DEF Log
<1>3. Log \in Seq(Message) /\ Log' \in Seq(Message)
  BY <1>1, <1>2, Joined
<1>. SUFFICES Keeps(Log, Log')
  BY <1>3
<1>4. ASSUME Len(messages') = Len(messages), Keeps(messages, messages'), Len(turn) <= Len(turn'),
             \A i \in 1 .. Len(turn) : turn'[i] = turn[i]
      PROVE  Keeps(Log, Log')
  BY <1>1, <1>2, <1>4, GrownKeeps
<1>5. CASE BeginTurn
  <2>1. messages' = messages /\ turn = <<>>
    BY <1>5 DEF BeginTurn, TurnOK
  <2>2. Len(turn) = 0 /\ Len(turn') \in Nat
    BY <1>1, <2>1
  <2>. QED BY <1>4, <2>1, <2>2, KeepsItself
<1>6. CASE Ask
  <2>1. messages' = CutInPlace(prompt') /\ (turn' = turn \/ \E x : turn' = Append(turn, x))
    BY <1>6, Zenon DEF Ask
  <2>2. Len(messages') = Len(messages)
    BY <1>1, <2>1, CutIsAlike DEF Alike
  <2>3. Len(turn) <= Len(turn') /\ \A i \in 1 .. Len(turn) : turn'[i] = turn[i]
    <3>1. ASSUME NEW x, turn' = Append(turn, x)
          PROVE  Len(turn) <= Len(turn') /\ \A i \in 1 .. Len(turn) : turn'[i] = turn[i]
      BY <1>1, <3>1
    <3>2. CASE turn' = turn
      BY <1>1, <3>2
    <3>. QED BY <2>1, <3>1, <3>2
  <2>4. Keeps(messages, messages')
    BY <1>1, <2>1, CutKeeps
  <2>. QED BY <1>4, <2>2, <2>3, <2>4
<1>7. CASE RunTools
  <2>1. messages' = messages
    BY <1>7 DEF RunTools
  <2>2. PICK done, v :
           done \in Nat /\ turn' = turn \o v /\ v = [k \in 1 .. done |-> v[k]]
    <3>1. PICK n : n = Len(Last(turn).calls)
      OBVIOUS
    <3>2. PICK done \in 0 .. n : \E r : turn' = turn \o
             [k \in 1 .. done |-> Msg("tool", <<>>, Last(turn).calls[k], r[k])]
      BY <1>7, <3>1, Zenon DEF RunTools
    <3>3. PICK r : turn' = turn \o
             [k \in 1 .. done |-> Msg("tool", <<>>, Last(turn).calls[k], r[k])]
      BY <3>2
    <3>4. PICK v : v = [k \in 1 .. done |-> Msg("tool", <<>>, Last(turn).calls[k], r[k])]
      OBVIOUS
    <3>5. v = [k \in 1 .. done |-> v[k]] /\ turn' = turn \o v
      BY <3>3, <3>4
    <3>6. done \in Nat
      OBVIOUS
    <3>. QED BY <3>5, <3>6
  <2>3. \E S : v \in Seq(S) /\ turn \in Seq(S)
    <3>. DEFINE S == Message \cup {v[k] : k \in 1 .. done}
    <3>1. v \in [1 .. done -> S]
      BY <2>2, Zenon
    <3>2. v \in Seq(S)
      <4>. HIDE DEF S
      <4>. QED BY <2>2, <3>1
    <3>3. turn \in Seq(S)
      BY <1>1
    <3>. QED BY <3>2, <3>3
  <2>4. Len(turn) <= Len(turn') /\ \A i \in 1 .. Len(turn) : turn'[i] = turn[i]
    BY <2>2, <2>3
  <2>5. Len(messages') = Len(messages) /\ Keeps(messages, messages')
    BY <2>1, KeepsItself
  <2>. QED BY <1>4, <2>4, <2>5
<1>8. CASE SaveTurn
  <2>1. /\ messages' = IF Len(turn) > 1 THEN messages \o turn ELSE messages
        /\ turn' = <<>> /\ turn # <<>> /\ turn[1] = User
    BY <1>8 DEF SaveTurn, TurnOK
  <2>2. Log' = messages'
    BY <1>1, <1>2, <2>1
  <2>3. CASE Len(turn) > 1
    BY <1>2, <2>1, <2>2, <2>3, KeepsItself
  <2>4. CASE ~(Len(turn) > 1)
    <3>1. Log' = messages
      BY <2>1, <2>2, <2>4
    <3>2. PICK s \in Seq(Message) : s = Log
      BY <1>3
    <3>3. PICK n \in Nat : n = Len(messages) /\ Len(s) = n + 1 /\ s[n + 1] = User
                          /\ \A i \in 1 .. n : s[i] = messages[i]
      <4>1. PICK a, r \in Seq(Message) : a = messages /\ r = turn
        BY <1>1
      <4>2. r # <<>> /\ r[1] = User /\ ~(Len(r) > 1)
        BY <2>1, <2>4, <4>1
      <4>3. Len(r) = 1
        BY <4>2, OneLeft
      <4>4. /\ Len(a \o r) = Len(a) + 1 /\ Len(a) \in Nat /\ (a \o r)[Len(a) + 1] = r[1]
            /\ \A i \in 1 .. Len(a) : (a \o r)[i] = a[i]
        BY <4>3, OneMore
      <4>. QED BY <1>2, <3>2, <4>1, <4>2, <4>4
    <3>4. ASSUME NEW q \in Compactable(s)
          PROVE  q \in Compactable(messages) /\ messages[q].id = s[q].id
      <4>1. /\ \A j : j \in Compactable(messages) <=>
                  /\ j \in 1 .. Len(messages) /\ messages[j].role = "tool"
                  /\ messages[j].compactable /\ messages[j].size \in {"large", "huge", "cut"}
            /\ \A j : j \in Compactable(s) <=>
                  /\ j \in 1 .. Len(s) /\ s[j].role = "tool" /\ s[j].compactable
                  /\ s[j].size \in {"large", "huge", "cut"}
        BY <1>1, CompactableIs DEF Message
      <4>2. q # n + 1
        <5>1. s[q].role = "tool"
          BY <4>1, Zenon
        <5>2. User.role = "user"
          BY PlainMessages
        <5>. QED BY <3>3, <5>1, <5>2
      <4>3. q \in 1 .. n + 1
        BY <3>3, <4>1
      <4>4. q \in 1 .. Len(messages) /\ s[q] = messages[q]
        BY <3>3, <4>2, <4>3
      <4>. QED BY <4>1, <4>4, Zenon
    <3>5. Keeps(s, messages)
      BY <3>4 DEF Keeps
    <3>. QED BY <3>1, <3>2, <3>5
  <2>. QED BY <2>3, <2>4
<1>9. CASE Consolidate
  <2>1. Log' = Log
    BY <1>9 DEF Consolidate, Log
  <2>. QED BY <2>1, KeepsItself
<1>. QED BY <1>5, <1>6, <1>7, <1>8, <1>9 DEF PromptNext

LEMMA PromptKept == ASSUME PromptInv, [PromptNext]_promptVars PROVE PromptInv'
<1>1. TurnOK /\ prompt \in Seq(MessagesOf(Sizes \cup {"omitted"})) /\ WellFormed(prompt)
  BY DEF PromptInv
<1>2. CASE BeginTurn
  <2>1. prompt' = prompt
    BY <1>2 DEF BeginTurn
  <2>. QED BY <1>1, <1>2, <2>1, TurnBegins DEF PromptInv
<1>3. CASE Ask
  BY <1>1, <1>3, TurnAsks DEF PromptInv
<1>4. CASE RunTools
  <2>1. prompt' = prompt
    BY <1>4 DEF RunTools
  <2>. QED BY <1>1, <1>4, <2>1, ToolsRun DEF PromptInv
<1>5. CASE SaveTurn
  <2>1. prompt' = prompt
    BY <1>5 DEF SaveTurn
  <2>. QED BY <1>1, <1>5, <2>1, TurnIsSaved DEF PromptInv
<1>6. CASE Consolidate
  <2>1. /\ messages' = messages /\ turn' = turn /\ prompt' = prompt /\ ids' = ids
        /\ phase' = phase /\ from' = from /\ lastConsolidated' \in 0 .. Len(messages)
    BY <1>1, <1>6 DEF Consolidate, TurnOK
  <2>. QED BY <1>1, <2>1 DEF PromptInv, TurnOK, Log
<1>7. CASE UNCHANGED promptVars
  BY <1>1, <1>7 DEF promptVars, PromptInv, TurnOK, Log
<1>. QED BY <1>2, <1>3, <1>4, <1>5, <1>6, <1>7 DEF PromptNext

LEMMA PromptInductive == PromptSpec => []PromptInv
<1>1. PromptInit => PromptInv
  BY PromptStarts
<1>2. PromptInv /\ [PromptNext]_promptVars => PromptInv'
  BY PromptKept
<1>. QED BY <1>1, <1>2, PTL DEF PromptSpec

\* In every prompt each call has its results right after it, and no result is without its
\* call: whatever turn broke off, and wherever consolidation cut the session.
THEOREM PromptsAreWellFormed == PromptSpec => []PromptWellFormed
<1>1. PromptInv => PromptWellFormed
  BY DEF PromptInv, WellFormed, PromptWellFormed
<1>. QED BY <1>1, PromptInductive, PTL

\* What a prompt omits is old in the log from then on, so a later prompt omits it as well.
LEMMA OmittedStays ==
    ASSUME PromptInv, OmittedIsOld, [PromptNext]_promptVars, PromptInv'
    PROVE  /\ OmittedIsOld'
           /\ \A i \in DOMAIN prompt, k \in DOMAIN prompt' :
                 prompt[i].size = "omitted" /\ prompt'[k].id = prompt[i].id
                     => prompt'[k].size = "omitted"
<1>1. TurnOK /\ TurnOK' /\ DOMAIN prompt = 1 .. Len(prompt) /\ DOMAIN prompt' = 1 .. Len(prompt')
  BY DEF PromptInv
<1>2. CASE UNCHANGED promptVars
  BY <1>2 DEF promptVars, OmittedIsOld, Log
<1>3. ASSUME PromptNext
      PROVE  /\ Log \in Seq(Message) /\ Log' \in Seq(Message)
             /\ \A p \in 1 .. Len(Log) : Old(Log, p) =>
                   p \in 1 .. Len(Log') /\ Log'[p].id = Log[p].id /\ Old(Log', p)
             /\ DOMAIN Log = 1 .. Len(Log) /\ DOMAIN Log' = 1 .. Len(Log')
  <2>1. PICK s, t \in Seq(Message) : s = Log /\ t = Log' /\ Keeps(s, t)
    BY <1>1, <1>3, LogKeeps
  <2>2. \A p : Old(s, p) => p \in 1 .. Len(t) /\ t[p].id = s[p].id /\ Old(t, p)
    BY <2>1, KeptOld
  <2>3. DOMAIN s = 1 .. Len(s) /\ DOMAIN t = 1 .. Len(t)
    OBVIOUS
  <2>. QED BY <2>1, <2>2, <2>3
<1>4. CASE PromptNext /\ prompt' = prompt
  <2>1. ASSUME NEW i \in DOMAIN prompt', prompt'[i].size = "omitted"
        PROVE  /\ \E p \in DOMAIN Log' : Log'[p].id = prompt'[i].id /\ Old(Log', p)
               /\ \A k \in DOMAIN prompt' : prompt'[k].id = prompt'[i].id
                     => prompt'[k].size = "omitted"
    <3>1. PICK p \in DOMAIN Log : Log[p].id = prompt[i].id /\ Old(Log, p)
      BY <1>4, <2>1 DEF OmittedIsOld
    <3>2. p \in DOMAIN Log' /\ Log'[p].id = prompt'[i].id /\ Old(Log', p)
      BY <1>3, <1>4, <3>1
    <3>. QED BY <1>4, <2>1, <3>2 DEF OmittedIsOld
  <2>2. OmittedIsOld'
    BY <2>1 DEF OmittedIsOld
  <2>. QED BY <1>4, <2>2 DEF OmittedIsOld
<1>5. CASE Ask
  <2>1. PromptNext
    BY <1>5 DEF PromptNext
  <2>2. prompt' = BuildMessageModifier(Input)
    BY <1>5 DEF Ask
  <2>3. PICK s \in Seq(Message) : s = Log
    BY <1>3, <2>1
  <2>4. from \in 1 .. Len(s) + 1 /\ Input = SubSeq(s, from, Len(s)) /\ Paired(s)
    <3>1. messages \in Seq(Message) /\ turn \in Seq(Message) /\ from \in 1 .. Len(messages) + 1
      BY <1>1, <1>5 DEF TurnOK, Ask
    <3>. QED BY <1>1, <2>3, <3>1, InputIsEnd DEF TurnOK
  <2>5. PICK P : P = prompt' /\ OmitsTheOld(s, P) /\ DOMAIN P = 1 .. Len(P)
    <3>1. OmitsTheOld(s, prompt')
      BY <2>2, <2>4, ModifiedOmitsTheOld
    <3>. QED BY <1>1, <3>1
  <2>6. /\ \A k \in 1 .. Len(P) : P[k].size = "omitted" =>
              \E p \in 1 .. Len(s) : s[p].id = P[k].id /\ Old(s, p)
        /\ \A p \in 1 .. Len(s) : \A k \in 1 .. Len(P) :
              Old(s, p) /\ P[k].id = s[p].id => P[k].size = "omitted"
    BY <2>5, Zenon DEF OmitsTheOld
  <2>7. ASSUME NEW i \in 1 .. Len(P), P[i].size = "omitted"
        PROVE  /\ \E p \in DOMAIN Log' : Log'[p].id = P[i].id /\ Old(Log', p)
               /\ \A k \in 1 .. Len(P) : P[k].id = P[i].id => P[k].size = "omitted"
    <3>1. PICK p \in 1 .. Len(s) : s[p].id = P[i].id /\ Old(s, p)
      BY <2>6, <2>7
    <3>2. p \in DOMAIN Log' /\ Log'[p].id = P[i].id /\ Old(Log', p)
      BY <1>3, <2>1, <2>3, <3>1
    <3>. QED BY <2>6, <3>1, <3>2
  <2>8. OmittedIsOld'
    BY <2>5, <2>7, Zenon DEF OmittedIsOld
  <2>9. ASSUME NEW i \in DOMAIN prompt, NEW k \in 1 .. Len(P),
               prompt[i].size = "omitted", P[k].id = prompt[i].id
        PROVE  P[k].size = "omitted"
    <3>1. PICK p \in DOMAIN Log : Log[p].id = prompt[i].id /\ Old(Log, p)
      BY <2>9 DEF OmittedIsOld
    <3>2. p \in 1 .. Len(s) /\ s[p].id = P[k].id /\ Old(s, p)
      BY <1>3, <2>1, <2>3, <2>9, <3>1
    <3>. QED BY <2>6, <3>2
  <2>. QED BY <2>5, <2>8, <2>9, Zenon
<1>6. PromptNext => Ask \/ prompt' = prompt
  BY DEF PromptNext, BeginTurn, RunTools, SaveTurn, Consolidate
<1>. QED BY <1>2, <1>4, <1>5, <1>6

\* A result that was omitted from one prompt is in no later prompt in full, so the part of
\* the prompt before the last results does not change back and forth.
THEOREM OmittedStaysOut == PromptSpec => OmittedStaysOmitted
<1>1. PromptInit => OmittedIsOld
  BY DEF PromptInit, OmittedIsOld
<1>2. PromptInv /\ OmittedIsOld /\ [PromptNext]_promptVars /\ PromptInv' => OmittedIsOld'
  BY OmittedStays
<1>3. PromptInv /\ OmittedIsOld /\ [PromptNext]_promptVars /\ PromptInv'
         => [\A i \in DOMAIN prompt, k \in DOMAIN prompt' :
                prompt[i].size = "omitted" /\ prompt'[k].id = prompt[i].id
                    => prompt'[k].size = "omitted"]_promptVars
  BY OmittedStays
<1>. QED BY <1>1, <1>2, <1>3, PromptInductive, PTL DEF PromptSpec, OmittedStaysOmitted
=============================================================================
