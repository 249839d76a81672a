--------------------------- MODULE FileToolsProofs ---------------------------
(***************************************************************************)
(* A file that no two calls changed at the same time holds what the calls  *)
(* make of it one after the other, for any files and any calls.            *)
(*                                                                         *)
(* The property is a fold over the calls that returned, each a fold over   *)
(* its edits.  The library's theorems of induction take an operator; that  *)
(* every set of natural numbers has a least element does not, and gives    *)
(* the induction that the two folds need.                                  *)
(***************************************************************************)
EXTENDS FileTools, WellFoundedInduction, TLAPS

-----------------------------------------------------------------------------
(* Induction and folds                                                      *)

LEMMA Induction ==
    ASSUME NEW T, 0 \in T, \A n \in Nat : n \in T => n + 1 \in T
    PROVE  Nat \subseteq T
<1>. SUFFICES ASSUME Nat \ T # {} PROVE FALSE
  OBVIOUS
<1>1. PICK x \in Nat \ T : \A y \in Nat \ T : <<y, x>> \notin OpToRel(<, Nat)
  BY WFMin, NatLessThanWellFounded, Zenon
<1>2. \A y \in Nat \ T : ~(y < x)
  BY <1>1, Zenon DEF OpToRel
<1>3. x - 1 \in Nat /\ x - 1 < x
  OBVIOUS
<1>. QED BY <1>2, <1>3

LEMMA MaxOfInterval ==
    ASSUME NEW n \in Nat
    PROVE  /\ Max(1 .. n + 1) = n + 1
           /\ (1 .. n + 1) \ {n + 1} = 1 .. n
BY DEF Max

\* A step of one of the two folds: a call, or an edit of call c.
Step(of, c, files, x) == IF of = "calls" THEN Effect(files, x) ELSE EditEffect(c, files, x)

\* The recursive function behind a fold along r, which has n elements.
IsFold(of, c, base, r, n, it) ==
    it = [t \in SUBSET (1 .. n) |->
            IF t = {} THEN base ELSE Step(of, c, it[t \ {Max(t)}], r[Max(t)])]
TheFold(of, c, base, r, n) == CHOOSE it : IsFold(of, c, base, r, n, it)
Fold(of, c, base, r, n) == TheFold(of, c, base, r, n)[1 .. n]

LEMMA MaxInSubset ==
    ASSUME NEW n \in Nat, NEW t \in SUBSET (1 .. n + 1)
    PROVE  /\ n + 1 \in t => Max(t) = n + 1 /\ t \ {n + 1} \in SUBSET (1 .. n)
           /\ n + 1 \notin t => t \in SUBSET (1 .. n) /\ t \ {Max(t)} \in SUBSET (1 .. n)
<1>1. ASSUME n + 1 \in t PROVE Max(t) = n + 1
  <2>1. \A y \in t : y \in Int /\ n + 1 >= y
    OBVIOUS
  <2>2. \A x \in t : (\A y \in t : x >= y) <=> x = n + 1
    BY <1>1, <2>1
  <2>. QED BY <1>1, <2>2 DEF Max
<1>2. n + 1 \in t => t \ {n + 1} \in SUBSET (1 .. n)
  OBVIOUS
<1>3. n + 1 \notin t => t \in SUBSET (1 .. n)
  OBVIOUS
<1>. QED BY <1>1, <1>2, <1>3

LEMMA FoldExists ==
    ASSUME NEW of, NEW c, NEW base, NEW s
    PROVE  \A n \in Nat : \E it : IsFold(of, c, base, s, n, it)
<1>. DEFINE T == {n \in Nat : \E it : IsFold(of, c, base, s, n, it)}
<1>1. 0 \in T
  <2>. DEFINE it == [t \in SUBSET (1 .. 0) |-> base]
  <2>1. \A t \in SUBSET (1 .. 0) : t = {}
    OBVIOUS
  <2>2. IsFold(of, c, base, s, 0, it)
    BY <2>1 DEF IsFold
  <2>. QED BY <2>2
<1>2. ASSUME NEW n \in Nat, n \in T PROVE n + 1 \in T
  <2>1. PICK it : IsFold(of, c, base, s, n, it)
    BY <1>2
  <2>. DEFINE next == [t \in SUBSET (1 .. n + 1) |->
                IF n + 1 \in t THEN Step(of, c, it[t \ {n + 1}], s[n + 1]) ELSE it[t]]
  <2>2. ASSUME NEW t \in SUBSET (1 .. n + 1)
        PROVE  next[t] = IF t = {} THEN base ELSE Step(of, c, next[t \ {Max(t)}], s[Max(t)])
    <3>1. CASE n + 1 \in t
      <4>1. Max(t) = n + 1 /\ t \ {n + 1} \in SUBSET (1 .. n)
        BY <3>1, MaxInSubset
      <4>2. next[t \ {n + 1}] = it[t \ {n + 1}]
        BY <4>1
      <4>. QED BY <3>1, <4>1, <4>2
    <3>2. CASE n + 1 \notin t
      <4>1. t \in SUBSET (1 .. n) /\ t \ {Max(t)} \in SUBSET (1 .. n)
        BY <3>2, MaxInSubset
      <4>2. next[t \ {Max(t)}] = it[t \ {Max(t)}]
        BY <4>1
      <4>. QED BY <2>1, <3>2, <4>1, <4>2 DEF IsFold
    <3>. QED BY <3>1, <3>2
  <2>3. IsFold(of, c, base, s, n + 1, next)
    BY <2>2, Zenon DEF IsFold
  <2>. QED BY <2>3
<1>3. Nat \subseteq T
  <2>. HIDE DEF T
  <2>. QED BY <1>1, <1>2, Induction
<1>. QED BY <1>3

LEMMA FoldAt ==
    ASSUME NEW of, NEW c, NEW base, NEW s, NEW n \in Nat
    PROVE  /\ TheFold(of, c, base, s, n)[1 .. 0] = base
           /\ \A k \in Nat : k < n =>
                 TheFold(of, c, base, s, n)[1 .. k + 1]
                   = Step(of, c, TheFold(of, c, base, s, n)[1 .. k], s[k + 1])
<1>. PICK it : it = TheFold(of, c, base, s, n)
  OBVIOUS
<1>. IsFold(of, c, base, s, n, it)
  BY FoldExists DEF TheFold
<1>1. ASSUME NEW t \in SUBSET (1 .. n)
      PROVE  it[t] = IF t = {} THEN base ELSE Step(of, c, it[t \ {Max(t)}], s[Max(t)])
  BY Zenon DEF IsFold
<1>2. 1 .. 0 = {} /\ {} \in SUBSET (1 .. n)
  OBVIOUS
<1>3. ASSUME NEW k \in Nat, k < n
      PROVE  it[1 .. k + 1] = Step(of, c, it[1 .. k], s[k + 1])
  <2>1. 1 .. k + 1 \in SUBSET (1 .. n) /\ k + 1 \in 1 .. k + 1
    BY <1>3
  <2>2. Max(1 .. k + 1) = k + 1 /\ (1 .. k + 1) \ {k + 1} = 1 .. k
    BY MaxOfInterval
  <2>. QED BY <1>1, <2>1, <2>2, Zenon
<1>. QED BY <1>1, <1>2, <1>3, Zenon

LEMMA FoldAppend ==
    ASSUME NEW of, NEW c, NEW base, NEW S, NEW s \in Seq(S), NEW x \in S
    PROVE  /\ Fold(of, c, base, <<>>, 0) = base
           /\ Fold(of, c, base, Append(s, x), Len(s) + 1)
                = Step(of, c, Fold(of, c, base, s, Len(s)), x)
<1>. PICK t : t = Append(s, x)
  OBVIOUS
<1>. DEFINE F(r, n) == TheFold(of, c, base, r, n)
<1>1. ASSUME NEW r, NEW n \in Nat
      PROVE  /\ F(r, n)[1 .. 0] = base
             /\ \A k \in Nat : k < n =>
                   F(r, n)[1 .. k + 1] = Step(of, c, F(r, n)[1 .. k], r[k + 1])
  BY FoldAt
<1>2. \A r, n : Fold(of, c, base, r, n) = F(r, n)[1 .. n]
  BY Zenon DEF Fold
<1>. HIDE DEF F
<1>3. /\ Len(s) \in Nat /\ Len(s) + 1 \in Nat /\ Len(s) < Len(s) + 1
      /\ t[Len(s) + 1] = x /\ \A i \in 1 .. Len(s) : t[i] = s[i]
  OBVIOUS
<1>. DEFINE T == {k \in Nat : k <= Len(s) => F(t, Len(s) + 1)[1 .. k] = F(s, Len(s))[1 .. k]}
<1>4. 0 \in T
  <2>1. F(t, Len(s) + 1)[1 .. 0] = base /\ F(s, Len(s))[1 .. 0] = base
    BY <1>1, <1>3
  <2>. QED BY <2>1
<1>5. ASSUME NEW k \in Nat, k \in T PROVE k + 1 \in T
  <2>. SUFFICES ASSUME k + 1 <= Len(s)
                PROVE  F(t, Len(s) + 1)[1 .. k + 1] = F(s, Len(s))[1 .. k + 1]
    OBVIOUS
  <2>1. F(t, Len(s) + 1)[1 .. k] = F(s, Len(s))[1 .. k] /\ t[k + 1] = s[k + 1]
    BY <1>3, <1>5
  <2>2. k < Len(s) /\ k < Len(s) + 1
    BY <1>3
  <2>3. F(t, Len(s) + 1)[1 .. k + 1] = Step(of, c, F(t, Len(s) + 1)[1 .. k], t[k + 1])
    BY <1>1, <1>3, <2>2, Zenon
  <2>4. F(s, Len(s))[1 .. k + 1] = Step(of, c, F(s, Len(s))[1 .. k], s[k + 1])
    BY <1>1, <1>3, <2>2, Zenon
  <2>. QED BY <2>1, <2>3, <2>4
<1>6. F(t, Len(s) + 1)[1 .. Len(s)] = F(s, Len(s))[1 .. Len(s)]
  <2>1. Nat \subseteq T
    <3>. HIDE DEF T
    <3>. QED BY <1>4, <1>5, Induction
  <2>. QED BY <1>3, <2>1
<1>7. F(t, Len(s) + 1)[1 .. Len(s) + 1] = Step(of, c, F(s, Len(s))[1 .. Len(s)], x)
  <2>1. F(t, Len(s) + 1)[1 .. Len(s) + 1]
          = Step(of, c, F(t, Len(s) + 1)[1 .. Len(s)], t[Len(s) + 1])
    BY <1>1, <1>3, Zenon
  <2>. QED BY <1>3, <1>6, <2>1, Zenon
<1>8. Fold(of, c, base, <<>>, 0) = base
  BY <1>1, <1>2
<1>. QED BY <1>2, <1>7, <1>8, Zenon

\* Calls in order: the last call works on what the others have made.
CallsEffect(files, s) == FoldLeft(Effect, files, s)

LEMMA EffectAppend ==
    ASSUME NEW base, NEW S, NEW s \in Seq(S), NEW c \in S
    PROVE  /\ CallsEffect(base, <<>>) = base
           /\ CallsEffect(base, Append(s, c)) = Effect(CallsEffect(base, s), c)
<1>1. ASSUME NEW r, NEW n \in Nat, DOMAIN r = 1 .. n
      PROVE  CallsEffect(base, r) = Fold("calls", c, base, r, n)
  BY <1>1 DEF CallsEffect, FoldLeft, MapThenFoldSet, Fold, TheFold, IsFold, Step
<1>2. /\ DOMAIN <<>> = 1 .. 0 /\ Len(s) \in Nat /\ Len(s) + 1 \in Nat
      /\ DOMAIN s = 1 .. Len(s) /\ DOMAIN Append(s, c) = 1 .. Len(s) + 1
  OBVIOUS
<1>3. /\ Fold("calls", c, base, <<>>, 0) = base
      /\ Fold("calls", c, base, Append(s, c), Len(s) + 1)
           = Effect(Fold("calls", c, base, s, Len(s)), c)
  BY FoldAppend DEF Step
<1>. QED BY <1>1, <1>2, <1>3, Zenon

\* ... and the edits of a call.
EditsEffect(c, files, s) == FoldLeft(LAMBDA fs, e : EditEffect(c, fs, e), files, s)

LEMMA EditAppend ==
    ASSUME NEW c, NEW base, NEW S, NEW s \in Seq(S), NEW e \in S
    PROVE  /\ EditsEffect(c, base, <<>>) = base
           /\ EditsEffect(c, base, Append(s, e)) = EditEffect(c, EditsEffect(c, base, s), e)
<1>1. ASSUME NEW r, NEW n \in Nat, DOMAIN r = 1 .. n
      PROVE  EditsEffect(c, base, r) = Fold("edits", c, base, r, n)
  BY <1>1 DEF EditsEffect, FoldLeft, MapThenFoldSet, Fold, TheFold, IsFold, Step
<1>2. /\ DOMAIN <<>> = 1 .. 0 /\ Len(s) \in Nat /\ Len(s) + 1 \in Nat
      /\ DOMAIN s = 1 .. Len(s) /\ DOMAIN Append(s, e) = 1 .. Len(s) + 1
  OBVIOUS
<1>3. /\ Fold("edits", c, base, <<>>, 0) = base
      /\ Fold("edits", c, base, Append(s, e), Len(s) + 1)
           = EditEffect(c, Fold("edits", c, base, s, Len(s)), e)
  BY FoldAppend DEF Step
<1>. QED BY <1>1, <1>2, <1>3, Zenon

-----------------------------------------------------------------------------
(* What a call has done after k edits                                       *)

Upto(files, c, k) == EditsEffect(c, files, SubSeq(Edits(c), 1, k))

LEMMA UptoStep ==
    ASSUME NEW c \in CallIds, NEW files
    PROVE  /\ Len(Edits(c)) \in Nat \ {0}
           /\ Upto(files, c, 0) = files
           /\ \A k \in Nat : k < Len(Edits(c)) =>
                 Upto(files, c, k + 1) = EditEffect(c, Upto(files, c, k), Edits(c)[k + 1])
           /\ Effect(files, c) = Upto(files, c, Len(Edits(c)))
<1>1. PICK E, S : E = Edits(c) /\ E \in Seq(S) /\ Len(E) \in Nat \ {0}
  BY FileToolsAssumption
<1>2. Upto(files, c, 0) = files
  <2>1. SubSeq(E, 1, 0) = <<>>
    BY <1>1
  <2>2. PICK e : e \in S
    BY <1>1
  <2>3. <<>> \in Seq(S)
    OBVIOUS
  <2>. QED BY <1>1, <2>1, <2>2, <2>3, EditAppend DEF Upto
<1>3. ASSUME NEW k \in Nat, k < Len(E)
      PROVE  Upto(files, c, k + 1) = EditEffect(c, Upto(files, c, k), E[k + 1])
  <2>1. /\ SubSeq(E, 1, k) \in Seq(S) /\ E[k + 1] \in S
        /\ SubSeq(E, 1, k + 1) = Append(SubSeq(E, 1, k), E[k + 1])
    BY <1>1, <1>3
  <2>2. \A s \in Seq(S), e \in S :
           EditsEffect(c, files, Append(s, e)) = EditEffect(c, EditsEffect(c, files, s), e)
    BY EditAppend
  <2>. QED BY <1>1, <2>1, <2>2 DEF Upto
<1>4. Effect(files, c) = Upto(files, c, Len(E))
  <2>1. SubSeq(E, 1, Len(E)) = E
    BY <1>1
  <2>. QED BY <1>1, <2>1 DEF Effect, Upto, EditsEffect
<1>. QED BY <1>1, <1>2, <1>3, <1>4

\* An edit changes its file only, and looks at nothing else.
LEMMA EditIsLocal ==
    ASSUME NEW c, NEW e, NEW g, NEW h, NEW f \in DOMAIN g \cap DOMAIN h
    PROVE  /\ DOMAIN EditEffect(c, g, e) = DOMAIN g
           /\ e.file # f => EditEffect(c, g, e)[f] = g[f]
           /\ g[f] = h[f] => EditEffect(c, g, e)[f] = EditEffect(c, h, e)[f]
<1>1. CASE e.file = f
  BY <1>1 DEF EditEffect
<1>2. CASE e.file # f
  BY <1>2 DEF EditEffect
<1>. QED BY <1>1, <1>2

LEMMA UptoIsLocal ==
    ASSUME NEW c \in CallIds, NEW n \in Nat, n <= Len(Edits(c))
    PROVE  \A g, h, f : f \in DOMAIN g \cap DOMAIN h =>
              /\ DOMAIN Upto(g, c, n) = DOMAIN g
              /\ f \notin FilesOf(c) => Upto(g, c, n)[f] = g[f]
              /\ g[f] = h[f] => Upto(g, c, n)[f] = Upto(h, c, n)[f]
<1>. TAKE g, h, f
<1>. HAVE f \in DOMAIN g \cap DOMAIN h
<1>. DEFINE P(k) == /\ DOMAIN Upto(g, c, k) = DOMAIN g /\ DOMAIN Upto(h, c, k) = DOMAIN h
                    /\ f \notin FilesOf(c) => Upto(g, c, k)[f] = g[f]
                    /\ g[f] = h[f] => Upto(g, c, k)[f] = Upto(h, c, k)[f]
            T == {k \in Nat : k <= Len(Edits(c)) => P(k)}
<1>1. 0 \in T
  <2>1. Upto(g, c, 0) = g /\ Upto(h, c, 0) = h
    BY UptoStep
  <2>. QED BY <2>1
<1>2. ASSUME NEW k \in Nat, k \in T PROVE k + 1 \in T
  <2>. SUFFICES ASSUME k + 1 <= Len(Edits(c)) PROVE P(k + 1)
    OBVIOUS
  <2>1. k < Len(Edits(c)) /\ P(k)
    BY <1>2, UptoStep
  <2>. DEFINE e == Edits(c)[k + 1]
              G == Upto(g, c, k)
              H == Upto(h, c, k)
  <2>2. Upto(g, c, k + 1) = EditEffect(c, G, e) /\ Upto(h, c, k + 1) = EditEffect(c, H, e)
    <3>1. \A files : Upto(files, c, k + 1) = EditEffect(c, Upto(files, c, k), Edits(c)[k + 1])
      BY <2>1, UptoStep
    <3>. QED BY <3>1
  <2>3. e.file \in FilesOf(c)
    <3>1. k + 1 \in DOMAIN Edits(c)
      BY <2>1, FileToolsAssumption
    <3>. QED BY <3>1 DEF FilesOf
  <2>4. f \in DOMAIN G \cap DOMAIN H
    BY <2>1
  <2>. HIDE DEF G, H, e
  <2>5. /\ DOMAIN EditEffect(c, G, e) = DOMAIN G /\ DOMAIN EditEffect(c, H, e) = DOMAIN H
        /\ e.file # f => EditEffect(c, G, e)[f] = G[f]
        /\ G[f] = H[f] => EditEffect(c, G, e)[f] = EditEffect(c, H, e)[f]
    <3>1. \A u, v : f \in DOMAIN u \cap DOMAIN v =>
             /\ DOMAIN EditEffect(c, u, e) = DOMAIN u
             /\ e.file # f => EditEffect(c, u, e)[f] = u[f]
             /\ u[f] = v[f] => EditEffect(c, u, e)[f] = EditEffect(c, v, e)[f]
      BY EditIsLocal
    <3>. QED BY <2>4, <3>1
  <2>. QED BY <2>1, <2>2, <2>3, <2>5 DEF G, H
<1>3. Nat \subseteq T
  <2>. HIDE DEF T
  <2>. QED BY <1>1, <1>2, Induction
<1>. QED BY <1>3

-----------------------------------------------------------------------------
(* The invariant                                                            *)

\* What the calls that returned make of the files, one after the other.
Done == CallsEffect(InitialFiles, over)

Apart(f) == f \in FileNames \ (clashed \cup faulted)
Changing(c, f) == Writer(c) /\ Underway(c) /\ f \in FilesOf(c)
Before(c) == Upto(Done, c, job[c].at - 1)

JobsOK ==
    /\ job = [c \in CallIds |-> [phase |-> job[c].phase, at |-> job[c].at,
                                  pending |-> job[c].pending]]
    /\ disk = [f \in FileNames |-> disk[f]] /\ DOMAIN Done = FileNames
    /\ over \in Seq(CallIds)
    /\ \A c \in CallIds :
          /\ job[c].phase # "over" => job[c].at \in 1 .. Len(Edits(c))
          /\ job[c].phase = "none" => job[c].at = 1
          /\ job[c].phase \in {"opening", "filling"} =>
                Writer(c) /\ job[c].pending # Absent
          /\ job[c].phase = "reading" => ToolCalls[c].tool \in {"edit_file", "apply_patch"}
          /\ job[c].phase = "page" => ~Writer(c)

\* Nobody else changes the files that stand apart, ...
OneChanges(f) == \A c, d \in CallIds : Changing(c, f) /\ Changing(d, f) => c = d

\* ... so that they hold what the edits made of it, those of the call underway included,
\* and what this call is about to write is its next edit of that.
FileOK(f) ==
    /\ OneChanges(f)
    /\ (\A c \in CallIds : ~Changing(c, f)) => disk[f] = Done[f]
    /\ \A c \in CallIds : Changing(c, f) =>
          /\ Edit(c).file # f \/ job[c].phase # "filling" => disk[f] = Before(c)[f]
          /\ job[c].phase \in {"opening", "filling"} /\ Edit(c).file = f =>
                job[c].pending = EditEffect(c, Before(c), Edit(c))[f]

FileInv == JobsOK /\ \A f \in FileNames : Apart(f) => FileOK(f)

LEMMA DoneAppend ==
    /\ CallsEffect(InitialFiles, <<>>) = InitialFiles
    /\ \A s \in Seq(CallIds), c \in CallIds :
          CallsEffect(InitialFiles, Append(s, c)) = Effect(CallsEffect(InitialFiles, s), c)
<1>1. CallsEffect(InitialFiles, <<>>) = InitialFiles
  <2>1. <<>> \in Seq({0}) /\ 0 \in {0}
    OBVIOUS
  <2>. QED BY <2>1, EffectAppend
<1>2. ASSUME NEW s \in Seq(CallIds), NEW c \in CallIds
      PROVE  CallsEffect(InitialFiles, Append(s, c)) = Effect(CallsEffect(InitialFiles, s), c)
  BY EffectAppend
<1>. QED BY <1>1, <1>2

LEMMA EditOfCall ==
    ASSUME NEW c \in CallIds, JobsOK, job[c].phase # "over"
    PROVE  /\ Edit(c).file \in FilesOf(c) /\ Edit(c).file \in FileNames
           /\ Writer(c) => Edit(c).new # Absent
           /\ job[c].at \in 1 .. Len(Edits(c)) /\ Len(Edits(c)) \in Nat \ {0}
<1>1. job[c].at \in 1 .. Len(Edits(c))
  BY DEF JobsOK
<1>2. /\ DOMAIN Edits(c) = 1 .. Len(Edits(c)) /\ Len(Edits(c)) \in Nat \ {0}
      /\ FilesOf(c) \subseteq FileNames
      /\ Writer(c) => \A i \in DOMAIN Edits(c) : Edits(c)[i].new # Absent
  BY FileToolsAssumption
<1>. QED BY <1>1, <1>2 DEF Edit, FilesOf

LEMMA BeforeEdit ==
    ASSUME NEW c \in CallIds, JobsOK, job[c].phase # "over"
    PROVE  /\ DOMAIN Before(c) = FileNames
           /\ Upto(Done, c, job[c].at) = EditEffect(c, Before(c), Edit(c))
<1>. DEFINE k == job[c].at - 1
<1>1. /\ k \in Nat /\ k < Len(Edits(c)) /\ k <= Len(Edits(c)) /\ k + 1 = job[c].at
      /\ Edit(c).file \in FileNames /\ DOMAIN Done = FileNames
  <2>1. job[c].at \in 1 .. Len(Edits(c)) /\ Len(Edits(c)) \in Nat \ {0}
    BY EditOfCall
  <2>2. Edit(c).file \in FileNames /\ DOMAIN Done = FileNames
    BY EditOfCall DEF JobsOK
  <2>. QED BY <2>1, <2>2
<1>. HIDE DEF k
<1>2. Upto(Done, c, k + 1) = EditEffect(c, Upto(Done, c, k), Edits(c)[k + 1])
  <2>1. \A n \in Nat : n < Len(Edits(c)) =>
          Upto(Done, c, n + 1) = EditEffect(c, Upto(Done, c, n), Edits(c)[n + 1])
    BY UptoStep
  <2>. QED BY <1>1, <2>1
<1>3. DOMAIN Upto(Done, c, k) = FileNames
  <2>1. \A g, h, f : f \in DOMAIN g \cap DOMAIN h => DOMAIN Upto(g, c, k) = DOMAIN g
    BY <1>1, UptoIsLocal
  <2>. QED BY <1>1, <2>1
<1>. QED BY <1>1, <1>2, <1>3 DEF Before, Edit, k

\* Nothing that concerns f has changed.
LEMMA FileStays ==
    ASSUME JobsOK, NEW f \in FileNames, FileOK(f), DOMAIN Done' = FileNames,
           disk'[f] = disk[f], Done'[f] = Done[f],
           \A d \in CallIds : Changing(d, f) \/ Changing(d, f)' => job'[d] = job[d]
    PROVE  FileOK(f)'
<1>1. ASSUME NEW d \in CallIds PROVE Changing(d, f)' <=> Changing(d, f)
  BY DEF Changing, Underway
<1>2. OneChanges(f)'
  BY <1>1 DEF OneChanges, FileOK
<1>3. ASSUME \A d \in CallIds : ~Changing(d, f)' PROVE disk'[f] = Done'[f]
  BY <1>1, <1>3 DEF FileOK
<1>4. ASSUME NEW d \in CallIds, Changing(d, f)'
      PROVE  /\ Edit(d)'.file # f \/ job'[d].phase # "filling" => disk'[f] = Before(d)'[f]
             /\ job'[d].phase \in {"opening", "filling"} /\ Edit(d)'.file = f =>
                   job'[d].pending = EditEffect(d, Before(d)', Edit(d)')[f]
  <2>1. Changing(d, f) /\ job'[d] = job[d] /\ Edit(d)' = Edit(d)
    BY <1>1, <1>4 DEF Edit
  <2>2. job[d].phase # "over"
    BY <2>1 DEF Changing, Underway
  <2>3. PICK k \in Nat : k = job[d].at - 1 /\ k <= Len(Edits(d))
    BY <2>2, EditOfCall
  <2>4. Before(d) = Upto(Done, d, k) /\ Before(d)' = Upto(Done', d, k)
    BY <2>1, <2>3 DEF Before
  <2>5. \A g, h, e : e \in DOMAIN g \cap DOMAIN h =>
            /\ DOMAIN Upto(g, d, k) = DOMAIN g
            /\ e \notin FilesOf(d) => Upto(g, d, k)[e] = g[e]
            /\ g[e] = h[e] => Upto(g, d, k)[e] = Upto(h, d, k)[e]
    BY <2>3, UptoIsLocal
  <2>6. /\ DOMAIN Before(d) = FileNames /\ DOMAIN Before(d)' = FileNames
        /\ Before(d)'[f] = Before(d)[f]
    <3>1. f \in DOMAIN Done \cap DOMAIN Done' /\ DOMAIN Done = FileNames
      BY DEF JobsOK
    <3>2. /\ DOMAIN Upto(Done, d, k) = FileNames /\ DOMAIN Upto(Done', d, k) = FileNames
          /\ Upto(Done', d, k)[f] = Upto(Done, d, k)[f]
      BY <2>5, <3>1
    <3>. QED BY <2>4, <3>2
  <2>7. \A e, g, h : f \in DOMAIN g \cap DOMAIN h =>
            (g[f] = h[f] => EditEffect(d, g, e)[f] = EditEffect(d, h, e)[f])
    BY EditIsLocal
  <2>8. EditEffect(d, Before(d)', Edit(d)')[f] = EditEffect(d, Before(d), Edit(d))[f]
    BY <2>1, <2>6, <2>7
  <2>. QED BY <2>1, <2>6, <2>8 DEF FileOK
<1>. QED BY <1>2, <1>3, <1>4 DEF FileOK

\* A call that changes f goes on to its next edit, or returns.
LEMMA NextEditOfFile ==
    ASSUME JobsOK, NEW f \in FileNames, FileOK(f), NEW c \in CallIds, Changing(c, f),
           NextEdit(c), disk'[f] = EditEffect(c, Before(c), Edit(c))[f]
    PROVE  FileOK(f)'
<1>1. job[c].phase # "over" /\ Writer(c)
  BY DEF Changing, Underway
<1>2. /\ job[c].at \in 1 .. Len(Edits(c)) /\ Len(Edits(c)) \in Nat \ {0}
      /\ Upto(Done, c, job[c].at) = EditEffect(c, Before(c), Edit(c))
  BY <1>1, EditOfCall, BeforeEdit
<1>3. \A d \in CallIds \ {c} : job'[d] = job[d] /\ ~Changing(d, f)' /\ ~Changing(d, f)
  <2>1. \A d \in CallIds \ {c} : job'[d] = job[d]
    BY DEF NextEdit, JobsOK
  <2>2. \A d \in CallIds \ {c} : ~Changing(d, f)
    BY DEF FileOK, OneChanges
  <2>. QED BY <2>1, <2>2 DEF Changing, Underway
<1>4. CASE job[c].at < Len(Edits(c))
  <2>1. /\ job'[c] = [phase |-> "reading", at |-> job[c].at + 1, pending |-> Absent]
        /\ over' = over
    BY <1>4 DEF NextEdit, JobsOK
  <2>2. Changing(c, f)' /\ Before(c)' = Upto(Done, c, job[c].at)
    <3>1. Changing(c, f)'
      BY <2>1 DEF Changing, Underway
    <3>2. job'[c].at - 1 = job[c].at /\ Done' = Done
      BY <1>2, <2>1 DEF Done
    <3>. QED BY <3>1, <3>2 DEF Before
  <2>3. disk'[f] = Before(c)'[f]
    BY <1>2, <2>2
  <2>. QED BY <1>3, <2>1, <2>2, <2>3 DEF FileOK, OneChanges
<1>5. CASE ~(job[c].at < Len(Edits(c)))
  <2>1. job'[c].phase = "over" /\ over' = Append(over, c) /\ job[c].at = Len(Edits(c))
    BY <1>2, <1>5 DEF NextEdit, JobsOK
  <2>2. ~Changing(c, f)'
    BY <2>1 DEF Changing, Underway
  <2>3. Done' = Effect(Done, c)
    <3>1. over \in Seq(CallIds)
      BY DEF JobsOK
    <3>. QED BY <2>1, <3>1, DoneAppend DEF Done
  <2>4. Done' = Upto(Done, c, job[c].at)
    BY <2>1, <2>3, UptoStep
  <2>. QED BY <1>2, <1>3, <2>2, <2>4 DEF FileOK, OneChanges
<1>. QED BY <1>4, <1>5

\* An edit of c is over: as it should be on the files that stand apart, and the others are
\* as they were.
LEMMA EditOver ==
    ASSUME FileInv, NEW c \in CallIds, Writer(c), Underway(c),
           NextEdit(c), clashed' = clashed, faulted \subseteq faulted',
           disk' = [f \in FileNames |-> disk'[f]],
           \A f \in FileNames :
              IF f \in FilesOf(c) THEN Apart(f)' => disk'[f] = EditEffect(c, Before(c), Edit(c))[f]
              ELSE disk'[f] = disk[f]
    PROVE  FileInv'
<1>1. /\ job[c].phase # "over" /\ job[c].at \in 1 .. Len(Edits(c))
      /\ Len(Edits(c)) \in Nat \ {0}
  BY EditOfCall DEF FileInv, Underway
<1>2. \A d \in CallIds \ {c} : job'[d] = job[d]
  BY DEF NextEdit, FileInv, JobsOK
<1>3. DOMAIN Done = FileNames /\ over \in Seq(CallIds)
  BY DEF FileInv, JobsOK
<1>4. \/ /\ job[c].at < Len(Edits(c)) /\ over' = over /\ Done' = Done
         /\ job'[c] = [phase |-> "reading", at |-> job[c].at + 1, pending |-> Absent]
      \/ /\ over' = Append(over, c) /\ Done' = Upto(Done, c, Len(Edits(c)))
         /\ job'[c] = [phase |-> "over", at |-> job[c].at + 1, pending |-> Absent]
  <2>1. CASE job[c].at < Len(Edits(c))
    BY <2>1 DEF NextEdit, FileInv, JobsOK, Done
  <2>2. CASE ~(job[c].at < Len(Edits(c)))
    <3>1. /\ over' = Append(over, c)
          /\ job'[c] = [phase |-> "over", at |-> job[c].at + 1, pending |-> Absent]
      BY <2>2 DEF NextEdit, FileInv, JobsOK
    <3>2. Done' = Effect(Done, c)
      BY <1>3, <3>1, DoneAppend DEF Done
    <3>3. Effect(Done, c) = Upto(Done, c, Len(Edits(c)))
      BY UptoStep
    <3>. QED BY <3>1, <3>2, <3>3
  <2>. QED BY <2>1, <2>2
<1>5. /\ DOMAIN Done' = FileNames
      /\ \A f \in FileNames : f \notin FilesOf(c) => Done'[f] = Done[f]
  <2>1. PICK n \in Nat : n = Len(Edits(c)) /\ n <= Len(Edits(c))
    BY <1>1
  <2>2. \A g, h, f : f \in DOMAIN g \cap DOMAIN h =>
           /\ DOMAIN Upto(g, c, n) = DOMAIN g
           /\ f \notin FilesOf(c) => Upto(g, c, n)[f] = g[f]
           /\ g[f] = h[f] => Upto(g, c, n)[f] = Upto(h, c, n)[f]
    BY <2>1, UptoIsLocal
  <2>3. Edit(c).file \in FileNames
    BY <1>1, EditOfCall DEF FileInv
  <2>4. /\ DOMAIN Upto(Done, c, n) = FileNames
        /\ \A f \in FileNames : f \notin FilesOf(c) => Upto(Done, c, n)[f] = Done[f]
    <3>1. \A f \in FileNames :
             /\ DOMAIN Upto(Done, c, n) = DOMAIN Done
             /\ f \notin FilesOf(c) => Upto(Done, c, n)[f] = Done[f]
      <4>. TAKE f \in FileNames
      <4>1. f \in DOMAIN Done \cap DOMAIN Done
        BY <1>3
      <4>. QED BY <2>2, <4>1
    <3>. QED BY <1>3, <2>3, <3>1
  <2>. QED BY <1>3, <1>4, <2>1, <2>4
<1>6. JobsOK'
  <2>1. job' = [d \in CallIds |-> [phase |-> job'[d].phase, at |-> job'[d].at,
                                    pending |-> job'[d].pending]]
    BY DEF NextEdit, FileInv, JobsOK
  <2>2. over' \in Seq(CallIds)
    BY <1>3, <1>4
  <2>3. /\ job'[c].phase # "over" => job'[c].at \in 1 .. Len(Edits(c))
        /\ job'[c].phase \notin {"none", "opening", "filling", "page"}
        /\ job'[c].phase = "reading" => ToolCalls[c].tool \in {"edit_file", "apply_patch"}
    <3>1. job[c].at < Len(Edits(c)) => ToolCalls[c].tool = "apply_patch"
      <4>1. ToolCalls[c].tool # "apply_patch" => Len(Edits(c)) = 1
        BY FileToolsAssumption
      <4>2. Len(Edits(c)) = 1 => job[c].at = 1
        BY <1>1
      <4>. QED BY <4>1, <4>2
    <3>. QED BY <1>1, <1>4, <3>1
  <2>. QED BY <1>2, <1>5, <2>1, <2>2, <2>3, ZenonT(60) DEF FileInv, JobsOK
<1>7. ASSUME NEW f \in FileNames, Apart(f)' PROVE FileOK(f)'
  <2>1. JobsOK /\ FileOK(f)
    BY <1>7 DEF Apart, FileInv
  <2>2. CASE f \in FilesOf(c)
    <3>1. Changing(c, f) /\ disk'[f] = EditEffect(c, Before(c), Edit(c))[f]
      BY <1>7, <2>2 DEF Changing
    <3>. QED BY <2>1, <3>1, NextEditOfFile
  <2>3. CASE f \notin FilesOf(c)
    <3>1. /\ DOMAIN Done' = FileNames /\ disk'[f] = disk[f] /\ Done'[f] = Done[f]
      BY <1>5, <2>3
    <3>2. \A d \in CallIds : Changing(d, f) \/ Changing(d, f)' => job'[d] = job[d]
      BY <1>2, <2>3 DEF Changing
    <3>. QED BY <2>1, <3>1, <3>2, FileStays
  <2>. QED BY <2>2, <2>3
<1>. QED BY <1>6, <1>7 DEF FileInv

-----------------------------------------------------------------------------
(* The steps                                                                *)

LEMMA FilesAtStart ==
    ASSUME FileInit PROVE FileInv
<1>1. Done = InitialFiles
  BY DoneAppend DEF FileInit, Done
<1>2. JobsOK
  BY <1>1, FileToolsAssumption DEF FileInit, JobsOK
<1>3. \A c \in CallIds, f \in FileNames : ~Changing(c, f)
  BY DEF FileInit, Changing, Underway
<1>4. \A f \in FileNames : disk[f] = Done[f]
  BY <1>1 DEF FileInit
<1>. QED BY <1>2, <1>3, <1>4 DEF FileInv, FileOK, OneChanges

\* A call that was nowhere begins on files that nobody else changes, or they clash.
LEMMA BeginKeepsFiles ==
    ASSUME FileInv, NEW c \in CallIds, BeginCall(c) PROVE FileInv'
<1>1. /\ disk' = disk /\ over' = over /\ faulted' = faulted /\ Done' = Done
      /\ \A d \in CallIds \ {c} : job'[d] = job[d]
      /\ job[c].phase = "none" /\ job[c].at = 1
  BY DEF BeginCall, FileInv, JobsOK, Done
<1>2. /\ job' = [job EXCEPT ![c] = job'[c]]
      /\ job'[c] = [phase |-> job'[c].phase, at |-> 1, pending |-> job'[c].pending]
      /\ \/ job'[c].phase = "page" /\ ToolCalls[c].tool = "read_file"
         \/ /\ job'[c].phase = "opening" /\ ToolCalls[c].tool = "write_file"
            /\ job'[c].pending = Edit(c).new
         \/ job'[c].phase = "reading" /\ ToolCalls[c].tool \in {"edit_file", "apply_patch"}
  <2>. PICK p, n : p = job[c].pending /\ n = Edit(c).new
    OBVIOUS
  <2>1. job[c] = [phase |-> job[c].phase, at |-> 1, pending |-> p] /\ c \in DOMAIN job
    BY <1>1 DEF FileInv, JobsOK
  <2>2. CASE ToolCalls[c].tool = "read_file"
    <3>1. job' = [job EXCEPT ![c] = [job[c] EXCEPT !.phase = "page"]]
      BY <2>2 DEF BeginCall
    <3>2. [job[c] EXCEPT !.phase = "page"] = [phase |-> "page", at |-> 1, pending |-> p]
      BY <2>1
    <3>3. job'[c] = [phase |-> "page", at |-> 1, pending |-> p]
      BY <2>1, <3>1, <3>2
    <3>. QED BY <2>2, <3>1, <3>2, <3>3
  <2>3. CASE ToolCalls[c].tool = "write_file"
    <3>1. job' = [job EXCEPT ![c] = [job[c] EXCEPT !.phase = "opening", !.pending = n]]
      BY <2>3 DEF BeginCall
    <3>2. [job[c] EXCEPT !.phase = "opening", !.pending = n]
            = [phase |-> "opening", at |-> 1, pending |-> n]
      <4>1. PICK q : job[c] = [phase |-> q, at |-> 1, pending |-> p]
        BY <2>1
      <4>2. [[phase |-> q, at |-> 1, pending |-> p] EXCEPT !.phase = "opening"]
              = [phase |-> "opening", at |-> 1, pending |-> p]
        OBVIOUS
      <4>3. [[phase |-> "opening", at |-> 1, pending |-> p] EXCEPT !.pending = n]
              = [phase |-> "opening", at |-> 1, pending |-> n]
        OBVIOUS
      <4>. QED BY <4>1, <4>2, <4>3
    <3>3. job'[c] = [phase |-> "opening", at |-> 1, pending |-> n]
      BY <2>1, <3>1, <3>2
    <3>. QED BY <2>3, <3>1, <3>2, <3>3
  <2>4. CASE ToolCalls[c].tool \in {"edit_file", "apply_patch"}
    <3>1. job' = [job EXCEPT ![c] = [job[c] EXCEPT !.phase = "reading"]]
      BY <2>4 DEF BeginCall
    <3>2. [job[c] EXCEPT !.phase = "reading"] = [phase |-> "reading", at |-> 1, pending |-> p]
      BY <2>1
    <3>3. job'[c] = [phase |-> "reading", at |-> 1, pending |-> p]
      BY <2>1, <3>1, <3>2
    <3>. QED BY <2>4, <3>1, <3>2, <3>3
  <2>. QED BY <2>2, <2>3, <2>4, FileToolsAssumption DEF Tools
<1>3. job'[c].at = 1 /\ (job'[c].phase = "opening" => job'[c].pending = Edit(c).new)
  BY <1>2
<1>4. /\ job'[c].phase \in {"page", "opening", "reading"}
      /\ job'[c].phase = "page" <=> ~Writer(c)
      /\ job'[c].phase = "opening" <=> ToolCalls[c].tool = "write_file"
  BY <1>2 DEF Writer
<1>5. /\ Edit(c).file \in FilesOf(c) /\ Edit(c).file \in FileNames
      /\ Writer(c) => Edit(c).new # Absent
      /\ 1 \in 1 .. Len(Edits(c)) /\ Edit(c)' = Edit(c)
  BY <1>1, <1>3, EditOfCall DEF FileInv, Edit
<1>6. JobsOK'
  <2>1. job' = [d \in CallIds |-> [phase |-> job'[d].phase, at |-> job'[d].at,
                                    pending |-> job'[d].pending]]
    BY <1>2 DEF FileInv, JobsOK
  <2>2. /\ job'[c].phase = "opening" => Writer(c) /\ job'[c].pending # Absent
        /\ job'[c].phase = "reading" => ToolCalls[c].tool \in {"edit_file", "apply_patch"}
    <3>1. Writer(c) => Edit(c).new # Absent
      BY <1>5
    <3>2. job'[c].phase = "reading" => ToolCalls[c].tool \in {"edit_file", "apply_patch"}
      BY <1>2
    <3>. QED BY <1>3, <1>4, <3>1, <3>2
  <2>. QED BY <1>1, <1>3, <1>4, <1>5, <2>1, <2>2, ZenonT(60) DEF FileInv, JobsOK
<1>7. ASSUME NEW f \in FileNames, Apart(f)' PROVE FileOK(f)'
  <2>1. JobsOK /\ FileOK(f) /\ DOMAIN Done' = FileNames /\ DOMAIN Done = FileNames
    BY <1>1, <1>7 DEF Apart, FileInv, BeginCall, JobsOK
  <2>2. CASE f \in FilesOf(c) /\ Writer(c)
    <3>1. \A d \in CallIds : ~Changing(d, f)
      BY <1>7, <2>2 DEF Apart, BeginCall, Changing
    <3>2. \A d \in CallIds \ {c} : ~Changing(d, f)'
      BY <1>1, <3>1 DEF Changing, Underway
    <3>3. disk'[f] = Done'[f]
      BY <1>1, <2>1, <3>1 DEF FileOK
    <3>4. Before(c)' = Done'
      <4>1. Before(c)' = Upto(Done', c, 0)
        BY <1>3 DEF Before
      <4>2. Upto(Done, c, 0) = Done
        BY UptoStep
      <4>. QED BY <1>1, <4>1, <4>2
    <3>5. ASSUME job'[c].phase = "opening", Edit(c).file = f
          PROVE  job'[c].pending = EditEffect(c, Before(c)', Edit(c))[f]
      <4>1. EditEffect(c, Done', Edit(c))[f] = Edit(c).new
        BY <1>4, <1>5, <2>1, <3>5 DEF EditEffect, Writer
      <4>. QED BY <1>3, <3>4, <3>5, <4>1
    <3>. QED BY <1>4, <1>5, <3>2, <3>3, <3>4, <3>5 DEF FileOK, OneChanges
  <2>3. CASE ~(f \in FilesOf(c) /\ Writer(c))
    <3>1. \A d \in CallIds : Changing(d, f) \/ Changing(d, f)' => job'[d] = job[d]
      BY <1>1, <2>3 DEF Changing
    <3>. QED BY <1>1, <2>1, <3>1, FileStays
  <2>. QED BY <2>2, <2>3
<1>. QED BY <1>6, <1>7 DEF FileInv

LEMMA PageKeepsFiles ==
    ASSUME FileInv, NEW c \in CallIds, ReadPage(c) PROVE FileInv'
<1>1. /\ disk' = disk /\ Done' = Done /\ over' = over /\ clashed' = clashed /\ faulted' = faulted
      /\ \A d \in CallIds \ {c} : job'[d] = job[d]
      /\ job[c].phase = "page" /\ ~Writer(c)
      /\ job' = job \/ job' = [job EXCEPT ![c].phase = "over"]
  BY DEF ReadPage, FileInv, JobsOK, Done
<1>2. JobsOK'
  <2>1. CASE job' = job
    BY <1>1, <2>1 DEF FileInv, JobsOK
  <2>2. CASE job' = [job EXCEPT ![c].phase = "over"]
    <3>1. job'[c].phase = "over"
      BY <2>2 DEF FileInv, JobsOK
    <3>2. job' = [d \in CallIds |-> [phase |-> job'[d].phase, at |-> job'[d].at,
                                      pending |-> job'[d].pending]]
      BY <2>2 DEF FileInv, JobsOK
    <3>. QED BY <1>1, <3>1, <3>2, ZenonT(60) DEF FileInv, JobsOK
  <2>. QED BY <1>1, <2>1, <2>2
<1>3. ASSUME NEW f \in FileNames, Apart(f)' PROVE FileOK(f)'
  <2>1. JobsOK /\ FileOK(f) /\ DOMAIN Done' = FileNames
    BY <1>1, <1>3 DEF Apart, FileInv, JobsOK
  <2>2. \A d \in CallIds : Changing(d, f) \/ Changing(d, f)' => job'[d] = job[d]
    BY <1>1 DEF Changing
  <2>. QED BY <1>1, <2>1, <2>2, FileStays
<1>. QED BY <1>2, <1>3 DEF FileInv

\* What the disk and the call underway hold of a file that stands apart.
LEMMA HeldOfFile ==
    ASSUME FileInv, NEW c \in CallIds, Writer(c), Underway(c),
           NEW f \in FileNames, f \in FilesOf(c), Apart(f)
    PROVE  LET after == EditEffect(c, Before(c), Edit(c)) IN
           /\ DOMAIN Before(c) = FileNames
           /\ Edit(c).file # f => disk[f] = after[f]
           /\ Edit(c).file = f /\ job[c].phase # "filling" => disk[f] = Before(c)[f]
           /\ Edit(c).file = f /\ job[c].phase \in {"opening", "filling"} =>
                 job[c].pending = after[f]
<1>1. Changing(c, f) /\ FileOK(f) /\ JobsOK /\ job[c].phase # "over"
  BY DEF FileInv, Changing, Underway
<1>2. DOMAIN Before(c) = FileNames
  BY <1>1, BeforeEdit
<1>3. /\ Edit(c).file # f \/ job[c].phase # "filling" => disk[f] = Before(c)[f]
      /\ job[c].phase \in {"opening", "filling"} /\ Edit(c).file = f =>
            job[c].pending = EditEffect(c, Before(c), Edit(c))[f]
  BY <1>1 DEF FileOK
<1>4. Edit(c).file # f => EditEffect(c, Before(c), Edit(c))[f] = Before(c)[f]
  <2>1. f \in DOMAIN Before(c) \cap DOMAIN Before(c)
    BY <1>2
  <2>. QED BY <2>1, EditIsLocal
<1>. QED BY <1>2, <1>3, <1>4

\* An edit that failed to read or write leaves its file aside; the others of the call are right.
LEMMA AccessFailsKeepsFiles ==
    ASSUME FileInv, NEW c \in CallIds, Writer(c), Underway(c),
           AccessFails(c), disk' = disk, clashed' = clashed
    PROVE  FileInv'
<1>1. disk' = [f \in FileNames |-> disk'[f]]
  BY DEF FileInv, JobsOK
<1>2. NextEdit(c) /\ faulted \subseteq faulted'
  BY DEF AccessFails
<1>3. ASSUME NEW f \in FileNames, f \in FilesOf(c), Apart(f)'
      PROVE  disk'[f] = EditEffect(c, Before(c), Edit(c))[f]
  <2>1. Apart(f) /\ Edit(c).file # f
    BY <1>3 DEF Apart, AccessFails
  <2>. QED BY <1>3, <2>1, HeldOfFile
<1>. QED BY <1>1, <1>2, <1>3, EditOver

\* The text was read from a file that nobody else writes: it is what the calls made of it.
LEMMA EditReadKeepsFiles ==
    ASSUME FileInv, NEW c \in CallIds, job[c].phase = "reading",
           EditRead(c, NewText(ToolCalls[c].tool, disk[Edit(c).file], Edit(c))),
           disk' = disk, clashed' = clashed, faulted' = faulted
    PROVE  FileInv'
<1>. DEFINE text == NewText(ToolCalls[c].tool, disk[Edit(c).file], Edit(c))
<1>1. /\ job[c].phase = "reading" /\ disk' = disk /\ clashed' = clashed /\ faulted' = faulted
      /\ EditRead(c, text) /\ ToolCalls[c].tool \in {"edit_file", "apply_patch"} /\ Writer(c) /\ Underway(c)
  BY DEF FileInv, JobsOK, Writer, Underway
<1>2. ASSUME NEW f \in FileNames, f \in FilesOf(c), Apart(f), Edit(c).file = f
      PROVE  EditEffect(c, Before(c), Edit(c))[f] = IF text = Absent THEN disk[f] ELSE text
  <2>1. DOMAIN Before(c) = FileNames /\ disk[f] = Before(c)[f]
    BY <1>1, <1>2, HeldOfFile
  <2>2. EditEffect(c, Before(c), Edit(c))
          = IF text = Absent THEN Before(c) ELSE [Before(c) EXCEPT ![f] = text]
    BY <1>1, <1>2, <2>1 DEF EditEffect
  <2>. HIDE DEF text
  <2>. QED BY <2>1, <2>2
<1>3. CASE text = Absent
  <2>1. NextEdit(c)
    BY <1>1, <1>3 DEF EditRead
  <2>2. disk' = [f \in FileNames |-> disk'[f]]
    BY <1>1 DEF FileInv, JobsOK
  <2>3. ASSUME NEW f \in FileNames, f \in FilesOf(c), Apart(f)'
        PROVE  disk'[f] = EditEffect(c, Before(c), Edit(c))[f]
    <3>1. Apart(f)
      BY <1>1, <2>3 DEF Apart
    <3>. QED BY <1>1, <1>2, <1>3, <2>3, <3>1, HeldOfFile
  <2>. HIDE DEF text
  <2>. QED BY <1>1, <2>1, <2>2, <2>3, EditOver
<1>4. CASE text # Absent
  <2>1. over' = over /\ Done' = Done
    BY <1>1, <1>4 DEF EditRead, Done
  <2>2. /\ job' = [job EXCEPT ![c] = job'[c]]
        /\ job'[c] = [phase |-> "opening", at |-> job[c].at, pending |-> text]
    <3>. HIDE DEF text
    <3>1. PICK a, q : job[c] = [phase |-> "reading", at |-> a, pending |-> q]
      <4>1. job[c] = [phase |-> job[c].phase, at |-> job[c].at, pending |-> job[c].pending]
        BY DEF FileInv, JobsOK
      <4>. QED BY <1>1, <4>1
    <3>2. job' = [job EXCEPT ![c].phase = "opening", ![c].pending = text]
      BY <1>1, <1>4 DEF EditRead, text
    <3>3. c \in DOMAIN job
      BY DEF FileInv, JobsOK
    <3>. QED BY <3>1, <3>2, <3>3
  <2>. HIDE DEF text
  <2>3. \A d \in CallIds \ {c} : job'[d] = job[d]
    BY <2>2 DEF FileInv, JobsOK
  <2>4. Edit(c)' = Edit(c) /\ Before(c)' = Before(c)
    BY <2>1, <2>2 DEF Edit, Before
  <2>5. \A d \in CallIds, f \in FileNames : Changing(d, f)' <=> Changing(d, f)
    BY <1>1, <2>2, <2>3 DEF Changing, Underway
  <2>6. JobsOK'
    <3>1. job' = [d \in CallIds |-> [phase |-> job'[d].phase, at |-> job'[d].at,
                                      pending |-> job'[d].pending]]
      BY <2>2 DEF FileInv, JobsOK
    <3>2. job[c].at \in 1 .. Len(Edits(c))
      BY <1>1 DEF FileInv, JobsOK
    <3>3. /\ disk' = [f \in FileNames |-> disk'[f]] /\ DOMAIN Done' = FileNames
          /\ over' \in Seq(CallIds)
      BY <1>1, <2>1 DEF FileInv, JobsOK
    <3>4. /\ job'[c].phase = "opening" /\ job'[c].at \in 1 .. Len(Edits(c))
          /\ job'[c].pending # Absent
      BY <1>4, <2>2, <3>2
    <3>5. ASSUME NEW d \in CallIds
          PROVE  /\ job'[d].phase # "over" => job'[d].at \in 1 .. Len(Edits(d))
                 /\ job'[d].phase = "none" => job'[d].at = 1
                 /\ job'[d].phase \in {"opening", "filling"} => Writer(d) /\ job'[d].pending # Absent
                 /\ job'[d].phase = "reading" => ToolCalls[d].tool \in {"edit_file", "apply_patch"}
                 /\ job'[d].phase = "page" => ~Writer(d)
      <4>1. CASE d = c
        BY <1>1, <3>4, <4>1
      <4>2. CASE d # c
        <5>1. job'[d] = job[d]
          BY <2>3, <4>2
        <5>. QED BY <5>1 DEF FileInv, JobsOK
      <4>. QED BY <4>1, <4>2
    <3>. QED BY <3>1, <3>3, <3>5 DEF JobsOK
  <2>7. ASSUME NEW f \in FileNames, Apart(f)' PROVE FileOK(f)'
    <3>1. JobsOK /\ FileOK(f) /\ DOMAIN Done' = FileNames /\ Apart(f)
      BY <1>1, <2>1, <2>7 DEF Apart, FileInv, JobsOK
    <3>2. CASE f \in FilesOf(c)
      <4>1. Changing(c, f) /\ \A d \in CallIds \ {c} : ~Changing(d, f)
        BY <1>1, <3>1, <3>2 DEF Changing, FileOK, OneChanges
      <4>2. disk'[f] = Before(c)'[f]
        <5>1. Edit(c).file # f \/ job[c].phase # "filling" => disk[f] = Before(c)[f]
          BY <3>1, <4>1 DEF FileOK
        <5>. QED BY <1>1, <2>4, <5>1
      <4>3. Edit(c).file = f => job'[c].pending = EditEffect(c, Before(c), Edit(c))[f]
        BY <1>2, <1>4, <2>2, <3>1, <3>2
      <4>. QED BY <2>4, <2>5, <4>1, <4>2, <4>3 DEF FileOK, OneChanges
    <3>3. CASE f \notin FilesOf(c)
      <4>1. \A d \in CallIds : Changing(d, f) \/ Changing(d, f)' => job'[d] = job[d]
        BY <2>3, <3>3 DEF Changing
      <4>. QED BY <1>1, <2>1, <3>1, <4>1, FileStays
    <3>. QED BY <3>2, <3>3
  <2>. QED BY <2>6, <2>7 DEF FileInv
<1>. QED BY <1>3, <1>4

\* A call that could not read a file sets it aside, as one that could not write it.
LEMMA ReadKeepsFiles ==
    ASSUME FileInv, NEW c \in CallIds, ReadForEdit(c) PROVE FileInv'
<1>1. /\ job[c].phase = "reading" /\ disk' = disk /\ clashed' = clashed
      /\ Writer(c) /\ Underway(c)
  BY DEF ReadForEdit, FileInv, JobsOK, Writer, Underway
<1>2. CASE AccessFails(c)
  BY <1>1, <1>2, AccessFailsKeepsFiles
<1>3. CASE faulted' = faulted /\ EditRead(c, NewText(ToolCalls[c].tool, disk[Edit(c).file], Edit(c)))
  BY <1>1, <1>3, EditReadKeepsFiles
<1>. QED BY <1>2, <1>3 DEF ReadForEdit

\* Truncating a file leaves it to the call: what it is to hold is pending.
LEMMA OpenKeepsFiles ==
    ASSUME FileInv, NEW c \in CallIds, OpenForWrite(c) PROVE FileInv'
<1>1. job[c].phase = "opening" /\ Writer(c) /\ Underway(c) /\ clashed' = clashed
  BY DEF OpenForWrite, FileInv, JobsOK, Underway
<1>2. CASE AccessFails(c) /\ disk' = disk
  BY <1>1, <1>2, AccessFailsKeepsFiles
<1>3. CASE /\ disk' = [disk EXCEPT ![Edit(c).file] = EmptyText]
           /\ job' = [job EXCEPT ![c].phase = "filling"]
           /\ over' = over /\ faulted' = faulted
  <2>1. Done' = Done
    BY <1>3 DEF Done
  <2>2. /\ job'[c] = [phase |-> "filling", at |-> job[c].at, pending |-> job[c].pending]
        /\ job' = [d \in CallIds |-> [phase |-> job'[d].phase, at |-> job'[d].at,
                                       pending |-> job'[d].pending]]
        /\ \A d \in CallIds \ {c} : job'[d] = job[d]
    BY <1>3 DEF FileInv, JobsOK
  <2>3. /\ disk' = [f \in FileNames |-> disk'[f]]
        /\ \A f \in FileNames : f # Edit(c).file => disk'[f] = disk[f]
    BY <1>3 DEF FileInv, JobsOK
  <2>4. Edit(c)' = Edit(c) /\ Before(c)' = Before(c)
    BY <2>1, <2>2 DEF Edit, Before
  <2>5. \A d \in CallIds, f \in FileNames : Changing(d, f)' <=> Changing(d, f)
    BY <1>1, <2>2 DEF Changing, Underway
  <2>6. JobsOK'
    <3>1. /\ DOMAIN Done' = FileNames /\ over' \in Seq(CallIds)
          /\ job[c].at \in 1 .. Len(Edits(c)) /\ job[c].pending # Absent
      BY <1>1, <1>3, <2>1 DEF FileInv, JobsOK
    <3>2. /\ job'[c].phase = "filling" /\ job'[c].at \in 1 .. Len(Edits(c))
          /\ job'[c].pending # Absent
      BY <2>2, <3>1
    <3>3. \A d \in CallIds :
             /\ job'[d].phase # "over" => job'[d].at \in 1 .. Len(Edits(d))
             /\ job'[d].phase = "none" => job'[d].at = 1
             /\ job'[d].phase \in {"opening", "filling"} => Writer(d) /\ job'[d].pending # Absent
             /\ job'[d].phase = "reading" => ToolCalls[d].tool \in {"edit_file", "apply_patch"}
             /\ job'[d].phase = "page" => ~Writer(d)
      <4>1. \A d \in CallIds \ {c} : job'[d] = job[d]
        BY <2>2
      <4>. QED BY <1>1, <3>2, <4>1, ZenonT(60) DEF FileInv, JobsOK
    <3>. QED BY <2>2, <2>3, <3>1, <3>3 DEF JobsOK
  <2>7. ASSUME NEW f \in FileNames, Apart(f)' PROVE FileOK(f)'
    <3>1. JobsOK /\ FileOK(f) /\ DOMAIN Done' = FileNames /\ Apart(f)
      BY <1>1, <1>3, <2>1, <2>7 DEF Apart, FileInv, JobsOK
    <3>2. CASE f \in FilesOf(c)
      <4>1. Changing(c, f) /\ \A d \in CallIds \ {c} : ~Changing(d, f)
        BY <1>1, <3>1, <3>2 DEF Changing, FileOK, OneChanges
      <4>2. /\ Edit(c).file # f => disk[f] = Before(c)[f]
            /\ Edit(c).file = f => job[c].pending = EditEffect(c, Before(c), Edit(c))[f]
        BY <1>1, <3>1, <4>1 DEF FileOK
      <4>3. /\ Edit(c)'.file # f \/ job'[c].phase # "filling" => disk'[f] = Before(c)'[f]
            /\ job'[c].pending = job[c].pending
        BY <2>2, <2>3, <2>4, <4>2
      <4>. QED BY <2>4, <2>5, <4>1, <4>2, <4>3 DEF FileOK, OneChanges
    <3>3. CASE f \notin FilesOf(c)
      <4>1. \A d \in CallIds : Changing(d, f) \/ Changing(d, f)' => job'[d] = job[d]
        BY <2>2, <3>3 DEF Changing
      <4>2. Edit(c).file \in FilesOf(c)
        BY <1>1, <3>1, EditOfCall
      <4>3. disk'[f] = disk[f] /\ Done'[f] = Done[f]
        BY <2>1, <2>3, <3>3, <4>2
      <4>. QED BY <3>1, <4>1, <4>3, FileStays
    <3>. QED BY <3>2, <3>3
  <2>. QED BY <2>6, <2>7 DEF FileInv
<1>. QED BY <1>2, <1>3 DEF OpenForWrite

\* ... and then the file holds it.
LEMMA FillKeepsFiles ==
    ASSUME FileInv, NEW c \in CallIds, FillFile(c) PROVE FileInv'
<1>1. job[c].phase = "filling" /\ Writer(c) /\ Underway(c) /\ clashed' = clashed
  BY DEF FillFile, FileInv, JobsOK, Underway
<1>2. CASE AccessFails(c) /\ disk' = disk
  BY <1>1, <1>2, AccessFailsKeepsFiles
<1>3. CASE /\ disk' = [disk EXCEPT ![Edit(c).file] = job[c].pending]
           /\ NextEdit(c) /\ faulted' = faulted
  <2>1. /\ disk' = [f \in FileNames |-> disk'[f]] /\ Edit(c).file \in FilesOf(c)
        /\ \A f \in FileNames :
              disk'[f] = IF f = Edit(c).file THEN job[c].pending ELSE disk[f]
    <3>1. Edit(c).file \in FilesOf(c)
      BY <1>1, EditOfCall DEF FileInv
    <3>. QED BY <1>3, <3>1 DEF FileInv, JobsOK
  <2>2. ASSUME NEW f \in FileNames, f \in FilesOf(c), Apart(f)'
        PROVE  disk'[f] = EditEffect(c, Before(c), Edit(c))[f]
    <3>1. Apart(f)
      BY <1>1, <1>3, <2>2 DEF Apart
    <3>2. /\ Edit(c).file # f => disk[f] = EditEffect(c, Before(c), Edit(c))[f]
          /\ Edit(c).file = f => job[c].pending = EditEffect(c, Before(c), Edit(c))[f]
      BY <1>1, <2>2, <3>1, HeldOfFile
    <3>. QED BY <2>1, <3>2
  <2>. QED BY <1>1, <1>3, <2>1, <2>2, EditOver
<1>. QED BY <1>2, <1>3 DEF FillFile

-----------------------------------------------------------------------------
(* The theorem                                                              *)

LEMMA FilesInductive == FileSpec => []FileInv
<1>1. FileInit => FileInv
  BY FilesAtStart
<1>2. FileInv /\ [FileNext]_fileVars => FileInv'
  <2>. SUFFICES ASSUME FileInv, [FileNext]_fileVars PROVE FileInv'
    OBVIOUS
  <2>1. CASE UNCHANGED fileVars
    <3>1. /\ job' = job /\ disk' = disk /\ over' = over
          /\ clashed' = clashed /\ faulted' = faulted
      BY <2>1 DEF fileVars
    <3>2. JobsOK' /\ Done' = Done /\ DOMAIN Done' = FileNames
      BY <3>1 DEF FileInv, JobsOK, Done
    <3>3. ASSUME NEW f \in FileNames, Apart(f)' PROVE FileOK(f)'
      <4>1. JobsOK /\ FileOK(f)
        BY <3>1, <3>3 DEF FileInv, Apart
      <4>. QED BY <3>1, <3>2, <4>1, FileStays
    <3>. QED BY <3>2, <3>3 DEF FileInv
  <2>2. ASSUME NEW c \in CallIds, BeginCall(c) PROVE FileInv'
    BY <2>2, BeginKeepsFiles
  <2>3. ASSUME NEW c \in CallIds, ReadPage(c) PROVE FileInv'
    BY <2>3, PageKeepsFiles
  <2>4. ASSUME NEW c \in CallIds, ReadForEdit(c) PROVE FileInv'
    BY <2>4, ReadKeepsFiles
  <2>5. ASSUME NEW c \in CallIds, OpenForWrite(c) PROVE FileInv'
    BY <2>5, OpenKeepsFiles
  <2>6. ASSUME NEW c \in CallIds, FillFile(c) PROVE FileInv'
    BY <2>6, FillKeepsFiles
  <2>. QED BY <2>1, <2>2, <2>3, <2>4, <2>5, <2>6 DEF FileNext
<1>. QED BY <1>1, <1>2, PTL DEF FileSpec

\* A file that no two calls changed at the same time and that could always be written holds
\* what the calls that returned make of it, one after the other: of any files, with any
\* calls of any edits (filesystem.go:206-254, apply_patch.go:60-131).
THEOREM FilesAreSerial == FileSpec => []SerialIfApart
<1>1. FileInv => SerialIfApart
  <2>. SUFFICES ASSUME FileInv, NEW f \in FileNames \ (clashed \cup faulted),
                       \A c \in CallIds : Writer(c) /\ f \in FilesOf(c) => ~Underway(c)
                PROVE  disk[f] = CallsEffect(InitialFiles, over)[f]
    BY DEF SerialIfApart, CallsEffect
  <2>1. FileOK(f) /\ \A c \in CallIds : ~Changing(c, f)
    BY DEF FileInv, Apart, Changing
  <2>. QED BY <2>1 DEF FileOK, Done
<1>. QED BY <1>1, FilesInductive, PTL
=============================================================================
