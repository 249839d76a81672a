------------------------- MODULE ConsolidationProofs -------------------------
(***************************************************************************)
(* Proofs about Consolidation, for any number of sessions that consolidate *)
(* concurrently, any shapes of turns, and any round and failure limits.    *)
(***************************************************************************)
EXTENDS Consolidation, SequenceTheorems, TLAPS

\* A session with nothing left to consolidate costs the base only.
LEMMA EstimateEmpty ==
    ASSUME NEW s, Len(msgs[s]) \in Nat, lc[s] = Len(msgs[s])
    PROVE  Estimate(s) = Base
  BY SizesNat DEF Estimate, SumOver

\* While the base is below the target, a batch begins after the mark and ends
\* inside the session.
LEMMA BoundaryInside ==
    ASSUME NEW s, Len(msgs[s]) \in Nat, lc[s] \in Nat, lc[s] <= Len(msgs[s]),
           Base < Target, NEW b \in NextBoundary(s)
    PROVE  /\ b \in Nat /\ lc[s] < b /\ b <= Len(msgs[s])
           /\ b < Len(msgs[s]) \/ b = lc[s] + 1
<1>1. lc[s] < Len(msgs[s])
  <2>1. ~(Estimate(s) < Target)
    BY DEF NextBoundary
  <2>2. QED
    BY <2>1, EstimateEmpty
<1>2. \A r : \A i \in PickBoundary(s, r) :
        /\ i \in Nat /\ i <= Len(msgs[s])
        /\ i < Len(msgs[s]) \/ i = lc[s] + 1
  <2> TAKE r
  <2> DEFINE text(i) == msgs[s][i].text
             n == Len(msgs[s])
             cuts == {i \in lc[s]..(n - 1) :
                        /\ msgs[s][i + 1].role = "user"
                        /\ SumOver(text, lc[s] + 1, i + 1) >= r}
  <2>1. PickBoundary(s, r) =
          IF cuts # {} THEN {i \in cuts : \A j \in cuts : i <= j}
          ELSE IF n - 1 > lc[s] THEN {n - 1}
          ELSE {lc[s] + 1}
    BY DEF PickBoundary
  <2>2. cuts \subseteq lc[s]..(n - 1)
    OBVIOUS
  <2> HIDE DEF cuts
  <2>3. PickBoundary(s, r) \subseteq cuts \cup {n - 1, lc[s] + 1}
    BY <2>1
  <2>4. \A i \in cuts \cup {n - 1, lc[s] + 1} :
          i \in Nat /\ i <= n /\ (i < n \/ i = lc[s] + 1)
    <3>1. n \in Nat /\ lc[s] \in Nat /\ lc[s] < n
      BY <1>1
    <3>2. n - 1 \in Nat /\ lc[s] + 1 \in Nat /\ n - 1 < n /\ lc[s] + 1 <= n
      BY <3>1
    <3>3. \A i \in lc[s]..(n - 1) : i \in Nat /\ i < n
      BY <3>1
    <3>4. QED
      BY <2>2, <3>2, <3>3
  <2>5. QED
    BY <2>3, <2>4
<1>3. QED
  BY <1>1, <1>2 DEF NextBoundary

-----------------------------------------------------------------------------
\* TypeOK holds at the start.
LEMMA InitTypes == ASSUME Init PROVE TypeOK
<1>1. <<>> \in Seq(Message) /\ <<>> \in Seq(Entry)
  BY EmptySeq
<1>2. msgs \in [Sessions -> Seq(Message)] /\ history \in [Sessions -> Seq(Entry)]
  BY <1>1 DEF Init
<1>3. round \in [Sessions -> 0..MaxRounds]
  BY SizesNat DEF Init
<1>4. shown \in [Sessions -> SUBSET (Sessions \X Nat)]
      /\ memory \in SUBSET (Sessions \X Nat)
  BY DEF Init
<1>5. failures \in 0..MaxFailures /\ streak \in 0..MaxFailures
  BY MaxFailuresPos DEF Init
<1>6. QED
  BY <1>2, <1>3, <1>4, <1>5, MaxFailuresPos DEF Init, TypeOK, Pcs

\* What a batch is made of.
LEMMA BatchShape ==
    ASSUME TypeOK, NEW s \in Sessions
    PROVE  /\ Batch(s) \subseteq Nat
           /\ Facts(s) \subseteq Sessions \X Nat
           /\ \A r \in BOOLEAN : [raw |-> r, of |-> Batch(s)] \in Entry
<1>1. bound[s] \in Nat /\ lc[s] \in Nat /\ cleared[s] \in Nat
  BY DEF TypeOK
<1>2. \A j \in (lc[s] + 1)..bound[s] : cleared[s] + j \in Nat
  BY <1>1
<1>3. Batch(s) \subseteq Nat
  BY <1>2 DEF Batch
<1>4. QED
  BY <1>3 DEF Facts, Entry

-----------------------------------------------------------------------------
(* The control state of a consolidation and what it says about the batch.  *)

InBatch(s) == pc[s] \in {"model", "fill", "read", "write", "judge"}

JobOK ==
    \A s \in Sessions :
      /\ InBatch(s) /\ ~new[s] => round[s] < MaxRounds
      /\ InBatch(s) /\ new[s] => bound[s] = Len(msgs[s])
      /\ pc[s] \in {"idle", "check"} => ~new[s]
      /\ pc[s] = "clear" => lc[s] = Len(msgs[s])

IInv == TypeOK /\ SlicesInRange /\ JobOK /\ LastMessageStays

\* The parts of TypeOK, one by one.
LEMMA Types ==
    ASSUME TypeOK
    PROVE  /\ msgs \in [Sessions -> Seq(Message)]
           /\ \A s \in Sessions : Len(msgs[s]) \in Nat
           /\ lc \in [Sessions -> Nat] /\ cleared \in [Sessions -> Nat]
           /\ pc \in [Sessions -> Pcs] /\ new \in [Sessions -> BOOLEAN]
           /\ round \in [Sessions -> 0..MaxRounds]
           /\ bound \in [Sessions -> Nat]
           /\ shown \in [Sessions -> SUBSET (Sessions \X Nat)]
           /\ count \in [Sessions -> 0..MaxFailures]
           /\ memory \in SUBSET (Sessions \X Nat)
           /\ history \in [Sessions -> Seq(Entry)]
           /\ failures \in 0..MaxFailures /\ streak \in 0..MaxFailures
           /\ wordless \in [Sessions -> SUBSET Nat] /\ lost \in [Sessions -> SUBSET Nat]
  BY LenProperties DEF TypeOK

\* What the model is shown is the memory, or nothing.
LEMMA ReadsTypes ==
    ASSUME TypeOK, NEW m \in ReadMemory PROVE m \in SUBSET (Sessions \X Nat)
  BY DEF ReadMemory, TypeOK

\* One more stays within the threshold.
LEMMA OneMoreRange ==
    ASSUME NEW n \in 0..MaxFailures
    PROVE  OneMore(n) \in 0..MaxFailures
  BY MaxFailuresPos DEF OneMore

\* Turns are recorded while no consolidation of the session runs.
LEMMA RecordKeeps ==
    ASSUME IInv, NEW s \in Sessions, Record(s) PROVE IInv'
<1>1. PICK turn \in Shapes :
        /\ msgs' = [msgs EXCEPT ![s] = @ \o turn]
        /\ wordless' = [wordless EXCEPT ![s] = @ \cup
             {cleared[s] + Len(msgs[s]) + i : i \in {j \in DOMAIN turn : turn[j].text = 0}}]
  BY DEF Record
<1>2. /\ pc[s] = "idle" /\ pc' = pc
      /\ UNCHANGED <<lc, cleared, new, round, bound, shown, count,
                     memory, history, failures, streak, lost>>
  BY DEF Record, jobVars, storeVars
<1>3. msgs[s] \in Seq(Message) /\ turn \in Seq(Message)
  BY ShapesOK, Types DEF IInv
<1>4. /\ msgs[s] \o turn \in Seq(Message)
      /\ Len(msgs[s] \o turn) >= Len(msgs[s])
      /\ Len(msgs[s] \o turn) \in Nat
  BY <1>3, ConcatProperties, LenProperties
<1>5. /\ msgs' \in [Sessions -> Seq(Message)]
      /\ Len(msgs'[s]) >= Len(msgs[s]) /\ Len(msgs'[s]) \in Nat
      /\ \A t \in Sessions \ {s} : msgs'[t] = msgs[t]
  BY <1>1, <1>4, Types DEF IInv
<1>6. TypeOK'
  <2>1. \A i \in DOMAIN turn : cleared[s] + Len(msgs[s]) + i \in Nat
    <3>1. cleared[s] \in Nat /\ Len(msgs[s]) \in Nat
      BY Types DEF IInv
    <3>2. \A i \in DOMAIN turn : i \in Nat
      BY <1>3
    <3>3. QED
      BY <3>1, <3>2
  <2>2. wordless' \in [Sessions -> SUBSET Nat]
    <3>1. {cleared[s] + Len(msgs[s]) + i : i \in {j \in DOMAIN turn : turn[j].text = 0}} \in SUBSET Nat
      BY <2>1
    <3>2. wordless \in [Sessions -> SUBSET Nat]
      BY Types DEF IInv
    <3>3. QED
      BY <1>1, <3>1, <3>2
  <2>3. /\ lc' \in [Sessions -> Nat] /\ cleared' \in [Sessions -> Nat]
        /\ pc' \in [Sessions -> Pcs] /\ new' \in [Sessions -> BOOLEAN]
        /\ round' \in [Sessions -> 0..MaxRounds] /\ bound' \in [Sessions -> Nat]
        /\ count' \in [Sessions -> 0..MaxFailures]
    BY <1>2, Types DEF IInv
  <2>4. /\ shown' \in [Sessions -> SUBSET (Sessions \X Nat)]
        /\ memory' \in SUBSET (Sessions \X Nat)
        /\ history' \in [Sessions -> Seq(Entry)] /\ lost' \in [Sessions -> SUBSET Nat]
        /\ failures' \in 0..MaxFailures /\ streak' \in 0..MaxFailures
    BY <1>2, Types DEF IInv
  <2>5. QED
    BY <1>5, <2>2, <2>3, <2>4 DEF TypeOK
<1>7. SlicesInRange'
  <2>1. \A t \in Sessions :
          /\ lc[t] \in Nat /\ Len(msgs[t]) \in Nat /\ lc[t] <= Len(msgs[t])
          /\ pc[t] \in {"model", "fill", "read", "write", "judge"} =>
               lc[t] < bound[t] /\ bound[t] <= Len(msgs[t])
    BY Types DEF IInv, SlicesInRange
  <2>2. lc[s] <= Len(msgs'[s])
    BY <1>5, <2>1
  <2>3. \A t \in Sessions :
          /\ lc[t] <= Len(msgs'[t])
          /\ pc[t] \in {"model", "fill", "read", "write", "judge"} =>
               lc[t] < bound[t] /\ bound[t] <= Len(msgs'[t])
    BY <1>2, <1>5, <2>1, <2>2
  <2>4. QED
    BY <1>2, <2>3 DEF SlicesInRange
<1>8. JobOK'
  BY <1>2, <1>5 DEF IInv, JobOK, InBatch
<1>9. LastMessageStays'
  BY <1>2, <1>5, Types DEF IInv, LastMessageStays
<1>10. QED
  BY <1>6, <1>7, <1>8, <1>9 DEF IInv

\* A consolidation starts only when none of the session is under way; what it
\* counts was left at zero.
LEMMA BeginKeeps ==
    ASSUME IInv, NEW s \in Sessions, Begin(s) PROVE IInv'
<1>1. /\ pc[s] = "idle" /\ pc' = [pc EXCEPT ![s] = "check"]
      /\ UNCHANGED <<msgs, lc, cleared, new, round, bound, shown, count,
                     memory, history, failures, streak, wordless, lost>>
  BY DEF Begin, Goto, convVars, jobVars, storeVars
<1>2. TypeOK'
  <2>1. pc' \in [Sessions -> Pcs]
    BY <1>1, Types DEF IInv, Pcs
  <2>2. QED
    BY <1>1, <2>1 DEF IInv, TypeOK
<1>3. SlicesInRange' /\ JobOK' /\ LastMessageStays'
  BY <1>1, Types DEF IInv, SlicesInRange, JobOK, LastMessageStays, InBatch
<1>4. QED
  BY <1>2, <1>3 DEF IInv

\* /new takes everything that is left.
LEMMA BeginNewKeeps ==
    ASSUME IInv, NEW s \in Sessions, BeginNew(s) PROVE IInv'
<1>1. /\ pc[s] = "idle"
      /\ new' = [new EXCEPT ![s] = TRUE]
      /\ UNCHANGED <<msgs, lc, cleared, round, count,
                     memory, history, failures, streak, wordless, lost>>
  BY DEF BeginNew, convVars, storeVars
<1>2. CASE Len(msgs[s]) = lc[s]
  <2>1. pc' = [pc EXCEPT ![s] = "clear"] /\ UNCHANGED <<bound, shown>>
    BY <1>2 DEF BeginNew, Goto
  <2>2. TypeOK'
    <3>1. pc' \in [Sessions -> Pcs] /\ new' \in [Sessions -> BOOLEAN]
      BY <1>1, <2>1, Types DEF IInv, Pcs
    <3>2. QED
      BY <1>1, <2>1, <3>1 DEF IInv, TypeOK
  <2>3. SlicesInRange' /\ JobOK' /\ LastMessageStays'
    BY <1>1, <1>2, <2>1, Types
       DEF IInv, SlicesInRange, JobOK, LastMessageStays, InBatch
  <2>4. QED
    BY <2>2, <2>3 DEF IInv
<1>3. CASE Len(msgs[s]) # lc[s]
  <2>1. PICK m \in ReadMemory :
          /\ pc' = [pc EXCEPT ![s] = "model"]
          /\ bound' = [bound EXCEPT ![s] = Len(msgs[s])]
          /\ shown' = [shown EXCEPT ![s] = m]
    BY <1>3 DEF BeginNew, Goto
  <2>2. TypeOK'
    <3>1. shown' \in [Sessions -> SUBSET (Sessions \X Nat)]
      BY <2>1, ReadsTypes, Types DEF IInv
    <3>2. QED
      BY <1>1, <2>1, <3>1, Types DEF IInv, TypeOK, Pcs
  <2>3. lc[s] < Len(msgs[s])
    BY <1>3, Types DEF IInv, SlicesInRange
  <2>4. /\ pc'[s] = "model" /\ new'[s] = TRUE /\ bound'[s] = Len(msgs[s])
        /\ \A t \in Sessions \ {s} : pc'[t] = pc[t] /\ new'[t] = new[t] /\ bound'[t] = bound[t]
    BY <1>1, <2>1, Types DEF IInv
  <2>5. SlicesInRange' /\ LastMessageStays' /\ JobOK'
    <3>1. Len(msgs[s]) \in Nat
      BY Types DEF IInv
    <3>2. SlicesInRange'
      BY <1>1, <2>3, <2>4, <3>1 DEF IInv, SlicesInRange
    <3>3. LastMessageStays'
      BY <1>1, <2>4 DEF IInv, LastMessageStays
    <3>4. JobOK'
      BY <1>1, <2>4 DEF IInv, JobOK, InBatch
    <3>5. QED
      BY <3>2, <3>3, <3>4
  <2>6. QED
    BY <2>2, <2>5 DEF IInv
<1>4. QED
  BY <1>2, <1>3

\* A consolidation that is over leaves nothing behind.
LEMMA EndsKeeps ==
    ASSUME IInv, NEW s \in Sessions, Ends(s),
           bound' = bound \/ bound' = [bound EXCEPT ![s] = 0],
           UNCHANGED <<msgs, lc, cleared, shown, count,
                       memory, history, failures, streak, wordless, lost>>
    PROVE  IInv'
<1>1. /\ pc' = [pc EXCEPT ![s] = "idle"]
      /\ new' = [new EXCEPT ![s] = FALSE] /\ round' = [round EXCEPT ![s] = 0]
  BY DEF Ends, Goto
<1>2. TypeOK'
  <2>1. pc' \in [Sessions -> Pcs] /\ new' \in [Sessions -> BOOLEAN]
    BY <1>1, Types DEF IInv, Pcs
  <2>2. bound' \in [Sessions -> Nat]
    <3>1. bound \in [Sessions -> Nat] /\ 0 \in Nat
      BY Types DEF IInv
    <3>2. CASE bound' = bound
      BY <3>1, <3>2
    <3>3. CASE bound' = [bound EXCEPT ![s] = 0]
      BY <3>1, <3>3
    <3>4. QED
      BY <3>2, <3>3
  <2>3. round' \in [Sessions -> 0..MaxRounds]
    BY <1>1, SizesNat, Types DEF IInv
  <2>4. QED
    BY <2>1, <2>2, <2>3 DEF IInv, TypeOK
<1>3. SlicesInRange' /\ JobOK' /\ LastMessageStays'
  BY <1>1, Types DEF IInv, SlicesInRange, JobOK, LastMessageStays, InBatch
<1>4. QED
  BY <1>2, <1>3 DEF IInv

\* A round sends a batch only while rounds are left, and leaves the last
\* message out unless it stands alone.
LEMMA CheckKeeps ==
    ASSUME Base < Target, IInv, NEW s \in Sessions, Check(s) PROVE IInv'
<1>1. /\ pc[s] = "check"
      /\ UNCHANGED <<msgs, lc, cleared, count,
                     memory, history, failures, streak, wordless, lost>>
  BY DEF Check, convVars, storeVars
<1>2. CASE Ends(s) /\ UNCHANGED <<bound, shown>>
  BY <1>1, <1>2, EndsKeeps
<1>3. ASSUME NEW b \in NextBoundary(s), NEW m \in ReadMemory,
             bound' = [bound EXCEPT ![s] = b],
             shown' = [shown EXCEPT ![s] = m],
             Goto(s, "model"), UNCHANGED <<new, round>>
      PROVE  IInv'
  <2>1. pc' = [pc EXCEPT ![s] = "model"]
    BY <1>3 DEF Goto
  <2>2. /\ b \in Nat /\ lc[s] < b /\ b <= Len(msgs[s])
        /\ b < Len(msgs[s]) \/ b = lc[s] + 1
        /\ round[s] < MaxRounds
    <3>1. Len(msgs[s]) \in Nat /\ lc[s] \in Nat /\ lc[s] <= Len(msgs[s])
      BY Types DEF IInv, SlicesInRange
    <3>2. b \in Nat /\ lc[s] < b /\ b <= Len(msgs[s])
          /\ (b < Len(msgs[s]) \/ b = lc[s] + 1)
      BY <3>1, BoundaryInside
    <3>3. round[s] # MaxRounds /\ round[s] \in 0..MaxRounds
      BY Types DEF IInv, NextBoundary
    <3>4. QED
      BY <3>2, <3>3, SizesNat
  <2>3. TypeOK'
    <3>1. pc' \in [Sessions -> Pcs]
      BY <2>1, Types DEF IInv, Pcs
    <3>2. bound' \in [Sessions -> Nat]
          /\ shown' \in [Sessions -> SUBSET (Sessions \X Nat)]
      BY <1>3, <2>2, ReadsTypes, Types DEF IInv
    <3>3. QED
      BY <1>1, <1>3, <3>1, <3>2 DEF IInv, TypeOK
  <2>4. SlicesInRange' /\ LastMessageStays'
    BY <1>1, <1>3, <2>1, <2>2, Types
       DEF IInv, SlicesInRange, LastMessageStays
  <2>5. JobOK'
    BY <1>1, <1>3, <2>1, <2>2, Types DEF IInv, JobOK, InBatch
  <2>6. QED
    BY <2>3, <2>4, <2>5 DEF IInv
<1>4. QED
  BY <1>2, <1>3 DEF Check

\* The mark moves to the end of the batch.
LEMMA AdvanceKeeps ==
    ASSUME IInv, NEW s \in Sessions, Advance(s), InBatch(s),
           shown' = shown \/ shown' = [shown EXCEPT ![s] = {}],
           memory' \in SUBSET (Sessions \X Nat),
           history' \in [Sessions -> Seq(Entry)], lost' \in [Sessions -> SUBSET Nat],
           failures' \in 0..MaxFailures, streak' \in 0..MaxFailures
    PROVE  IInv'
<1>1. /\ lc' = [lc EXCEPT ![s] = bound[s]]
      /\ round' = [round EXCEPT ![s] = IF new[s] THEN @ ELSE @ + 1]
      /\ bound' = [bound EXCEPT ![s] = 0]
      /\ pc' = [pc EXCEPT ![s] = IF new[s] THEN "clear" ELSE "check"]
      /\ UNCHANGED <<msgs, cleared, wordless, new, count>>
  BY DEF Advance, Goto
<1>2. /\ lc[s] < bound[s] /\ bound[s] <= Len(msgs[s])
      /\ ~new[s] => round[s] < MaxRounds
      /\ new[s] => bound[s] = Len(msgs[s])
  BY DEF IInv, SlicesInRange, JobOK, InBatch
<1>3. TypeOK'
  <2>1. pc' \in [Sessions -> Pcs]
    BY <1>1, Types DEF IInv, Pcs
  <2>2. lc' \in [Sessions -> Nat] /\ bound' \in [Sessions -> Nat]
    BY <1>1, Types DEF IInv
  <2>3. round' \in [Sessions -> 0..MaxRounds]
    <3>1. round \in [Sessions -> 0..MaxRounds] /\ MaxRounds \in Nat
          /\ new[s] \in BOOLEAN
      BY Types, SizesNat DEF IInv
    <3>2. (IF new[s] THEN round[s] ELSE round[s] + 1) \in 0..MaxRounds
      <4>1. CASE new[s]
        BY <3>1, <4>1
      <4>2. CASE ~new[s]
        BY <1>2, <3>1, <4>2
      <4>3. QED
        BY <4>1, <4>2, <3>1
    <3>3. QED
      BY <1>1, <3>1, <3>2
  <2>4. shown' \in [Sessions -> SUBSET (Sessions \X Nat)]
    BY Types DEF IInv
  <2>5. QED
    BY <1>1, <2>1, <2>2, <2>3, <2>4, Types DEF IInv, TypeOK
<1>4. SlicesInRange' /\ LastMessageStays'
  BY <1>1, <1>2, Types DEF IInv, SlicesInRange, LastMessageStays
<1>5. JobOK'
  BY <1>1, <1>2, Types DEF IInv, JobOK, InBatch
<1>6. QED
  BY <1>3, <1>4, <1>5 DEF IInv

\* A batch that stays where it is: the steps within a call of Consolidate differ
\* in the next control state only.
LEMMA WithinKeeps ==
    ASSUME IInv, NEW s \in Sessions, InBatch(s),
           NEW l \in {"fill", "read", "write", "judge"}, Goto(s, l),
           UNCHANGED <<msgs, lc, cleared, wordless, new, round, bound>>,
           shown' \in [Sessions -> SUBSET (Sessions \X Nat)],
           count' \in [Sessions -> 0..MaxFailures],
           memory' \in SUBSET (Sessions \X Nat),
           history' \in [Sessions -> Seq(Entry)], lost' = lost,
           failures' \in 0..MaxFailures, streak' \in 0..MaxFailures
    PROVE  IInv'
<1>1. pc' = [pc EXCEPT ![s] = l]
  BY DEF Goto
<1>2. TypeOK'
  <2>1. pc' \in [Sessions -> Pcs]
    BY <1>1, Types DEF IInv, Pcs
  <2>2. QED
    BY <2>1, Types DEF IInv, TypeOK
<1>3. SlicesInRange' /\ LastMessageStays'
  BY <1>1, Types DEF IInv, SlicesInRange, LastMessageStays, InBatch
<1>4. JobOK'
  BY <1>1, Types DEF IInv, JobOK, InBatch
<1>5. QED
  BY <1>2, <1>3, <1>4 DEF IInv

-----------------------------------------------------------------------------
\* An entry is appended to the history of a session.
LEMMA AppendTypes ==
    ASSUME TypeOK, NEW s \in Sessions, NEW r \in BOOLEAN, AppendHistory(s, r)
    PROVE  history' \in [Sessions -> Seq(Entry)]
<1>1. [raw |-> r, of |-> Batch(s)] \in Entry
  BY BatchShape
<1>2. history[s] \in Seq(Entry)
  BY Types
<1>3. Append(history[s], [raw |-> r, of |-> Batch(s)]) \in Seq(Entry)
  BY <1>1, <1>2, AppendProperties
<1>4. QED
  BY <1>3, Types DEF AppendHistory

\* The update is made of facts.
LEMMA UpdateTypes ==
    ASSUME TypeOK, NEW s \in Sessions PROVE Update(s) \in SUBSET (Sessions \X Nat)
<1>1. shown[s] \in SUBSET (Sessions \X Nat)
  BY Types
<1>2. QED
  BY <1>1, BatchShape DEF Update

\* With an answer of the model the history grows; the memory is next, or the mark.
LEMMA SummarisedKeeps ==
    ASSUME IInv, NEW s \in Sessions, Summarised(s) PROVE IInv'
<1>1. InBatch(s) /\ AppendHistory(s, FALSE) /\ lost' = lost
  BY DEF Summarised, InBatch
<1>2. history' \in [Sessions -> Seq(Entry)]
  BY <1>1, AppendTypes DEF IInv
<1>3. CASE /\ memory' = {} /\ Goto(s, "fill")
           /\ UNCHANGED <<convVars, jobVars, failures, streak>>
  <2>1. UNCHANGED <<msgs, lc, cleared, wordless, new, round, bound, shown, count, failures, streak>>
    BY <1>3 DEF convVars, jobVars
  <2>2. /\ shown' \in [Sessions -> SUBSET (Sessions \X Nat)]
        /\ count' \in [Sessions -> 0..MaxFailures]
        /\ failures' \in 0..MaxFailures /\ streak' \in 0..MaxFailures
        /\ memory' \in SUBSET (Sessions \X Nat)
    BY <1>3, <2>1, Types DEF IInv
  <2>3. QED
    BY <1>1, <1>2, <1>3, <2>1, <2>2, WithinKeeps
<1>4. CASE Succeeds(s) /\ memory' = memory
  <2>1. /\ Advance(s) /\ shown' = [shown EXCEPT ![s] = {}]
        /\ failures' \in 0..MaxFailures /\ streak' \in 0..MaxFailures
    BY <1>4, MaxFailuresPos DEF Succeeds
  <2>2. memory' \in SUBSET (Sessions \X Nat) /\ lost' \in [Sessions -> SUBSET Nat]
    BY <1>1, <1>4, Types DEF IInv
  <2>3. QED
    BY <1>1, <1>2, <2>1, <2>2, AdvanceKeeps
<1>5. QED
  BY <1>3, <1>4 DEF Summarised

\* The rest of the write of the memory, whole or not, ends the call.
LEMMA FillsMemoryKeeps ==
    ASSUME IInv, NEW s \in Sessions, FillsMemory(s) PROVE IInv'
<1>1. /\ InBatch(s) /\ Advance(s) /\ shown' = [shown EXCEPT ![s] = {}]
      /\ failures' \in 0..MaxFailures /\ streak' \in 0..MaxFailures
      /\ UNCHANGED <<history, lost>>
  BY MaxFailuresPos DEF FillsMemory, Succeeds, InBatch
<1>2. memory' \in SUBSET (Sessions \X Nat)
  <2>1. memory \in SUBSET (Sessions \X Nat) /\ Update(s) \in SUBSET (Sessions \X Nat)
    BY UpdateTypes, Types DEF IInv
  <2>2. memory' \subseteq Update(s) \cup memory
    BY DEF FillsMemory
  <2>3. QED
    BY <2>1, <2>2
<1>3. history' \in [Sessions -> Seq(Entry)] /\ lost' \in [Sessions -> SUBSET Nat]
  BY <1>1, Types DEF IInv
<1>4. QED
  BY <1>1, <1>2, <1>3, AdvanceKeeps

\* The raw archive moves the mark too, whether the append worked or not.
LEMMA RawArchivesKeeps ==
    ASSUME IInv, NEW s \in Sessions, RawArchives(s) PROVE IInv'
<1>1. /\ Advance(s) /\ InBatch(s)
      /\ UNCHANGED <<shown, memory>>
      /\ failures' = 0 /\ streak' = 0
  BY DEF RawArchives, InBatch
<1>2. history' \in [Sessions -> Seq(Entry)] /\ lost' \in [Sessions -> SUBSET Nat]
  <2>1. CASE AppendHistory(s, TRUE) /\ lost' = lost
    BY <2>1, AppendTypes, Types DEF IInv
  <2>2. CASE lost' = [lost EXCEPT ![s] = @ \cup Batch(s)] /\ history' = history
    <3>1. Batch(s) \subseteq Nat
      BY BatchShape DEF IInv
    <3>2. QED
      BY <2>2, <3>1, Types DEF IInv
  <2>3. QED
    BY <2>1, <2>2 DEF RawArchives
<1>3. failures' \in 0..MaxFailures /\ streak' \in 0..MaxFailures
  BY <1>1, MaxFailuresPos
<1>4. memory' \in SUBSET (Sessions \X Nat)
  BY <1>1, Types DEF IInv
<1>5. QED
  BY <1>1, <1>2, <1>3, <1>4, AdvanceKeeps

LEMMA ModelFailsKeeps ==
    ASSUME IInv, NEW s \in Sessions, ModelFails(s) PROVE IInv'
<1>1. /\ InBatch(s) /\ Goto(s, "read")
      /\ UNCHANGED <<msgs, lc, cleared, wordless, new, round, bound, count, memory,
                     history, failures, lost>>
      /\ streak' = OneMore(streak) /\ shown' = [shown EXCEPT ![s] = {}]
  BY DEF ModelFails, convVars, InBatch
<1>2. shown' \in [Sessions -> SUBSET (Sessions \X Nat)]
  BY <1>1, Types DEF IInv
<1>3. streak' \in 0..MaxFailures
  BY <1>1, Types, OneMoreRange DEF IInv
<1>4. count' \in [Sessions -> 0..MaxFailures] /\ failures' \in 0..MaxFailures
  BY <1>1, Types DEF IInv
<1>5. memory' \in SUBSET (Sessions \X Nat) /\ history' \in [Sessions -> Seq(Entry)]
  BY <1>1, Types DEF IInv
<1>6. QED
  BY <1>1, <1>2, <1>3, <1>4, <1>5, WithinKeeps

LEMMA CountReadsKeeps ==
    ASSUME IInv, NEW s \in Sessions, CountReads(s) PROVE IInv'
<1>1. /\ InBatch(s) /\ Goto(s, "write")
      /\ UNCHANGED <<msgs, lc, cleared, wordless, new, round, bound, shown, memory,
                     history, failures, streak, lost>>
      /\ count' = [count EXCEPT ![s] = failures]
  BY DEF CountReads, convVars, storeVars, InBatch
<1>2. count' \in [Sessions -> 0..MaxFailures]
  BY <1>1, Types DEF IInv
<1>3. /\ shown' \in [Sessions -> SUBSET (Sessions \X Nat)]
      /\ failures' \in 0..MaxFailures /\ streak' \in 0..MaxFailures
  BY <1>1, Types DEF IInv
<1>4. memory' \in SUBSET (Sessions \X Nat) /\ history' \in [Sessions -> Seq(Entry)]
  BY <1>1, Types DEF IInv
<1>5. QED
  BY <1>1, <1>2, <1>3, <1>4, WithinKeeps

LEMMA CountWritesKeeps ==
    ASSUME IInv, NEW s \in Sessions, CountWrites(s) PROVE IInv'
<1>1. /\ InBatch(s) /\ Goto(s, "judge")
      /\ UNCHANGED <<msgs, lc, cleared, wordless, new, round, bound, shown, memory,
                     history, streak, lost>>
      /\ failures' = OneMore(count[s]) /\ count' = [count EXCEPT ![s] = 0]
  BY DEF CountWrites, convVars, InBatch
<1>2. failures' \in 0..MaxFailures
  BY <1>1, Types, OneMoreRange DEF IInv
<1>3. 0 \in 0..MaxFailures
  BY MaxFailuresPos
<1>4. count' \in [Sessions -> 0..MaxFailures]
  BY <1>1, <1>3, Types DEF IInv
<1>5. /\ shown' \in [Sessions -> SUBSET (Sessions \X Nat)]
      /\ streak' \in 0..MaxFailures
  BY <1>1, Types DEF IInv
<1>6. memory' \in SUBSET (Sessions \X Nat) /\ history' \in [Sessions -> Seq(Entry)]
  BY <1>1, Types DEF IInv
<1>7. QED
  BY <1>1, <1>2, <1>4, <1>5, <1>6, WithinKeeps

LEMMA GivesUpKeeps ==
    ASSUME IInv, NEW s \in Sessions, GivesUp(s) PROVE IInv'
<1>1. /\ Ends(s) /\ bound' = [bound EXCEPT ![s] = 0]
      /\ UNCHANGED <<msgs, lc, cleared, wordless, shown, count,
                     memory, history, failures, streak, lost>>
  BY DEF GivesUp, convVars, storeVars
<1>2. QED
  BY <1>1, EndsKeeps

LEMMA ClearKeeps ==
    ASSUME IInv, NEW s \in Sessions, Clear(s) PROVE IInv'
<1>1. /\ pc[s] = "clear" /\ pc' = [pc EXCEPT ![s] = "idle"]
      /\ msgs' = [msgs EXCEPT ![s] = <<>>]
      /\ lc' = [lc EXCEPT ![s] = 0]
      /\ cleared' = [cleared EXCEPT ![s] = @ + Len(msgs[s])]
      /\ new' = [new EXCEPT ![s] = FALSE] /\ round' = [round EXCEPT ![s] = 0]
      /\ UNCHANGED <<wordless, bound, shown, count, memory, history,
                     failures, streak, lost>>
  BY DEF Clear, Ends, Goto, storeVars
<1>2. TypeOK'
  <2>1. pc' \in [Sessions -> Pcs] /\ lc' \in [Sessions -> Nat] /\ new' \in [Sessions -> BOOLEAN]
    BY <1>1, Types DEF IInv, Pcs
  <2>2. cleared' \in [Sessions -> Nat]
    BY <1>1, Types DEF IInv
  <2>3. msgs' \in [Sessions -> Seq(Message)]
    <3>1. <<>> \in Seq(Message)
      BY EmptySeq
    <3>2. QED
      BY <1>1, <3>1, Types DEF IInv
  <2>4. round' \in [Sessions -> 0..MaxRounds]
    BY <1>1, SizesNat, Types DEF IInv
  <2>5. QED
    BY <1>1, <2>1, <2>2, <2>3, <2>4 DEF IInv, TypeOK
<1>3. SlicesInRange' /\ JobOK' /\ LastMessageStays'
  <2>1. Len(<<>>) = 0
    BY EmptySeq
  <2>2. QED
    BY <1>1, <2>1, Types DEF IInv, SlicesInRange, JobOK, LastMessageStays, InBatch
<1>4. QED
  BY <1>2, <1>3 DEF IInv

-----------------------------------------------------------------------------
\* IInv is inductive.
LEMMA InitIInv == ASSUME Init PROVE IInv
<1>1. TypeOK
  BY InitTypes
<1>2. Len(<<>>) = 0
  BY EmptySeq
<1>3. SlicesInRange /\ JobOK /\ LastMessageStays
  BY <1>2 DEF Init, SlicesInRange, JobOK, LastMessageStays, InBatch
<1>4. QED
  BY <1>1, <1>3 DEF IInv

LEMMA NextIInv ==
    ASSUME Base < Target, IInv, [Next]_vars PROVE IInv'
<1>1. CASE UNCHANGED vars
  BY <1>1 DEF vars, convVars, jobVars, storeVars, IInv, TypeOK, SlicesInRange,
              JobOK, LastMessageStays, InBatch
<1>2. ASSUME NEW s \in Sessions, Store(s) PROVE IInv'
  BY <1>2, SummarisedKeeps, FillsMemoryKeeps, ModelFailsKeeps, CountReadsKeeps,
     CountWritesKeeps, GivesUpKeeps, RawArchivesKeeps DEF Store
<1>3. CASE Next
  BY <1>2, <1>3, RecordKeeps, BeginKeeps, BeginNewKeeps, CheckKeeps,
     ClearKeeps DEF Next
<1>4. QED
  BY <1>1, <1>3

\* While the base of the prompt (system prompt and memory) is below the
\* target, the types hold, no slice is out of range, and a pass leaves the
\* last message alone, however many sessions consolidate at once.
THEOREM ConsolidationInvariant ==
    ASSUME Base < Target PROVE Spec => []IInv
<1>1. Init => IInv
  BY InitIInv
<1>2. IInv /\ [Next]_vars => IInv'
  BY NextIInv
<1>3. QED
  BY <1>1, <1>2, PTL DEF Spec

\* Types, the limits of rounds and failures included.
THEOREM ConsolidationTypes ==
    ASSUME Base < Target PROVE Spec => []TypeOK
<1>1. IInv => TypeOK
  BY DEF IInv
<1>2. QED
  BY <1>1, ConsolidationInvariant, PTL

\* Both slices of a consolidation, the one of its batch and the one that
\* archives all that is left, stay inside the session.
THEOREM BatchesInside ==
    ASSUME Base < Target PROVE Spec => []SlicesInRange
<1>1. IInv => SlicesInRange
  BY DEF IInv
<1>2. QED
  BY <1>1, ConsolidationInvariant, PTL

\* A pass never takes the last message into a batch with others.
THEOREM LastMessageKept ==
    ASSUME Base < Target PROVE Spec => []LastMessageStays
<1>1. IInv => LastMessageStays
  BY DEF IInv
<1>2. QED
  BY <1>1, ConsolidationInvariant, PTL

-----------------------------------------------------------------------------
(* HISTORY.md.                                                             *)

\* h tells, in order, of the numbers up to n that are not gone.
Tells(h, n, gone) ==
    /\ \A i, j \in DOMAIN h : i < j => \A a \in h[i].of, b \in h[j].of : a < b
    /\ UNION {h[i].of : i \in DOMAIN h} = (1..n) \ gone

\* An entry about the next numbers continues it.
LEMMA TellsMore ==
    ASSUME NEW h \in Seq(Entry), NEW n \in Nat, NEW m \in Nat, n <= m,
           NEW w, NEW l \in SUBSET (1..n), Tells(h, n, w \cup l),
           NEW e \in Entry, e.of = ((n + 1)..m) \ w
    PROVE  Tells(Append(h, e), m, w \cup l)
<1> DEFINE g == Append(h, e)
<1>1. /\ Len(h) \in Nat /\ DOMAIN h = 1..Len(h)
      /\ g \in Seq(Entry) /\ DOMAIN g = 1..(Len(h) + 1)
      /\ \A i \in 1..Len(h) : g[i] = h[i]
      /\ g[Len(h) + 1] = e
  BY AppendProperties, LenProperties
<1>2. \A i \in DOMAIN h : h[i].of \subseteq 1..n
  BY DEF Tells
<1> HIDE DEF g
<1>3. \A i, j \in DOMAIN g : i < j => \A a \in g[i].of, b \in g[j].of : a < b
  <2> SUFFICES ASSUME NEW i \in DOMAIN g, NEW j \in DOMAIN g, i < j,
                      NEW a \in g[i].of, NEW b \in g[j].of
               PROVE  a < b
    OBVIOUS
  <2>1. i \in 1..Len(h) /\ g[i] = h[i] /\ a \in 1..n
    BY <1>1, <1>2
  <2>2. CASE j = Len(h) + 1
    <3>1. b \in (n + 1)..m
      BY <1>1, <2>2
    <3>2. QED
      BY <2>1, <3>1
  <2>3. CASE j # Len(h) + 1
    <3>1. j \in 1..Len(h) /\ g[j] = h[j]
      BY <1>1, <2>3
    <3>2. QED
      BY <1>1, <2>1, <3>1 DEF Tells
  <2>4. QED
    BY <2>2, <2>3
<1>4. UNION {g[i].of : i \in DOMAIN g} = (UNION {h[i].of : i \in DOMAIN h}) \cup e.of
  <2>1. DOMAIN g = DOMAIN h \cup {Len(h) + 1} /\ \A i \in DOMAIN h : g[i] = h[i]
    BY <1>1
  <2>2. QED
    BY <1>1, <2>1
<1>5. ((1..n) \ (w \cup l)) \cup (((n + 1)..m) \ w) = (1..m) \ (w \cup l)
  OBVIOUS
<1>6. QED
  BY <1>3, <1>4, <1>5 DEF Tells, g

\* A batch that is lost is gone from it.
LEMMA TellsWithout ==
    ASSUME NEW h, NEW n \in Nat, NEW m \in Nat, n <= m,
           NEW w, NEW l, Tells(h, n, w \cup l)
    PROVE  Tells(h, m, w \cup (l \cup (((n + 1)..m) \ w)))
<1>1. (1..n) \ (w \cup l) = (1..m) \ (w \cup (l \cup (((n + 1)..m) \ w)))
  OBVIOUS
<1>2. QED
  BY <1>1 DEF Tells

\* What is without content among the messages of a session is known by number.
Marked ==
    \A s \in Sessions :
      /\ wordless[s] \subseteq 1..(cleared[s] + Len(msgs[s]))
      /\ \A i \in 1..Len(msgs[s]) :
           cleared[s] + i \in wordless[s] <=> msgs[s][i].text = 0

\* What is lost is before the mark.
LostBefore == \A s \in Sessions : lost[s] \subseteq 1..(cleared[s] + lc[s])

HistoryOK == Marked /\ LostBefore /\ ArchivedOnceInOrder

\* ArchivedOnceInOrder for one session.
LEMMA ArchivedTells ==
    ArchivedOnceInOrder <=>
      \A s \in Sessions : Tells(history[s], Passed(s), wordless[s] \cup lost[s])
  BY DEF ArchivedOnceInOrder, Tells

\* A batch is what follows the mark, up to its end, but for what has no content.
LEMMA BatchNumbers ==
    ASSUME IInv, Marked, NEW s \in Sessions, InBatch(s)
    PROVE  /\ Batch(s) = ((cleared[s] + lc[s] + 1)..(cleared[s] + bound[s])) \ wordless[s]
           /\ cleared[s] + lc[s] \in Nat /\ cleared[s] + bound[s] \in Nat
           /\ cleared[s] + lc[s] <= cleared[s] + bound[s]
<1>1. /\ cleared[s] \in Nat /\ lc[s] \in Nat /\ bound[s] \in Nat /\ Len(msgs[s]) \in Nat
      /\ lc[s] < bound[s] /\ bound[s] <= Len(msgs[s])
  BY Types DEF IInv, SlicesInRange, InBatch
<1>2. \A j \in 1..Len(msgs[s]) : msgs[s][j].text \in Nat
  <2>1. msgs[s] \in Seq(Message)
    BY Types DEF IInv
  <2>2. \A j \in 1..Len(msgs[s]) : msgs[s][j] \in Message
    BY <2>1
  <2>3. QED
    BY <2>2 DEF Message
<1>3. \A j \in (lc[s] + 1)..bound[s] :
        /\ j \in 1..Len(msgs[s])
        /\ cleared[s] + j \in (cleared[s] + lc[s] + 1)..(cleared[s] + bound[s])
        /\ cleared[s] + j \in wordless[s] <=> ~(msgs[s][j].text > 0)
  <2> TAKE j \in (lc[s] + 1)..bound[s]
  <2>1. j \in 1..Len(msgs[s])
        /\ cleared[s] + j \in (cleared[s] + lc[s] + 1)..(cleared[s] + bound[s])
    BY <1>1
  <2>2. msgs[s][j].text = 0 <=> ~(msgs[s][j].text > 0)
    BY <1>2, <2>1
  <2>3. QED
    BY <2>1, <2>2 DEF Marked
<1>4. \A x \in (cleared[s] + lc[s] + 1)..(cleared[s] + bound[s]) :
        x - cleared[s] \in (lc[s] + 1)..bound[s] /\ cleared[s] + (x - cleared[s]) = x
  <2>1. \A c, l, b \in Nat : \A x \in (c + l + 1)..(c + b) :
          x - c \in (l + 1)..b /\ c + (x - c) = x
    OBVIOUS
  <2>2. QED
    BY <1>1, <2>1
<1>5. Batch(s) = ((cleared[s] + lc[s] + 1)..(cleared[s] + bound[s])) \ wordless[s]
  BY <1>3, <1>4 DEF Batch
<1>6. QED
  BY <1>1, <1>5
-----------------------------------------------------------------------------
\* The numbers of what has no content are kept as turns are recorded and cleared.
LEMMA RecordMarks ==
    ASSUME IInv, Marked, NEW s \in Sessions, Record(s)
    PROVE  /\ Marked'
           /\ \A t \in Sessions :
                wordless[t] = wordless'[t] \cap 1..(cleared[t] + Len(msgs[t]))
<1>1. PICK turn \in Shapes :
        /\ msgs' = [msgs EXCEPT ![s] = @ \o turn]
        /\ wordless' = [wordless EXCEPT ![s] = @ \cup
             {cleared[s] + Len(msgs[s]) + i : i \in {j \in DOMAIN turn : turn[j].text = 0}}]
  BY DEF Record
<1>2. cleared' = cleared
  BY DEF Record
<1> DEFINE old  == msgs[s]
           n    == Len(old)
           k    == Len(turn)
           c    == cleared[s]
           more == {c + n + i : i \in {j \in DOMAIN turn : turn[j].text = 0}}
<1>3. /\ old \in Seq(Message) /\ turn \in Seq(Message)
      /\ n \in Nat /\ k \in Nat /\ c \in Nat /\ DOMAIN turn = 1..k
  BY ShapesOK, LenProperties, Types DEF IInv
<1>4. /\ Len(old \o turn) = n + k
      /\ \A i \in 1..n : (old \o turn)[i] = old[i]
      /\ \A i \in (n + 1)..(n + k) : (old \o turn)[i] = turn[i - n]
  BY <1>3, ConcatProperties
<1>5. /\ msgs'[s] = old \o turn /\ wordless'[s] = wordless[s] \cup more
      /\ \A t \in Sessions \ {s} : msgs'[t] = msgs[t] /\ wordless'[t] = wordless[t]
  BY <1>1, Types DEF IInv
<1>6. wordless[s] \subseteq 1..(c + n)
      /\ \A i \in 1..n : c + i \in wordless[s] <=> old[i].text = 0
  BY DEF Marked
<1>7. more \subseteq (c + n + 1)..(c + n + k)
      /\ \A i \in 1..k : c + n + i \in more <=> turn[i].text = 0
  <2>1. \A i, j \in 1..k : c + n + i = c + n + j => i = j
    BY <1>3
  <2>2. \A i \in 1..k : c + n + i \in (c + n + 1)..(c + n + k)
    BY <1>3
  <2>3. QED
    BY <1>3, <2>1, <2>2
<1> HIDE DEF more
<1>8. Len(msgs'[s]) = n + k /\ wordless'[s] \subseteq 1..(c + (n + k))
  <2>1. 1..(c + n) \subseteq 1..(c + (n + k))
        /\ (c + n + 1)..(c + n + k) \subseteq 1..(c + (n + k))
    <3>1. \A x, y, z \in Nat : /\ 1..(x + y) \subseteq 1..(x + (y + z))
                               /\ (x + y + 1)..(x + y + z) \subseteq 1..(x + (y + z))
      OBVIOUS
    <3>2. QED
      BY <1>3, <3>1
  <2>2. QED
    BY <1>4, <1>5, <1>6, <1>7, <2>1
<1>9. ASSUME NEW i \in 1..(n + k)
      PROVE  c + i \in wordless'[s] <=> msgs'[s][i].text = 0
  <2>1. CASE i \in 1..n
    <3>1. c + i \notin more
      BY <1>3, <1>7, <2>1
    <3>2. QED
      BY <1>4, <1>5, <1>6, <2>1, <3>1
  <2>2. CASE i \in (n + 1)..(n + k)
    <3>1. i - n \in 1..k /\ c + n + (i - n) = c + i /\ c + i \notin 1..(c + n)
      BY <1>3, <2>2
    <3>2. QED
      BY <1>4, <1>5, <1>6, <1>7, <2>2, <3>1
  <2>3. QED
    BY <1>3, <2>1, <2>2
<1>10. /\ wordless'[s] \subseteq 1..(cleared'[s] + Len(msgs'[s]))
       /\ \A i \in 1..Len(msgs'[s]) : cleared'[s] + i \in wordless'[s] <=> msgs'[s][i].text = 0
  BY <1>2, <1>8, <1>9
<1>11. wordless[s] = wordless'[s] \cap 1..(c + n)
  <2>1. \A x \in (c + n + 1)..(c + n + k) : x \notin 1..(c + n)
    BY <1>3
  <2>2. QED
    BY <1>5, <1>6, <1>7, <2>1
<1>12. wordless[s] = wordless'[s] \cap 1..(cleared[s] + Len(msgs[s]))
  BY <1>11
<1> HIDE DEF old, n, k, c
<1>13. Marked'
  <2> SUFFICES ASSUME NEW t \in Sessions, t # s
               PROVE  /\ wordless'[t] \subseteq 1..(cleared'[t] + Len(msgs'[t]))
                      /\ \A i \in 1..Len(msgs'[t]) :
                           cleared'[t] + i \in wordless'[t] <=> msgs'[t][i].text = 0
    BY <1>10 DEF Marked
  <2>1. QED
    BY <1>2, <1>5 DEF Marked
<1>14. ASSUME NEW t \in Sessions, t # s
       PROVE  wordless[t] = wordless'[t] \cap 1..(cleared[t] + Len(msgs[t]))
  BY <1>5, <1>14 DEF Marked
<1>15. QED
  BY <1>12, <1>13, <1>14

LEMMA ClearMarks ==
    ASSUME IInv, Marked, NEW s \in Sessions, Clear(s) PROVE Marked'
<1>1. /\ msgs' = [msgs EXCEPT ![s] = <<>>]
      /\ cleared' = [cleared EXCEPT ![s] = @ + Len(msgs[s])]
      /\ wordless' = wordless
  BY DEF Clear
<1>2. Len(<<>>) = 0
  BY EmptySeq
<1>3. cleared[s] \in Nat /\ Len(msgs[s]) \in Nat
  BY Types DEF IInv
<1>4. /\ msgs'[s] = <<>> /\ cleared'[s] = cleared[s] + Len(msgs[s])
      /\ \A t \in Sessions \ {s} : msgs'[t] = msgs[t] /\ cleared'[t] = cleared[t]
  BY <1>1, Types DEF IInv
<1>5. /\ wordless[s] \subseteq 1..(cleared'[s] + Len(msgs'[s]))
      /\ 1..Len(msgs'[s]) = {}
  BY <1>2, <1>3, <1>4 DEF Marked
<1>6. QED
  BY <1>1, <1>4, <1>5 DEF Marked

\* An entry is appended where the mark, or the batch that is about to pass it, stands.
LEMMA EntryTells ==
    ASSUME IInv, HistoryOK, NEW s \in Sessions, InBatch(s), pc[s] # "fill",
           NEW r \in BOOLEAN, AppendHistory(s, r)
    PROVE  /\ Tells(history'[s], cleared[s] + bound[s], wordless[s] \cup lost[s])
           /\ \A t \in Sessions \ {s} : history'[t] = history[t]
<1> DEFINE e == [raw |-> r, of |-> Batch(s)]
<1>1. history'[s] = Append(history[s], e)
      /\ \A t \in Sessions \ {s} : history'[t] = history[t]
  BY Types DEF IInv, AppendHistory
<1>2. e \in Entry /\ e.of = Batch(s) /\ history[s] \in Seq(Entry)
  BY BatchShape, Types DEF IInv
<1>3. Tells(history[s], cleared[s] + lc[s], wordless[s] \cup lost[s])
  BY ArchivedTells DEF HistoryOK, Passed
<1>4. lost[s] \in SUBSET (1..(cleared[s] + lc[s]))
  BY DEF HistoryOK, LostBefore
<1>5. /\ Batch(s) = ((cleared[s] + lc[s] + 1)..(cleared[s] + bound[s])) \ wordless[s]
      /\ cleared[s] + lc[s] \in Nat /\ cleared[s] + bound[s] \in Nat
      /\ cleared[s] + lc[s] <= cleared[s] + bound[s]
  BY BatchNumbers DEF HistoryOK
<1>6. Tells(Append(history[s], e), cleared[s] + bound[s], wordless[s] \cup lost[s])
  <2> DEFINE n == cleared[s] + lc[s]
             m == cleared[s] + bound[s]
  <2>1. e.of = ((n + 1)..m) \ wordless[s] /\ n \in Nat /\ m \in Nat /\ n <= m
        /\ lost[s] \in SUBSET (1..n) /\ Tells(history[s], n, wordless[s] \cup lost[s])
    BY <1>2, <1>3, <1>4, <1>5
  <2> HIDE DEF n, m, e
  <2>2. Tells(Append(history[s], e), m, wordless[s] \cup lost[s])
    BY <1>2, <2>1, TellsMore
  <2>3. QED
    BY <2>2 DEF m
<1>7. QED
  BY <1>1, <1>6

\* What a step must do to the history of its session, if it leaves the others alone.
LEMMA StepTells ==
    ASSUME HistoryOK, NEW s \in Sessions, Marked', LostBefore',
           Tells(history'[s], Passed(s)', wordless'[s] \cup lost'[s]),
           \A t \in Sessions \ {s} :
             /\ history'[t] = history[t] /\ wordless'[t] = wordless[t] /\ lost'[t] = lost[t]
             /\ Passed(t)' = Passed(t)
    PROVE  HistoryOK'
<1>1. \A t \in Sessions : Tells(history[t], Passed(t), wordless[t] \cup lost[t])
  BY ArchivedTells DEF HistoryOK
<1>2. \A t \in Sessions : Tells(history'[t], Passed(t)', wordless'[t] \cup lost'[t])
  BY <1>1
<1>3. ArchivedOnceInOrder'
  BY <1>2 DEF ArchivedOnceInOrder, Tells
<1>4. QED
  BY <1>3 DEF HistoryOK

\* Steps without an entry, that move neither a mark nor a batch past it.
LEMMA QuietStep ==
    ASSUME HistoryOK, UNCHANGED <<lc, cleared, history, lost, wordless, msgs>>,
           \A t \in Sessions : Passed(t)' = Passed(t)
    PROVE  HistoryOK'
  BY DEF HistoryOK, Marked, LostBefore, ArchivedOnceInOrder

-----------------------------------------------------------------------------
\* A turn that is recorded comes after all that is archived.
LEMMA RecordTells ==
    ASSUME IInv, HistoryOK, NEW s \in Sessions, Record(s) PROVE HistoryOK'
<1>1. /\ UNCHANGED <<lc, cleared, pc, history, lost, bound>>
      /\ \A t \in Sessions : Passed(t)' = Passed(t)
  BY DEF Record, jobVars, storeVars, Passed
<1>2. /\ Marked'
      /\ \A t \in Sessions :
           wordless[t] = wordless'[t] \cap 1..(cleared[t] + Len(msgs[t]))
  BY RecordMarks DEF HistoryOK
<1>3. ASSUME NEW t \in Sessions
      PROVE  Tells(history'[t], Passed(t)', wordless'[t] \cup lost'[t])
  <2>1. Passed(t) \in Nat /\ Passed(t) <= cleared[t] + Len(msgs[t])
        /\ cleared[t] + Len(msgs[t]) \in Nat
    <3>1. /\ cleared[t] \in Nat /\ lc[t] \in Nat /\ bound[t] \in Nat /\ Len(msgs[t]) \in Nat
          /\ lc[t] <= Len(msgs[t])
          /\ pc[t] = "fill" => bound[t] <= Len(msgs[t])
      BY Types DEF IInv, SlicesInRange
    <3>2. CASE pc[t] = "fill"
      BY <3>1, <3>2 DEF Passed
    <3>3. CASE pc[t] # "fill"
      BY <3>1, <3>3 DEF Passed
    <3>4. QED
      BY <3>2, <3>3
  <2>2. Tells(history[t], Passed(t), wordless[t] \cup lost[t])
    BY ArchivedTells DEF HistoryOK
  <2>3. (1..Passed(t)) \ (wordless'[t] \cup lost[t]) = (1..Passed(t)) \ (wordless[t] \cup lost[t])
    <3>1. 1..Passed(t) \subseteq 1..(cleared[t] + Len(msgs[t]))
      BY <2>1
    <3>2. QED
      BY <1>2, <3>1
  <2>4. QED
    BY <1>1, <2>2, <2>3 DEF Tells
<1>4. LostBefore' /\ ArchivedOnceInOrder'
  BY <1>1, <1>3 DEF HistoryOK, LostBefore, ArchivedOnceInOrder, Tells
<1>5. QED
  BY <1>2, <1>4 DEF HistoryOK

\* What a move of the mark changes of it.
LEMMA AdvanceTells ==
    ASSUME IInv, HistoryOK, NEW s \in Sessions, InBatch(s), Advance(s)
    PROVE  /\ Marked' /\ UNCHANGED <<cleared, wordless>>
           /\ Passed(s)' = cleared[s] + bound[s]
           /\ \A t \in Sessions \ {s} : Passed(t)' = Passed(t) /\ lc'[t] = lc[t]
           /\ lc'[s] = bound[s]
           /\ 1..(cleared[s] + lc[s]) \subseteq 1..(cleared[s] + bound[s])
<1>1. /\ lc' = [lc EXCEPT ![s] = bound[s]]
      /\ bound' = [bound EXCEPT ![s] = 0]
      /\ pc' = [pc EXCEPT ![s] = IF new[s] THEN "clear" ELSE "check"]
      /\ UNCHANGED <<msgs, cleared, wordless>>
  BY DEF Advance, Goto
<1>2. pc'[s] # "fill" /\ lc'[s] = bound[s]
  BY <1>1, Types DEF IInv
<1>3. \A t \in Sessions \ {s} : pc'[t] = pc[t] /\ lc'[t] = lc[t] /\ bound'[t] = bound[t]
  BY <1>1, Types DEF IInv
<1>4. 1..(cleared[s] + lc[s]) \subseteq 1..(cleared[s] + bound[s])
  <2>1. /\ cleared[s] \in Nat /\ lc[s] \in Nat /\ bound[s] \in Nat /\ lc[s] < bound[s]
    BY Types DEF IInv, SlicesInRange, InBatch
  <2>2. QED
    BY <2>1
<1>5. QED
  BY <1>1, <1>2, <1>3, <1>4 DEF HistoryOK, Marked, Passed

\* A summary is archived before the mark moves, and before the memory is written.
LEMMA SummarisedTells ==
    ASSUME IInv, HistoryOK, NEW s \in Sessions, Summarised(s) PROVE HistoryOK'
<1>1. InBatch(s) /\ pc[s] = "model" /\ AppendHistory(s, FALSE) /\ lost' = lost
  BY DEF Summarised, InBatch
<1>2. /\ Tells(history'[s], cleared[s] + bound[s], wordless[s] \cup lost[s])
      /\ \A t \in Sessions \ {s} : history'[t] = history[t]
  BY <1>1, EntryTells
<1>3. CASE Goto(s, "fill") /\ UNCHANGED <<convVars, jobVars>>
  <2>1. UNCHANGED <<msgs, lc, cleared, wordless, bound>> /\ pc' = [pc EXCEPT ![s] = "fill"]
    BY <1>3 DEF convVars, jobVars, Goto
  <2>2. /\ Passed(s)' = cleared[s] + bound[s]
        /\ \A t \in Sessions \ {s} : Passed(t)' = Passed(t)
    BY <2>1, Types DEF IInv, Passed
  <2>3. Marked' /\ LostBefore'
    BY <1>1, <2>1 DEF HistoryOK, Marked, LostBefore
  <2>4. QED
    BY <1>1, <1>2, <2>1, <2>2, <2>3, StepTells
<1>4. CASE Succeeds(s)
  <2>1. Advance(s)
    BY <1>4 DEF Succeeds
  <2>2. LostBefore'
    BY <1>1, <2>1, AdvanceTells DEF HistoryOK, LostBefore
  <2>3. QED
    BY <1>1, <1>2, <2>1, <2>2, AdvanceTells, StepTells
<1>5. QED
  BY <1>3, <1>4 DEF Summarised

\* The memory that is written brings the mark to what is archived already.
LEMMA FillsMemoryTells ==
    ASSUME IInv, HistoryOK, NEW s \in Sessions, FillsMemory(s) PROVE HistoryOK'
<1>1. InBatch(s) /\ pc[s] = "fill" /\ Advance(s) /\ UNCHANGED <<history, lost>>
  BY DEF FillsMemory, Succeeds, InBatch
<1>2. Tells(history[s], cleared[s] + bound[s], wordless[s] \cup lost[s])
  BY <1>1, ArchivedTells DEF HistoryOK, Passed
<1>3. LostBefore'
  BY <1>1, AdvanceTells DEF HistoryOK, LostBefore
<1>4. QED
  BY <1>1, <1>2, <1>3, AdvanceTells, StepTells

\* A raw archive is appended, or lost.
LEMMA RawArchivesTells ==
    ASSUME IInv, HistoryOK, NEW s \in Sessions, RawArchives(s) PROVE HistoryOK'
<1>1. InBatch(s) /\ pc[s] = "judge" /\ Advance(s)
  BY DEF RawArchives, InBatch
<1>2. CASE AppendHistory(s, TRUE) /\ lost' = lost
  <2>1. /\ Tells(history'[s], cleared[s] + bound[s], wordless[s] \cup lost[s])
        /\ \A t \in Sessions \ {s} : history'[t] = history[t]
    BY <1>1, <1>2, EntryTells
  <2>2. LostBefore'
    BY <1>1, <1>2, AdvanceTells DEF HistoryOK, LostBefore
  <2>3. QED
    BY <1>1, <1>2, <2>1, <2>2, AdvanceTells, StepTells
<1>3. CASE lost' = [lost EXCEPT ![s] = @ \cup Batch(s)] /\ history' = history
  <2> DEFINE n == cleared[s] + lc[s]
             m == cleared[s] + bound[s]
  <2>1. Batch(s) = ((n + 1)..m) \ wordless[s] /\ n \in Nat /\ m \in Nat /\ n <= m
    BY <1>1, BatchNumbers DEF HistoryOK
  <2>2. Tells(history[s], n, wordless[s] \cup lost[s])
    BY <1>1, ArchivedTells DEF HistoryOK, Passed
  <2>3. /\ lost'[s] = lost[s] \cup Batch(s)
        /\ \A t \in Sessions \ {s} : lost'[t] = lost[t]
    BY <1>3, Types DEF IInv
  <2>4. lost[s] \subseteq 1..n
    BY DEF HistoryOK, LostBefore
  <2>5. cleared[s] + lc'[s] = m /\ 1..n \subseteq 1..m
    BY <1>1, AdvanceTells
  <2> HIDE DEF n, m
  <2>6. Tells(history[s], m, wordless[s] \cup lost'[s])
    BY <2>1, <2>2, <2>3, TellsWithout
  <2>7. lost'[s] \subseteq 1..m
    BY <2>1, <2>3, <2>4, <2>5
  <2>8. LostBefore'
    BY <1>1, <2>3, <2>5, <2>7, AdvanceTells DEF HistoryOK, LostBefore
  <2>9. QED
    BY <1>1, <1>3, <2>3, <2>6, <2>8, AdvanceTells, StepTells DEF m
<1>4. QED
  BY <1>2, <1>3 DEF RawArchives

\* /new clears what has been archived.
LEMMA ClearTells ==
    ASSUME IInv, HistoryOK, NEW s \in Sessions, Clear(s) PROVE HistoryOK'
<1>1. /\ lc' = [lc EXCEPT ![s] = 0] /\ pc[s] = "clear"
      /\ cleared' = [cleared EXCEPT ![s] = @ + Len(msgs[s])]
      /\ pc' = [pc EXCEPT ![s] = "idle"]
      /\ UNCHANGED <<history, wordless, lost, bound>>
  BY DEF Clear, Ends, Goto, storeVars
<1>2. lc[s] = Len(msgs[s])
  BY <1>1 DEF IInv, JobOK
<1>3. ASSUME NEW t \in Sessions
      PROVE  cleared'[t] + lc'[t] = cleared[t] + lc[t] /\ Passed(t)' = Passed(t)
  <2>1. CASE t = s
    <3>1. cleared'[s] + lc'[s] = cleared[s] + lc[s]
      <4>1. cleared'[s] = cleared[s] + Len(msgs[s]) /\ lc'[s] = 0
        BY <1>1, Types DEF IInv
      <4>2. cleared[s] \in Nat /\ Len(msgs[s]) \in Nat
        BY Types DEF IInv
      <4>3. QED
        BY <1>2, <4>1, <4>2
    <3>2. pc'[s] = "idle"
      BY <1>1, Types DEF IInv
    <3>3. QED
      BY <1>1, <2>1, <3>1, <3>2 DEF Passed
  <2>2. CASE t # s
    BY <1>1, <2>2, Types DEF IInv, Passed
  <2>3. QED
    BY <2>1, <2>2
<1>4. Marked'
  BY ClearMarks DEF HistoryOK
<1>5. LostBefore' /\ ArchivedOnceInOrder'
  BY <1>1, <1>3 DEF HistoryOK, LostBefore, ArchivedOnceInOrder
<1>6. QED
  BY <1>4, <1>5 DEF HistoryOK

LEMMA NextHistory ==
    ASSUME IInv, HistoryOK, [Next]_vars PROVE HistoryOK'
<1>1. CASE UNCHANGED vars
  BY <1>1, QuietStep DEF vars, convVars, storeVars, jobVars, Passed
<1>2. ASSUME NEW s \in Sessions,
             \/ Begin(s) \/ BeginNew(s) \/ Check(s)
             \/ ModelFails(s) \/ CountReads(s) \/ CountWrites(s) \/ GivesUp(s)
      PROVE  HistoryOK'
  <2>1. /\ UNCHANGED <<lc, cleared, history, lost, wordless, msgs>>
        /\ pc[s] # "fill"
        /\ \E l \in Pcs \ {"fill"} : pc' = [pc EXCEPT ![s] = l]
        /\ \A t \in Sessions \ {s} : bound'[t] = bound[t]
    <3>1. bound' = bound \/ \E b : bound' = [bound EXCEPT ![s] = b]
      BY <1>2 DEF Begin, BeginNew, Check, ModelFails, CountReads, CountWrites, GivesUp, jobVars
    <3>2. \A t \in Sessions \ {s} : bound'[t] = bound[t]
      BY <3>1, Types DEF IInv
    <3>3. QED
      BY <1>2, <3>2 DEF Begin, BeginNew, Check, ModelFails, CountReads, CountWrites, GivesUp, Ends,
         Goto, convVars, storeVars, Pcs
  <2>2. \A t \in Sessions : Passed(t)' = Passed(t)
    BY <2>1, Types DEF IInv, Passed
  <2>3. QED
    BY <2>1, <2>2, QuietStep
<1>3. CASE Next
  BY <1>2, <1>3, RecordTells, SummarisedTells, FillsMemoryTells, RawArchivesTells, ClearTells
     DEF Next, Store
<1>4. QED
  BY <1>1, <1>3

\* HISTORY.md holds every consolidated message of every session exactly once and in
\* order, but for those without content and those whose raw archive the disk refused:
\* whatever the model answers, however the shared failure counter is overwritten,
\* whatever reads and writes fail, and through any number of /new commands.
THEOREM ArchivedOnce ==
    ASSUME Base < Target PROVE Spec => []ArchivedOnceInOrder
<1>1. Init => HistoryOK
  <2> SUFFICES ASSUME Init PROVE HistoryOK
    OBVIOUS
  <2>1. Len(<<>>) = 0 /\ DOMAIN <<>> = {}
    BY EmptySeq
  <2>2. \A s \in Sessions :
          /\ msgs[s] = <<>> /\ history[s] = <<>> /\ Passed(s) = 0
          /\ wordless[s] = {} /\ lost[s] = {}
    BY DEF Init, Passed
  <2>3. QED
    BY <2>1, <2>2 DEF HistoryOK, Marked, LostBefore, ArchivedOnceInOrder
<1>2. IInv /\ HistoryOK /\ [Next]_vars => HistoryOK'
  BY NextHistory
<1>3. HistoryOK => ArchivedOnceInOrder
  BY DEF HistoryOK
<1>4. QED
  BY <1>1, <1>2, <1>3, ConsolidationInvariant, PTL DEF Spec

-----------------------------------------------------------------------------
(* The facts of the memory, for any number of sessions.                    *)

\* The message a fact was drawn from is in the history of its session.
Archived(f) == \E i \in DOMAIN history[f[1]] : f[2] \in history[f[1]][i].of

\* So it is with the facts that are, were or will be in the memory: a goroutine may
\* write back what it was shown before others wrote.
FactsOK ==
    /\ \A f \in memory : Archived(f)
    /\ \A s \in Sessions : \A f \in shown[s] : Archived(f)
    /\ \A s \in Sessions : pc[s] = "fill" => \A f \in Facts(s) : Archived(f)

\* Entries are appended only: what is archived stays archived.
LEMMA StaysArchived ==
    ASSUME IInv, NEW s \in Sessions,
           history' = history \/ \E r \in BOOLEAN : AppendHistory(s, r),
           NEW f \in Sessions \X Nat, Archived(f)
    PROVE  Archived(f)'
<1>1. CASE history' = history
  BY <1>1 DEF Archived
<1>2. ASSUME NEW r \in BOOLEAN, AppendHistory(s, r) PROVE Archived(f)'
  <2> DEFINE e == [raw |-> r, of |-> Batch(s)]
  <2>1. history[s] \in Seq(Entry) /\ e \in Entry
    BY BatchShape, Types DEF IInv
  <2>2. /\ history'[s] = Append(history[s], e)
        /\ \A t \in Sessions \ {s} : history'[t] = history[t]
    BY <1>2, Types DEF IInv, AppendHistory
  <2> HIDE DEF e
  <2>3. /\ DOMAIN history[s] \subseteq DOMAIN history'[s]
        /\ \A i \in DOMAIN history[s] : history'[s][i] = history[s][i]
    BY <2>1, <2>2, AppendProperties, LenProperties
  <2>4. f[1] \in Sessions
    OBVIOUS
  <2>5. QED
    BY <2>2, <2>3, <2>4 DEF Archived
<1>3. QED
  BY <1>1, <1>2

\* The batch of an entry is archived by it.
LEMMA EntryArchives ==
    ASSUME IInv, NEW s \in Sessions, NEW r \in BOOLEAN, AppendHistory(s, r), NEW f \in Facts(s)
    PROVE  Archived(f)'
<1> DEFINE e == [raw |-> r, of |-> Batch(s)]
           n == Len(history[s]) + 1
<1>1. history[s] \in Seq(Entry) /\ e \in Entry /\ history'[s] = Append(history[s], e)
  BY BatchShape, Types DEF IInv, AppendHistory
<1>2. f[1] = s /\ f[2] \in e.of
  BY DEF Facts
<1> HIDE DEF e
<1>3. n \in DOMAIN history'[s] /\ history'[s][n] = e
  BY <1>1, AppendProperties, LenProperties
<1> HIDE DEF n
<1>4. QED
  BY <1>2, <1>3 DEF Archived

\* A step that reads the memory, writes back what was read, or does neither.
LEMMA FactsStep ==
    ASSUME IInv, FactsOK, NEW s \in Sessions,
           history' = history \/ \E r \in BOOLEAN : AppendHistory(s, r),
           memory' \subseteq memory \cup
              IF pc[s] = "fill" THEN shown[s] \cup Facts(s) ELSE {},
           \A t \in Sessions : shown'[t] \subseteq shown[t] \cup memory,
           \A t \in Sessions : pc'[t] = "fill" =>
              Facts(t)' = Facts(t) /\ (pc[t] = "fill" \/ \A f \in Facts(t) : Archived(f)')
    PROVE  FactsOK'
<1>1. /\ memory \subseteq Sessions \X Nat
      /\ \A t \in Sessions : shown[t] \subseteq Sessions \X Nat /\ Facts(t) \subseteq Sessions \X Nat
  BY BatchShape, Types DEF IInv
<1>2. \A f \in memory' : Archived(f)'
  <2>1. \A f \in memory' : f \in Sessions \X Nat /\ Archived(f)
    BY <1>1 DEF FactsOK
  <2>2. QED
    BY <2>1, StaysArchived
<1>3. \A t \in Sessions : \A f \in shown'[t] : Archived(f)'
  <2>1. \A t \in Sessions : \A f \in shown'[t] : f \in Sessions \X Nat /\ Archived(f)
    BY <1>1 DEF FactsOK
  <2>2. QED
    BY <2>1, StaysArchived
<1>4. ASSUME NEW t \in Sessions, pc'[t] = "fill", NEW f \in Facts(t)' PROVE Archived(f)'
  <2>1. f \in Facts(t) /\ f \in Sessions \X Nat
    BY <1>1, <1>4
  <2>2. CASE pc[t] = "fill"
    <3>1. Archived(f)
      BY <2>1, <2>2 DEF FactsOK
    <3>2. QED
      BY <2>1, <3>1, StaysArchived
  <2>3. QED
    BY <1>4, <2>1, <2>2
<1>5. QED
  BY <1>2, <1>3, <1>4 DEF FactsOK

\* The facts of a batch do not change while nothing of its session does.
LEMMA SameFacts ==
    ASSUME NEW t, msgs'[t] = msgs[t], lc'[t] = lc[t], cleared'[t] = cleared[t], bound'[t] = bound[t]
    PROVE  Facts(t)' = Facts(t)
  BY DEF Facts, Batch

\* The session of a step alone changes.
LEMMA OthersStay ==
    ASSUME IInv, NEW s \in Sessions,
           Record(s) \/ Begin(s) \/ BeginNew(s) \/ Check(s) \/ Store(s) \/ Clear(s)
    PROVE  \A t \in Sessions \ {s} :
             /\ msgs'[t] = msgs[t] /\ lc'[t] = lc[t] /\ cleared'[t] = cleared[t]
             /\ bound'[t] = bound[t] /\ pc'[t] = pc[t] /\ shown'[t] = shown[t]
<1>1. msgs' = msgs \/ \E m : msgs' = [msgs EXCEPT ![s] = m]
  BY DEF Record, Begin, BeginNew, Check, Store, Clear, Summarised, FillsMemory, ModelFails, CountReads,
     CountWrites, GivesUp, RawArchives, Succeeds, Advance, convVars
<1>2. lc' = lc \/ \E m : lc' = [lc EXCEPT ![s] = m]
  BY DEF Record, Begin, BeginNew, Check, Store, Clear, Summarised, FillsMemory, ModelFails, CountReads,
     CountWrites, GivesUp, RawArchives, Succeeds, Advance, convVars
<1>3. cleared' = cleared \/ \E m : cleared' = [cleared EXCEPT ![s] = m]
  BY DEF Record, Begin, BeginNew, Check, Store, Clear, Summarised, FillsMemory, ModelFails, CountReads,
     CountWrites, GivesUp, RawArchives, Succeeds, Advance, convVars
<1>4. bound' = bound \/ \E m : bound' = [bound EXCEPT ![s] = m]
  BY DEF Record, Begin, BeginNew, Check, Store, Clear, Summarised, FillsMemory, ModelFails, CountReads,
     CountWrites, GivesUp, RawArchives, Succeeds, Advance, jobVars
<1>5. pc' = pc \/ \E m : pc' = [pc EXCEPT ![s] = m]
  BY DEF Record, Begin, BeginNew, Check, Store, Clear, Summarised, FillsMemory, ModelFails, CountReads,
     CountWrites, GivesUp, RawArchives, Succeeds, Advance, Ends, Goto
<1>6. shown' = shown \/ \E m : shown' = [shown EXCEPT ![s] = m]
  BY DEF Record, Begin, BeginNew, Check, Store, Clear, Summarised, FillsMemory, ModelFails, CountReads,
     CountWrites, GivesUp, RawArchives, Succeeds, Advance, jobVars
<1>7. QED
  BY <1>1, <1>2, <1>3, <1>4, <1>5, <1>6, Types DEF IInv

LEMMA NextFacts ==
    ASSUME IInv, FactsOK, [Next]_vars PROVE FactsOK'
<1>1. CASE UNCHANGED vars
  BY <1>1 DEF vars, convVars, jobVars, storeVars, FactsOK, Archived, Facts, Batch
<1>2. ASSUME NEW s \in Sessions,
             Record(s) \/ Begin(s) \/ BeginNew(s) \/ Check(s) \/ Store(s) \/ Clear(s)
      PROVE  FactsOK'
  <2>1. \A t \in Sessions \ {s} :
          shown'[t] = shown[t] /\ pc'[t] = pc[t] /\ Facts(t)' = Facts(t)
    BY <1>2, OthersStay, SameFacts
  <2>2. ASSUME shown'[s] \subseteq shown[s] \cup memory, pc'[s] # "fill",
               history' = history \/ \E r \in BOOLEAN : AppendHistory(s, r),
               memory' \subseteq memory \cup
                  IF pc[s] = "fill" THEN shown[s] \cup Facts(s) ELSE {}
        PROVE  FactsOK'
    BY <2>1, <2>2, FactsStep
  <2>3. CASE Record(s) \/ Begin(s) \/ Clear(s) \/ CountReads(s) \/ CountWrites(s) \/ GivesUp(s)
    <3>1. /\ UNCHANGED <<shown, history, memory>>
          /\ \/ pc' = pc /\ pc[s] = "idle"
             \/ \E l \in Pcs \ {"fill"} : pc' = [pc EXCEPT ![s] = l]
      BY <2>3 DEF Record, Begin, Clear, CountReads, CountWrites, GivesUp, Ends, Goto, jobVars,
         storeVars, Pcs
    <3>2. pc'[s] # "fill"
      BY <3>1, Types DEF IInv
    <3>3. QED
      BY <2>2, <3>1, <3>2
  <2>4. CASE BeginNew(s) \/ Check(s)
    <3>1. /\ UNCHANGED <<history, memory>>
          /\ \/ shown' = shown
             \/ \E m \in ReadMemory : shown' = [shown EXCEPT ![s] = m]
          /\ \E l \in Pcs \ {"fill"} : pc' = [pc EXCEPT ![s] = l]
      BY <2>4 DEF BeginNew, Check, Ends, Goto, storeVars, Pcs
    <3>2. pc'[s] # "fill" /\ shown'[s] \subseteq shown[s] \cup memory
      BY <3>1, Types DEF IInv, ReadMemory
    <3>3. QED
      BY <2>2, <3>1, <3>2
  <2>5. CASE ModelFails(s) \/ RawArchives(s)
    <3>1. /\ memory' = memory
          /\ history' = history \/ AppendHistory(s, TRUE)
          /\ shown' = shown \/ shown' = [shown EXCEPT ![s] = {}]
          /\ \E l \in Pcs \ {"fill"} : pc' = [pc EXCEPT ![s] = l]
      BY <2>5 DEF ModelFails, RawArchives, Advance, Goto, Pcs
    <3>2. pc'[s] # "fill" /\ shown'[s] \subseteq shown[s]
      BY <3>1, Types DEF IInv
    <3>3. QED
      BY <2>2, <3>1, <3>2
  <2>6. CASE FillsMemory(s)
    <3>1. /\ pc[s] = "fill" /\ history' = history /\ shown' = [shown EXCEPT ![s] = {}]
          /\ memory' \subseteq memory \cup (shown[s] \cup Facts(s))
          /\ \E l \in Pcs \ {"fill"} : pc' = [pc EXCEPT ![s] = l]
      BY <2>6 DEF FillsMemory, Update, Succeeds, Advance, Goto, Pcs
    <3>2. pc'[s] # "fill" /\ shown'[s] \subseteq shown[s]
      BY <3>1, Types DEF IInv
    <3>3. QED
      BY <2>2, <3>1, <3>2
  <2>7. CASE Summarised(s)
    <3>1. AppendHistory(s, FALSE)
      BY <2>7 DEF Summarised
    <3>2. CASE memory' = {} /\ Goto(s, "fill") /\ UNCHANGED <<convVars, jobVars>>
      <4>1. UNCHANGED <<msgs, lc, cleared, bound, shown>>
        BY <3>2 DEF convVars, jobVars
      <4>2. \A f \in Facts(s) : Archived(f)'
        BY <3>1, EntryArchives
      <4>3. Facts(s)' = Facts(s)
        BY <4>1, SameFacts
      <4>4. \A t \in Sessions : pc'[t] = "fill" =>
              Facts(t)' = Facts(t) /\ (pc[t] = "fill" \/ \A f \in Facts(t) : Archived(f)')
        BY <2>1, <4>2, <4>3
      <4>5. QED
        BY <3>1, <3>2, <4>1, <4>4, FactsStep
    <3>3. CASE Succeeds(s) /\ memory' = memory
      <4>1. /\ shown' = [shown EXCEPT ![s] = {}]
            /\ pc' = [pc EXCEPT ![s] = IF new[s] THEN "clear" ELSE "check"]
        BY <3>3 DEF Succeeds, Advance, Goto
      <4>2. pc'[s] # "fill" /\ shown'[s] \subseteq shown[s]
        BY <4>1, Types DEF IInv
      <4>3. QED
        BY <2>2, <3>1, <3>3, <4>2
    <3>4. QED
      BY <2>7, <3>2, <3>3 DEF Summarised
  <2>8. QED
    BY <1>2, <2>3, <2>4, <2>5, <2>6, <2>7 DEF Store
<1>3. QED
  BY <1>1, <1>2 DEF Next

\* However many sessions read, overwrite, truncate and cut the shared MEMORY.md while the
\* model works for others, and whatever reads and writes fail: each fact in it was
\* drawn from a message that HISTORY.md has.
THEOREM FactsAreArchived ==
    ASSUME Base < Target PROVE Spec => []FactsHaveHistory
<1>1. Init => FactsOK
  BY DEF Init, FactsOK
<1>2. IInv /\ FactsOK /\ [Next]_vars => FactsOK'
  BY NextFacts
<1>3. FactsOK => FactsHaveHistory
  BY DEF FactsOK, Archived, FactsHaveHistory
<1>4. QED
  BY <1>1, <1>2, <1>3, ConsolidationInvariant, PTL DEF Spec

-----------------------------------------------------------------------------
(* What holds for one session only: the counter is shared, and read before *)
(* another goroutine writes it.                                            *)

OneSession == \A s, t \in Sessions : s = t

\* The counter is the streak, apart from the increment that is under way.
CounterOK ==
    /\ DOMAIN pc = Sessions /\ DOMAIN count = Sessions
    /\ \A s \in Sessions :
         CASE pc[s] = "read"  -> streak = OneMore(failures)
           [] pc[s] = "write" -> streak = OneMore(count[s])
           [] OTHER           -> streak = failures

\* Every step keeps CounterOK.
LEMMA NextCounter ==
    ASSUME OneSession, CounterOK, [Next]_vars
    PROVE  CounterOK'
<1> USE DEF OneSession, CounterOK, Goto
<1>1. CASE UNCHANGED vars
  BY <1>1 DEF vars, jobVars, storeVars
<1>2. ASSUME NEW s \in Sessions, Record(s) \/ Begin(s) \/ BeginNew(s) \/ Check(s) \/ Clear(s)
      PROVE  CounterOK'
  <2>1. /\ UNCHANGED <<count, failures, streak>> /\ pc[s] \notin {"read", "write"}
        /\ pc' = pc \/ \E l \in {"idle", "check", "clear", "model"} : pc' = [pc EXCEPT ![s] = l]
    BY <1>2 DEF Record, Begin, BeginNew, Check, Clear, Ends, storeVars, jobVars
  <2> QED BY <2>1
<1>3. ASSUME NEW s \in Sessions, Summarised(s) \/ FillsMemory(s) \/ RawArchives(s)
      PROVE  CounterOK'
  <2>1. CASE Goto(s, "fill") /\ UNCHANGED <<jobVars, failures, streak>> /\ pc[s] = "model"
    BY <2>1 DEF jobVars
  <2>2. CASE failures' = 0 /\ streak' = 0 /\ Advance(s)
    <3>1. count' = count /\ \E l \in {"check", "clear"} : pc' = [pc EXCEPT ![s] = l]
      BY <2>2 DEF Advance
    <3> QED BY <2>2, <3>1
  <2> QED BY <1>3, <2>1, <2>2 DEF Summarised, FillsMemory, RawArchives, Succeeds
<1>4. ASSUME NEW s \in Sessions, ModelFails(s) PROVE CounterOK'
  <2>1. /\ pc[s] = "model" /\ streak' = OneMore(streak) /\ UNCHANGED <<count, failures>>
        /\ pc' = [pc EXCEPT ![s] = "read"]
    BY <1>4 DEF ModelFails
  <2> QED BY <2>1 DEF OneMore
<1>5. ASSUME NEW s \in Sessions, CountReads(s) PROVE CounterOK'
  <2>1. /\ pc[s] = "read" /\ UNCHANGED <<failures, streak>>
        /\ count' = [count EXCEPT ![s] = failures] /\ pc' = [pc EXCEPT ![s] = "write"]
    BY <1>5 DEF CountReads, storeVars
  <2> QED BY <2>1 DEF OneMore
<1>6. ASSUME NEW s \in Sessions, CountWrites(s) PROVE CounterOK'
  <2>1. /\ pc[s] = "write" /\ failures' = OneMore(count[s]) /\ streak' = streak
        /\ count' = [count EXCEPT ![s] = 0] /\ pc' = [pc EXCEPT ![s] = "judge"]
    BY <1>6 DEF CountWrites
  <2> QED BY <2>1
<1>7. ASSUME NEW s \in Sessions, GivesUp(s) PROVE CounterOK'
  <2>1. /\ pc[s] = "judge" /\ UNCHANGED <<failures, streak, count>>
        /\ pc' = [pc EXCEPT ![s] = "idle"]
    BY <1>7 DEF GivesUp, Ends, storeVars
  <2> QED BY <2>1
<1> QED BY <1>1, <1>2, <1>3, <1>4, <1>5, <1>6, <1>7 DEF Next, Store

\* With one session, raw archives are for three failures in a row only, however
\* rounds, turns and /new commands follow one another.
THEOREM RawAfterStreak ==
    ASSUME OneSession PROVE Spec => []RawNeedsStreak
<1>1. Init => CounterOK
  BY DEF Init, CounterOK
<1>2. CounterOK /\ [Next]_vars => CounterOK'
  BY NextCounter
<1>3. CounterOK => RawNeedsStreak
  BY DEF CounterOK, RawNeedsStreak
<1> QED BY <1>1, <1>2, <1>3, PTL DEF Spec
=============================================================================
