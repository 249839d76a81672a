--------------------------- MODULE Consolidation ---------------------------
(***************************************************************************)
(* The memory consolidator and its store (internal/agent/memory.go): the   *)
(* sessions of a process, each with its conversation and its mark          *)
(* LastConsolidated, share one MEMORY.md, one HISTORY.md and one counter   *)
(* of consecutive failures.  A session's consolidation runs in its own     *)
(* goroutine and waits for the model between reading the memory and        *)
(* writing it; the write truncates the file first.                         *)
(*                                                                         *)
(* Turns of one session are serial here (module ChatTurns has those that   *)
(* are not).  Sizes are in tokens; a fact of the memory is a message it    *)
(* was drawn from, and the model is obedient: it returns every fact it was *)
(* shown, plus one for each message of the batch whose text it was given.  *)
(***************************************************************************)
EXTENDS Integers, Sequences, FiniteSets

CONSTANTS
    Sessions,
    Shapes,         \* the turns a session may record: sequences of messages
                    \* [role, text, calls], sizes of content and tool calls
    Base,           \* basePromptTokens (2000) and the size of MEMORY.md
    Target,         \* window - window * ratio: 32768 in the code
    Slack,          \* added to the tokens to remove: 1024 in the code
    MaxRounds,      \* MaxConsolidationRounds: 5 in the code
    MaxFailures,    \* maxFailuresBeforeRawArchive: 3 in the code
    DiskFaults,     \* whether reads and writes of the two files may fail
    MaxMessages     \* bound of the model: messages recorded per session

ASSUME SizesNat == {Base, Target, Slack, MaxRounds, MaxMessages} \subseteq Nat
ASSUME MaxFailuresPos == MaxFailures \in Nat \ {0}
ASSUME DiskFaultsBool == DiskFaults \in BOOLEAN

VARIABLES
    msgs,       \* msgs[s]: Session.Messages
    lc,         \* lc[s]: Session.LastConsolidated
    cleared,    \* cleared[s]: messages of s that /new cleared so far
    pc,         \* pc[s]: where the consolidation of s is
    new,        \* new[s]: it was started by /new
    round,      \* round[s]: rounds of MaybeConsolidateByTokens done
    bound,      \* bound[s]: end of the batch the model has
    shown,      \* shown[s]: the memory the model was shown
    count,      \* count[s]: the failure counter as the goroutine of s read it
    memory,     \* MEMORY.md: set of facts <<s, n>>
    history,    \* history[s]: the entries of HISTORY.md about s that were written
                \* whole: [raw, of], of the numbers of messages
    failures,   \* MemoryStore.consecutiveFailures; counted up to MaxFailures,
                \* as larger values are treated the same
    streak,     \* failures since the last batch that was archived, as an
                \* observer counts them, up to MaxFailures
    wordless,   \* history variable: wordless[s]: numbers of the messages of s
                \* without content
    lost        \* history variable: lost[s]: numbers of the messages of s whose
                \* raw archive could not be written

convVars  == <<msgs, lc, cleared, wordless>>
jobVars   == <<new, round, bound, shown, count>>
storeVars == <<memory, history, failures, streak, lost>>
vars      == <<convVars, pc, jobVars, storeVars>>

Message == [role : {"user", "assistant", "tool"}, text : Nat, calls : Nat]

ASSUME ShapesOK == Shapes \subseteq Seq(Message)

Entry == [raw : BOOLEAN, of : SUBSET Nat]

Pcs == {"idle", "check", "model", "fill", "read", "write", "judge", "clear"}

TypeOK ==
    /\ msgs \in [Sessions -> Seq(Message)]
    /\ lc \in [Sessions -> Nat] /\ cleared \in [Sessions -> Nat]
    /\ pc \in [Sessions -> Pcs] /\ new \in [Sessions -> BOOLEAN]
    /\ round \in [Sessions -> 0..MaxRounds] /\ bound \in [Sessions -> Nat]
    /\ shown \in [Sessions -> SUBSET (Sessions \X Nat)]
    /\ count \in [Sessions -> 0..MaxFailures]
    /\ memory \in SUBSET (Sessions \X Nat)
    /\ history \in [Sessions -> Seq(Entry)]
    /\ failures \in 0..MaxFailures /\ streak \in 0..MaxFailures
    /\ wordless \in [Sessions -> SUBSET Nat] /\ lost \in [Sessions -> SUBSET Nat]

Init ==
    /\ msgs = [s \in Sessions |-> <<>>]
    /\ lc = [s \in Sessions |-> 0] /\ cleared = [s \in Sessions |-> 0]
    /\ pc = [s \in Sessions |-> "idle"] /\ new = [s \in Sessions |-> FALSE]
    /\ round = [s \in Sessions |-> 0] /\ bound = [s \in Sessions |-> 0]
    /\ shown = [s \in Sessions |-> {}] /\ count = [s \in Sessions |-> 0]
    /\ memory = {} /\ history = [s \in Sessions |-> <<>>]
    /\ failures = 0 /\ streak = 0
    /\ wordless = [s \in Sessions |-> {}] /\ lost = [s \in Sessions |-> {}]

Goto(s, l) == pc' = [pc EXCEPT ![s] = l]

\* The consolidation is over; what it counted is gone.
Ends(s) ==
    /\ Goto(s, "idle")
    /\ new' = [new EXCEPT ![s] = FALSE] /\ round' = [round EXCEPT ![s] = 0]

-----------------------------------------------------------------------------
(* Pure parts.                                                             *)

\* Sum of f over lo..hi.
SumOver(f(_), lo, hi) ==
    LET sum[i \in (lo - 1)..hi] == IF i < lo THEN 0 ELSE sum[i - 1] + f(i)
    IN  IF hi < lo THEN 0 ELSE sum[hi]

\* estimatePromptTokens.
Estimate(s) ==
    LET size(i) == msgs[s][i].text + msgs[s][i].calls
    IN  Base + SumOver(size, lc[s] + 1, Len(msgs[s]))

PickBoundary_All(s, toRemove) == {Len(msgs[s])}

\* pickConsolidationBoundary, as the set of its one result: the first user
\* message by which the texts, its own included, reach what is to be removed;
\* else the last index; else one message.
PickBoundary(s, toRemove) ==
    LET n       == Len(msgs[s])
        text(i) == msgs[s][i].text
        cuts    == {i \in lc[s]..(n - 1) :
                      /\ msgs[s][i + 1].role = "user"
                      /\ SumOver(text, lc[s] + 1, i + 1) >= toRemove}
    IN  IF cuts # {} THEN {i \in cuts : \A j \in cuts : i <= j}
        ELSE IF n - 1 > lc[s] THEN {n - 1}
        ELSE {lc[s] + 1}

\* The boundary of the next round; none when MaybeConsolidateByTokens returns
\* instead.  A boundary that is not beyond the mark becomes one message.
NextBoundary(s) ==
    LET over   == Estimate(s) - Target + Slack
        picked == PickBoundary(s, over)
        beyond == {i \in picked : i > lc[s]}
        alone  == {i \in {lc[s] + 1} : picked \subseteq 0..lc[s] /\ i < Len(msgs[s])}
    IN  IF round[s] = MaxRounds \/ Estimate(s) < Target \/ over <= 0
          THEN {}
          ELSE beyond \cup alone

\* GetHistory(0): what is not consolidated, from its first user message on;
\* all of it if there is none.
History(s) ==
    LET users == {i \in (lc[s] + 1)..Len(msgs[s]) : msgs[s][i].role = "user"}
        start == IF users = {} THEN lc[s] + 1
                 ELSE CHOOSE i \in users : \A j \in users : i <= j
    IN  SubSeq(msgs[s], start, Len(msgs[s]))

\* formatMessages: the messages of the batch with content, by their numbers.
Batch(s) == {cleared[s] + i : i \in {j \in (lc[s] + 1)..bound[s] : msgs[s][j].text > 0}}

Facts(s) == {s} \X Batch(s)

\* ReadMemory: a file that cannot be read counts as empty.
ReadMemory == {memory} \cup IF DiskFaults THEN {{}} ELSE {}

-----------------------------------------------------------------------------
(* The conversation, and the two ways to start a consolidation.            *)

Record(s) ==
    /\ pc[s] = "idle"
    /\ \E turn \in Shapes :
         /\ cleared[s] + Len(msgs[s]) + Len(turn) <= MaxMessages
         /\ msgs' = [msgs EXCEPT ![s] = @ \o turn]
         /\ wordless' = [wordless EXCEPT ![s] = @ \cup
              {cleared[s] + Len(msgs[s]) + i : i \in {j \in DOMAIN turn : turn[j].text = 0}}]
    /\ UNCHANGED <<lc, cleared, pc, jobVars, storeVars>>

\* MaybeConsolidateByTokens, before or after a turn.
Begin(s) ==
    /\ pc[s] = "idle"
    /\ Goto(s, "check")
    /\ UNCHANGED <<convVars, jobVars, storeVars>>

\* /new: ArchiveUnconsolidated, if there is something to archive.
BeginNew(s) ==
    /\ pc[s] = "idle"
    /\ new' = [new EXCEPT ![s] = TRUE]
    /\ IF Len(msgs[s]) = lc[s]
         THEN Goto(s, "clear") /\ UNCHANGED <<bound, shown>>
         ELSE /\ bound' = [bound EXCEPT ![s] = Len(msgs[s])]
              /\ \E m \in ReadMemory : shown' = [shown EXCEPT ![s] = m]
              /\ Goto(s, "model")
    /\ UNCHANGED <<convVars, round, count, storeVars>>

Check_AnyBoundary(s) ==
    /\ pc[s] = "check"
    /\ \/ NextBoundary(s) = {} /\ Ends(s) /\ UNCHANGED <<bound, shown>>
       \/ \E b \in PickBoundary(s, Estimate(s) - Target + Slack) :
            /\ NextBoundary(s) # {}
            /\ bound' = [bound EXCEPT ![s] = b]
            /\ \E m \in ReadMemory : shown' = [shown EXCEPT ![s] = m]
            /\ Goto(s, "model")
            /\ UNCHANGED <<new, round>>
    /\ UNCHANGED <<convVars, count, storeVars>>

\* A round of MaybeConsolidateByTokens up to the call of the model.
Check(s) ==
    /\ pc[s] = "check"
    /\ \/ NextBoundary(s) = {} /\ Ends(s) /\ UNCHANGED <<bound, shown>>
       \/ \E b \in NextBoundary(s) :
            /\ bound' = [bound EXCEPT ![s] = b]
            /\ \E m \in ReadMemory : shown' = [shown EXCEPT ![s] = m]
            /\ Goto(s, "model")
            /\ UNCHANGED <<new, round>>
    /\ UNCHANGED <<convVars, count, storeVars>>

-----------------------------------------------------------------------------
(* MemoryStore.Consolidate.                                                *)

\* The caller's half: the mark moves, and the next round or Clear follows.
Advance(s) ==
    /\ lc' = [lc EXCEPT ![s] = bound[s]]
    /\ round' = [round EXCEPT ![s] = IF new[s] THEN @ ELSE @ + 1]
    /\ bound' = [bound EXCEPT ![s] = 0]
    /\ Goto(s, IF new[s] THEN "clear" ELSE "check")
    /\ UNCHANGED <<msgs, cleared, wordless, new, count>>

\* One more, up to the threshold.
OneMore(n) == IF n < MaxFailures THEN n + 1 ELSE n

\* AppendHistory: one write of one entry.
AppendHistory(s, raw) ==
    history' = [history EXCEPT ![s] = Append(@, [raw |-> raw, of |-> Batch(s)])]

\* The end of a call that succeeded.
Succeeds_KeepsCount(s) ==
    /\ streak' = 0
    /\ shown' = [shown EXCEPT ![s] = {}]
    /\ Advance(s)
    /\ UNCHANGED failures

Succeeds(s) ==
    /\ failures' = 0 /\ streak' = 0
    /\ shown' = [shown EXCEPT ![s] = {}]
    /\ Advance(s)

\* The model called save_memory: the entry is appended.  The memory is overwritten
\* if the update differs from what the model was shown: WriteMemory truncates the
\* file first.  One that cannot be opened is logged.
Update(s) == shown[s] \cup Facts(s)

Summarised(s) ==
    /\ pc[s] = "model"
    /\ AppendHistory(s, FALSE)
    /\ \/ /\ Update(s) # shown[s]
          /\ memory' = {}
          /\ Goto(s, "fill")
          /\ UNCHANGED <<convVars, jobVars, failures, streak>>
       \/ /\ Update(s) = shown[s] \/ DiskFaults
          /\ Succeeds(s) /\ UNCHANGED memory
    /\ UNCHANGED lost

\* The rest of WriteMemory, whole or, on an error, in part; the error is logged, too.
\* What another session wrote since the file was truncated may remain at its end.
FillsMemory(s) ==
    /\ pc[s] = "fill"
    /\ \E tail \in SUBSET memory :
         \/ memory' = Update(s) \cup tail
         \/ DiskFaults /\ \E part \in SUBSET Update(s) : memory' = part \cup tail
    /\ Succeeds(s)
    /\ UNCHANGED <<history, lost>>

\* The call failed, or its answer has no usable save_memory call, or HISTORY.md
\* could not be written: failOrRawArchive.
ModelFails_MemoryFirst(s) ==
    /\ pc[s] = "model"
    /\ streak' = OneMore(streak)
    /\ memory' \in {memory, Update(s)}
    /\ shown' = [shown EXCEPT ![s] = {}]
    /\ Goto(s, "read")
    /\ UNCHANGED <<convVars, new, round, bound, count, history, failures, lost>>

ModelFails(s) ==
    /\ pc[s] = "model"
    /\ streak' = OneMore(streak)
    /\ shown' = [shown EXCEPT ![s] = {}]
    /\ Goto(s, "read")
    /\ UNCHANGED <<convVars, new, round, bound, count, memory, history,
                   failures, lost>>

\* consecutiveFailures++, which no lock protects: read ...
CountReads(s) ==
    /\ pc[s] = "read"
    /\ count' = [count EXCEPT ![s] = failures]
    /\ Goto(s, "write")
    /\ UNCHANGED <<convVars, new, round, bound, shown, storeVars>>

\* ... and write.
CountWrites(s) ==
    /\ pc[s] = "write"
    /\ failures' = OneMore(count[s])
    /\ count' = [count EXCEPT ![s] = 0]
    /\ Goto(s, "judge")
    /\ UNCHANGED <<convVars, new, round, bound, shown, memory, history,
                   streak, lost>>

GivesUp_Advances(s) ==
    /\ pc[s] = "judge"
    /\ failures < MaxFailures
    /\ Advance(s)
    /\ UNCHANGED <<shown, storeVars>>

GivesUp_Resets(s) ==
    /\ pc[s] = "judge"
    /\ failures < MaxFailures
    /\ failures' = 0
    /\ bound' = [bound EXCEPT ![s] = 0]
    /\ Ends(s)
    /\ UNCHANGED <<convVars, shown, count, memory, history, streak, lost>>

\* Below the threshold the error goes up to the caller, who gives up.
GivesUp(s) ==
    /\ pc[s] = "judge"
    /\ failures < MaxFailures
    /\ bound' = [bound EXCEPT ![s] = 0]
    /\ Ends(s)
    /\ UNCHANGED <<convVars, shown, count, storeVars>>

\* At the threshold the batch is archived as it is.  An error of the append is
\* logged, and success reported.
RawArchives(s) ==
    /\ pc[s] = "judge"
    /\ failures >= MaxFailures
    /\ failures' = 0 /\ streak' = 0
    /\ \/ AppendHistory(s, TRUE) /\ UNCHANGED lost
       \/ /\ DiskFaults
          /\ lost' = [lost EXCEPT ![s] = @ \cup Batch(s)]
          /\ UNCHANGED history
    /\ Advance(s)
    /\ UNCHANGED <<shown, memory>>

\* /new after a successful archive: Clear.
Clear(s) ==
    /\ pc[s] = "clear"
    /\ cleared' = [cleared EXCEPT ![s] = @ + Len(msgs[s])]
    /\ msgs' = [msgs EXCEPT ![s] = <<>>]
    /\ lc' = [lc EXCEPT ![s] = 0]
    /\ Ends(s)
    /\ UNCHANGED <<wordless, bound, shown, count, storeVars>>

-----------------------------------------------------------------------------
Store(s) ==
    \/ Summarised(s) \/ FillsMemory(s)
    \/ ModelFails(s) \/ CountReads(s) \/ CountWrites(s) \/ GivesUp(s) \/ RawArchives(s)

Next ==
    \E s \in Sessions :
      Record(s) \/ Begin(s) \/ BeginNew(s) \/ Check(s) \/ Store(s) \/ Clear(s)

Spec == Init /\ [][Next]_vars

\* The model answers or fails, and goroutines run; the user repeats /new until
\* it works.
FairSpec ==
    /\ Spec
    /\ \A s \in Sessions :
         WF_vars(Check(s) \/ Store(s) \/ Clear(s)) /\ SF_vars(BeginNew(s))

-----------------------------------------------------------------------------
(* Properties.                                                             *)

\* Messages whose consolidation is past the archive: those before the mark, and the
\* batch whose entry is written while its memory is not.
Passed(s) == cleared[s] + IF pc[s] = "fill" THEN bound[s] ELSE lc[s]

\* HISTORY.md has every message that was consolidated exactly once and in order, over
\* all rounds, failures and /new commands (memory.go:337-346, 356-363): the mark never
\* passes a message that is not archived, and a failed batch is neither skipped nor
\* archived in part.  Only messages without content (memory.go:105) and batches whose
\* raw archive the disk refused (memory.go:252) are missing.
ArchivedOnceInOrder ==
    \A s \in Sessions :
      /\ \A i, j \in DOMAIN history[s] : i < j =>
           \A m \in history[s][i].of, n \in history[s][j].of : m < n
      /\ UNION {history[s][i].of : i \in DOMAIN history[s]}
           = (1..Passed(s)) \ (wordless[s] \cup lost[s])

\* The mark stays inside the session and a batch is never empty, so neither
\* slice (memory.go:337, 356) is out of range.
SlicesInRange ==
    \A s \in Sessions :
      /\ lc[s] <= Len(msgs[s])
      /\ pc[s] \in {"model", "fill", "read", "write", "judge"} =>
           lc[s] < bound[s] /\ bound[s] <= Len(msgs[s])

\* A pass leaves the last message alone, so that a turn is never answered
\* without any history, unless the session has a single message left.
LastMessageStays ==
    \A s \in Sessions :
      pc[s] \in {"model", "fill", "read", "write", "judge"} /\ ~new[s] =>
        bound[s] < Len(msgs[s]) \/ bound[s] = lc[s] + 1

\* Messages are archived raw, without a summary, only after three failures in
\* a row (docs/memory-and-session.md:142).
RawNeedsStreak ==
    \A s \in Sessions :
      pc[s] = "judge" /\ failures = MaxFailures => streak = MaxFailures

\* A /new whose archive fails works in the end, when repeated, even if the
\* model never answers again: the third failure in a row archives raw
\* (memory.go:234-245).
NewWorksInTheEnd ==
    \A s \in Sessions : (new[s] /\ pc[s] = "model") ~> (pc[s] = "clear")

\* A fact is in MEMORY.md only if an entry of HISTORY.md has its message: AppendHistory
\* comes first, and only its success lets the memory be written (memory.go:213-224).
\* So whatever a stale, failed or overtaken write of the memory loses, and every summary
\* that has to be looked up, is still in the history.
FactsHaveHistory ==
    \A f \in memory : \E i \in DOMAIN history[f[1]] : f[2] \in history[f[1]][i].of

\* docs/memory-and-session.md:35: the messages before the mark were summarised and are
\* in MEMORY.md (memory.go:28 tells the model to include all existing facts).
MemoryKeepsFacts ==
    (\A s \in Sessions : pc[s] # "fill") =>
      \A s \in Sessions : \A i \in DOMAIN history[s] :
        ~history[s][i].raw => {s} \X history[s][i].of \subseteq memory

\* memory.go:395-397: the consolidated batch ends just before a user message.
BatchEndsCleanly ==
    \A s \in Sessions :
      (pc[s] = "model" /\ ~new[s] /\ bound[s] < Len(msgs[s])) =>
        msgs[s][bound[s] + 1].role = "user"

\* docs/memory-and-session.md:45: leading messages that are not the user's are
\* dropped.
PromptStartsWithUser ==
    \A s \in Sessions :
      pc[s] = "idle" /\ History(s) # <<>> => History(s)[1].role = "user"

\* docs/memory-and-session.md:147: with the raw archive no history is lost.
\* (The part of ArchivedOnceInOrder that a disk which refuses a write makes false.)
RawArchiveLosesNothing == \A s \in Sessions : lost[s] = {}

=============================================================================
