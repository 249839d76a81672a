----------------------------- MODULE ChatTurns -----------------------------
(***************************************************************************)
(* The turns of one session (Agent.ChatStream and its command handlers,    *)
(* internal/agent/agent.go, with the consolidator of internal/agent/       *)
(* memory.go): the session's worker goroutine takes one message after the  *)
(* other; a chat message starts a turn, whose second half runs in a        *)
(* goroutine of its own and outlives the worker's interest in it when the  *)
(* model's stream breaks.  /new, /stop and a crash of the process can come *)
(* at any point.                                                           *)
(*                                                                         *)
(* A conversation message is the turn it belongs to and its role.  What    *)
(* the model answers, how large messages are and whether a consolidation   *)
(* is due are left open.                                                   *)
(***************************************************************************)
EXTENDS SessionStore

CONSTANTS
    StreamsBreak,   \* whether a stream may end with an error in the middle
    OverBudget,     \* whether a prompt may exceed the token budget
    MaxNews,        \* bound of the model: /new commands
    MaxStops,       \* bound of the model: /stop commands
    MaxCrashes      \* bound of the model: crashes of the process

ASSUME FlagsBool == StreamsBreak \in BOOLEAN /\ OverBudget \in BOOLEAN
ASSUME BoundsNat == {MaxNews, MaxStops, MaxCrashes} \subseteq Nat

VARIABLES
    turn,       \* the last turn the worker began
    retried,    \* ChatStream of this turn is called for the second time
    active,     \* Agent.activeTasks[session]: the turn it cancels, 0 if none
    cancelled,  \* turns whose context was cancelled
    pipe,       \* pipe[t]: "open", or how the worker sees it end:
                \* "error" or "closed"
    lock,       \* MemoryConsolidator.locks[session]: holder, or Nobody
    span,       \* span[th]: where the batch of thread th's consolidation ends
    archived,   \* messages in HISTORY.md / MEMORY.md
    recorded,   \* turns whose messages were added to a session object
    fresh,      \* the last turn before the last /new that succeeded
    stopSent,   \* the user has sent a /stop that is not handled yet
    news, stops, crashes

turnVars == <<turn, retried, active, cancelled, pipe, recorded>>
memVars  == <<lock, span, archived>>
cmdVars  == <<fresh, stopSent, news, stops, crashes>>
vars     == <<storeVars, turnVars, memVars, cmdVars>>

WorkerPcs == {"idle", "fetch", "consolidate", "prompt", "reading",
              "newFetch", "archive", "summary", "clear",
              "saved", "saveFailed"} \cup SavePcs
TurnPcs   == {"none", "stream", "collect", "addInput", "putInput", "addReply",
              "putReply", "saved", "saveFailed", "consolidate", "summary",
              "finish", "over"} \cup SavePcs

TypeOK ==
    /\ heap \in Seq(Session) /\ cache \in 0..Len(heap)
    /\ file \in File
    /\ mu \in Threads \cup {Nobody} /\ lock \in Threads \cup {Nobody}
    /\ obj \in [Threads -> 0..Len(heap)]
    /\ buf \in [Threads -> Seq(Message)]
    /\ DOMAIN pc = Threads /\ pc[Worker] \in WorkerPcs
    /\ \A t \in Turns : pc[t] \in TurnPcs
    /\ turn \in Threads /\ active \in Threads /\ retried \in BOOLEAN
    /\ cancelled \subseteq Turns
    /\ pipe \in [Turns -> {"open", "error", "closed"}]
    /\ span \in [Threads -> Nat]
    /\ archived \subseteq Message
    /\ recorded \subseteq Turns
    /\ fresh \in Threads /\ stopSent \in BOOLEAN
    /\ news \in 0..MaxNews /\ stops \in 0..MaxStops /\ crashes \in 0..MaxCrashes

Init ==
    /\ StoreInit
    /\ pc = [th \in Threads |-> IF th = Worker THEN "idle" ELSE "none"]
    /\ turn = 0 /\ retried = FALSE
    /\ active = 0 /\ cancelled = {}
    /\ pipe = [t \in Turns |-> "open"]
    /\ lock = Nobody
    /\ span = [th \in Threads |-> 0]
    /\ archived = {} /\ recorded = {}
    /\ fresh = 0 /\ stopSent = FALSE
    /\ news = 0 /\ stops = 0 /\ crashes = 0

\* The input of a turn that a subagent announces has the role assistant; here it
\* counts as a user message, which offers a consolidation only more boundaries.
UserMsg(t)  == [turn |-> t, role |-> "user"]
ReplyMsg(t) == [turn |-> t, role |-> "assistant"]

Elems(q) == {q[i] : i \in DOMAIN q}

\* The object thread th works on.
Sess(th) == heap[obj[th]]

-----------------------------------------------------------------------------
(* The worker: the synchronous half of ChatStream.                         *)

BeginTurn_NoStore ==
    /\ At(Worker, "idle")
    /\ turn < MaxTurns
    /\ turn' = turn + 1 /\ retried' = FALSE
    /\ Goto(Worker, "fetch")
    /\ UNCHANGED <<heap, cache, file, mu, obj, buf, active, cancelled, pipe,
                   recorded, memVars, cmdVars>>

\* A chat message: the turn's cancel function is stored.
BeginTurn ==
    /\ At(Worker, "idle")
    /\ turn < MaxTurns
    /\ turn' = turn + 1 /\ retried' = FALSE
    /\ active' = turn + 1
    /\ Goto(Worker, "fetch")
    /\ UNCHANGED <<heap, cache, file, mu, obj, buf, cancelled, pipe,
                   recorded, memVars, cmdVars>>

\* sessions.GetOrCreate.
FetchSession ==
    /\ At(Worker, "fetch")
    /\ Fetch(Worker)
    /\ Goto(Worker, "consolidate")
    /\ UNCHANGED <<turnVars, memVars, cmdVars>>

\* reactAgent.Stream (or the prompt) fails: the entry of activeTasks goes,
\* whoever it is by now, and processMessage reports the error or, once, calls
\* ChatStream again.
StreamFails ==
    /\ At(Worker, "prompt")
    /\ \/ /\ active' = 0
          /\ Goto(Worker, "idle")
          /\ UNCHANGED retried
       \/ /\ ~retried /\ retried' = TRUE
          /\ active' = turn
          /\ Goto(Worker, "fetch")
    /\ UNCHANGED <<heap, cache, file, mu, obj, buf, turn, cancelled, pipe,
                   recorded, memVars, cmdVars>>

\* The stream opens: a goroutine takes the turn over, the worker reads its
\* pipe.
StreamOpens ==
    /\ At(Worker, "prompt")
    /\ pc' = [pc EXCEPT ![Worker] = "reading", ![turn] = "stream"]
    /\ obj' = [obj EXCEPT ![turn] = obj[Worker]]
    /\ UNCHANGED <<heap, cache, file, mu, buf, turnVars, memVars, cmdVars>>

\* The pipe ends; whatever it gave is answered.
ReadEnds ==
    /\ At(Worker, "reading")
    /\ pipe[turn] # "open"
    /\ Goto(Worker, "idle")
    /\ UNCHANGED <<heap, cache, file, mu, obj, buf, turnVars, memVars, cmdVars>>

-----------------------------------------------------------------------------
(* The goroutine of turn t.                                                *)

StreamEnds_ClosesPipe(t) ==
    /\ At(t, "stream")
    /\ Goto(t, "collect")
    /\ pipe' = [pipe EXCEPT ![t] = "closed"]
    /\ UNCHANGED <<heap, cache, file, mu, obj, buf, turn, retried, active,
                   cancelled, recorded, memVars, cmdVars>>

\* End of stream, or any receive error of a cancelled turn.
StreamEnds(t) ==
    /\ At(t, "stream")
    /\ Goto(t, "collect")
    /\ UNCHANGED <<heap, cache, file, mu, obj, buf, turnVars, memVars, cmdVars>>

\* A receive error of a turn that is not cancelled is sent down the pipe: the
\* worker may go on, while the goroutine still has the turn to record.
StreamBreaks(t) ==
    /\ StreamsBreak
    /\ At(t, "stream") /\ t \notin cancelled
    /\ pipe' = [pipe EXCEPT ![t] = "error"]
    /\ Goto(t, "collect")
    /\ UNCHANGED <<heap, cache, file, mu, obj, buf, turn, retried, active,
                   cancelled, recorded, memVars, cmdVars>>

\* Nothing was produced: return.  Otherwise the turn is recorded.
Collect(t) ==
    /\ At(t, "collect")
    /\ \E l \in {"finish", "addInput"} : Goto(t, l)
    /\ UNCHANGED <<heap, cache, file, mu, obj, buf, turnVars, memVars, cmdVars>>

\* AddMessage is s.Messages = append(s.Messages, msg) without a lock: the
\* slice is read in one step and written in another, so of two goroutines
\* that append at once one loses its message.
AddReads(t) ==
    /\ \/ At(t, "addInput") /\ Goto(t, "putInput")
       \/ At(t, "addReply") /\ Goto(t, "putReply")
    /\ buf' = [buf EXCEPT ![t] = Sess(t).msgs]
    /\ UNCHANGED <<heap, cache, file, mu, obj, turnVars, memVars, cmdVars>>

Put(t, m) ==
    /\ heap' = [heap EXCEPT ![obj[t]].msgs = Append(buf[t], m)]
    /\ buf' = [buf EXCEPT ![t] = <<>>]

AddWrites_ReplyFirst(t) ==
    /\ \/ /\ At(t, "putInput") /\ Put(t, ReplyMsg(t)) /\ Goto(t, "addReply")
          /\ UNCHANGED recorded
       \/ /\ At(t, "putReply") /\ Put(t, UserMsg(t)) /\ Goto(t, "save")
          /\ recorded' = recorded \cup {t}
    /\ UNCHANGED <<cache, file, mu, obj, turn, retried, active, cancelled, pipe,
                   memVars, cmdVars>>

AddWrites_NoSave(t) ==
    /\ \/ /\ At(t, "putInput") /\ Put(t, UserMsg(t)) /\ Goto(t, "addReply")
          /\ UNCHANGED recorded
       \/ /\ At(t, "putReply") /\ Put(t, ReplyMsg(t)) /\ Goto(t, "finish")
          /\ recorded' = recorded \cup {t}
    /\ UNCHANGED <<cache, file, mu, obj, turn, retried, active, cancelled,
                   pipe, memVars, cmdVars>>

AddWrites(t) ==
    /\ \/ /\ At(t, "putInput") /\ Put(t, UserMsg(t)) /\ Goto(t, "addReply")
          /\ UNCHANGED recorded
       \/ /\ At(t, "putReply") /\ Put(t, ReplyMsg(t)) /\ Goto(t, "save")
          /\ recorded' = recorded \cup {t}
    /\ UNCHANGED <<cache, file, mu, obj, turn, retried, active, cancelled,
                   pipe, memVars, cmdVars>>

\* A failed Save is logged.
AfterSave(t) ==
    /\ pc[t] \in {"saved", "saveFailed"}
    /\ Goto(t, "consolidate")
    /\ UNCHANGED <<heap, cache, file, mu, obj, buf, turnVars, memVars, cmdVars>>

Finish_KeepsTask(t) ==
    /\ At(t, "finish")
    /\ pipe' = [pipe EXCEPT ![t] = IF @ = "open" THEN "closed" ELSE @]
    /\ obj' = [obj EXCEPT ![t] = 0]
    /\ Goto(t, "over")
    /\ UNCHANGED <<heap, cache, file, mu, buf, turn, retried, active,
                   cancelled, recorded, memVars, cmdVars>>

\* The deferred function: delete the session's entry of activeTasks, whoever
\* it is by now, and close the pipe.
Finish(t) ==
    /\ At(t, "finish")
    /\ active' = 0
    /\ pipe' = [pipe EXCEPT ![t] = IF @ = "open" THEN "closed" ELSE @]
    /\ obj' = [obj EXCEPT ![t] = 0]
    /\ Goto(t, "over")
    /\ UNCHANGED <<heap, cache, file, mu, buf, turn, retried, cancelled,
                   recorded, memVars, cmdVars>>

-----------------------------------------------------------------------------
(* MaybeConsolidateByTokens, called by the worker before the turn and by   *)
(* the turn's goroutine after it.                                          *)

\* What pickConsolidationBoundary and its caller can choose, whatever the
\* sizes of the messages: a user message, the last index, or one message.
Boundaries(s) ==
    LET n     == Len(s.msgs)
        users == {i \in s.lc..(n - 1) : s.msgs[i + 1].role = "user"}
        last  == IF n - 1 > s.lc THEN n - 1 ELSE s.lc + 1
        alone == IF s.lc + 1 < n THEN {s.lc + 1} ELSE {}
    IN  IF s.lc >= n THEN {}
        ELSE (users \ {s.lc}) \cup {last} \cup
             (IF s.lc \in users THEN alone ELSE {})

AfterRounds(th) == IF th = Worker THEN "prompt" ELSE "finish"

\* Nothing (more) to do, or the rounds are used up: unlock.
ConsolidateEnds(th) ==
    /\ At(th, "consolidate") /\ lock \in {Nobody, th}
    /\ lock' = Nobody
    /\ Goto(th, AfterRounds(th))
    /\ UNCHANGED <<heap, cache, file, mu, obj, buf, turnVars, span, archived,
                   cmdVars>>

\* A round: the messages up to a boundary go to the model.
PickBatch(th) ==
    /\ OverBudget
    /\ At(th, "consolidate") /\ lock \in {Nobody, th}
    /\ lock' = th
    /\ \E b \in Boundaries(Sess(th)) :
         /\ span' = [span EXCEPT ![th] = b]
         /\ buf' = [buf EXCEPT ![th] = SubSeq(Sess(th).msgs, Sess(th).lc + 1, b)]
    /\ Goto(th, "summary")
    /\ UNCHANGED <<heap, cache, file, mu, obj, turnVars, archived, cmdVars>>

SummaryFails_KeepsLock(th) ==
    /\ At(th, "summary") /\ lock = th
    /\ buf' = [buf EXCEPT ![th] = <<>>]
    /\ Goto(th, AfterRounds(th))
    /\ UNCHANGED <<heap, cache, file, mu, obj, turnVars, memVars, cmdVars>>

\* The round failed: the error is returned and ignored.
SummaryFails(th) ==
    /\ At(th, "summary") /\ lock = th
    /\ buf' = [buf EXCEPT ![th] = <<>>]
    /\ lock' = Nobody /\ span' = [span EXCEPT ![th] = 0]
    /\ Goto(th, AfterRounds(th))
    /\ UNCHANGED <<heap, cache, file, mu, obj, turnVars, archived, cmdVars>>

\* The batch is archived: summarised, or raw after repeated failures.  The
\* raw archive reports success even when it could not be written.
Archive(th) ==
    /\ \/ archived' = archived \cup Elems(buf[th])
       \/ DiskFaults /\ UNCHANGED archived
    /\ buf' = [buf EXCEPT ![th] = <<>>]

Summarised(th) ==
    /\ At(th, "summary") /\ lock = th
    /\ Archive(th)
    /\ heap' = [heap EXCEPT ![obj[th]].lc = span[th]]
    /\ span' = [span EXCEPT ![th] = 0]
    /\ Goto(th, "consolidate")
    /\ UNCHANGED <<cache, file, mu, obj, turnVars, lock, cmdVars>>

Consolidate(th) ==
    ConsolidateEnds(th) \/ PickBatch(th) \/ SummaryFails(th) \/ Summarised(th)

-----------------------------------------------------------------------------
(* Commands.                                                               *)

\* /new: handleNewSession.
BeginNew ==
    /\ At(Worker, "idle")
    /\ news < MaxNews /\ news' = news + 1
    /\ Goto(Worker, "newFetch")
    /\ UNCHANGED <<heap, cache, file, mu, obj, buf, turnVars, memVars, fresh,
                   stopSent, stops, crashes>>

NewFetches ==
    /\ At(Worker, "newFetch")
    /\ Fetch(Worker)
    /\ Goto(Worker, "archive")
    /\ UNCHANGED <<turnVars, memVars, cmdVars>>

\* ArchiveUnconsolidated takes all that is left of the session, without the
\* consolidator's lock.
NewArchives ==
    /\ At(Worker, "archive")
    /\ Sess(Worker).lc <= Len(Sess(Worker).msgs)
    /\ LET rest == SubSeq(Sess(Worker).msgs, Sess(Worker).lc + 1,
                          Len(Sess(Worker).msgs)) IN
         /\ buf' = [buf EXCEPT ![Worker] = rest]
         /\ Goto(Worker, IF rest = <<>> THEN "clear" ELSE "summary")
    /\ UNCHANGED <<heap, cache, file, mu, obj, turnVars, memVars, cmdVars>>

NewArchiveFails_ClearsAnyway ==
    /\ At(Worker, "summary") /\ lock # Worker
    /\ buf' = [buf EXCEPT ![Worker] = <<>>]
    /\ Goto(Worker, "clear")
    /\ UNCHANGED <<heap, cache, file, mu, obj, turnVars, memVars, cmdVars>>

\* "Memory archival failed, session not cleared."
NewArchiveFails ==
    /\ At(Worker, "summary") /\ lock # Worker
    /\ buf' = [buf EXCEPT ![Worker] = <<>>]
    /\ Goto(Worker, "idle")
    /\ UNCHANGED <<heap, cache, file, mu, obj, turnVars, memVars, cmdVars>>

\* LastConsolidated becomes the length the session has by now.
NewArchived ==
    /\ At(Worker, "summary") /\ lock # Worker
    /\ Archive(Worker)
    /\ heap' = [heap EXCEPT ![obj[Worker]].lc = Len(Sess(Worker).msgs)]
    /\ Goto(Worker, "clear")
    /\ UNCHANGED <<cache, file, mu, obj, turnVars, lock, span, cmdVars>>

NewClears_NoSave ==
    /\ At(Worker, "clear")
    /\ heap' = [heap EXCEPT ![obj[Worker]] = [msgs |-> <<>>, lc |-> 0]]
    /\ Goto(Worker, "saved")
    /\ UNCHANGED <<cache, file, mu, obj, buf, turnVars, memVars, cmdVars>>

NewClears ==
    /\ At(Worker, "clear")
    /\ heap' = [heap EXCEPT ![obj[Worker]] = [msgs |-> <<>>, lc |-> 0]]
    /\ Goto(Worker, "save")
    /\ UNCHANGED <<cache, file, mu, obj, buf, turnVars, memVars, cmdVars>>

\* Saved: Invalidate and confirm.
NewSucceeds ==
    /\ At(Worker, "saved")
    /\ Forget
    /\ fresh' = turn
    /\ Goto(Worker, "idle")
    /\ UNCHANGED <<turnVars, memVars, stopSent, news, stops, crashes>>

NewSaveFails ==
    /\ At(Worker, "saveFailed")
    /\ Goto(Worker, "idle")
    /\ UNCHANGED <<heap, cache, file, mu, obj, buf, turnVars, memVars, cmdVars>>

\* The user sends /stop; it waits in the session's queue.
SendStop ==
    /\ ~stopSent
    /\ stops < MaxStops /\ stops' = stops + 1
    /\ stopSent' = TRUE
    /\ UNCHANGED <<storeVars, turnVars, memVars, fresh, news, crashes>>

\* handleStop: cancel whatever activeTasks has.
HandleStop ==
    /\ At(Worker, "idle") /\ stopSent
    /\ stopSent' = FALSE
    /\ active' = 0
    /\ cancelled' = cancelled \cup ({active} \ {0})
    /\ UNCHANGED <<storeVars, turn, retried, pipe, recorded, memVars, fresh,
                   news, stops, crashes>>

-----------------------------------------------------------------------------
\* The process dies and starts again; MEMORY.md and HISTORY.md stay.  The
\* out-of-range slice of ArchiveUnconsolidated is one way to die: no goroutine
\* recovers a panic.
Restart ==
    /\ crashes < MaxCrashes /\ crashes' = crashes + 1
    /\ StoreCrash
    /\ pc' = [th \in Threads |-> IF th = Worker THEN "idle"
                                 ELSE IF pc[th] = "none" THEN "none" ELSE "over"]
    /\ active' = 0 /\ retried' = FALSE
    /\ lock' = Nobody
    /\ span' = [th \in Threads |-> 0]
    /\ stopSent' = FALSE
    /\ UNCHANGED <<turn, cancelled, pipe, archived, recorded, fresh, news, stops>>

SaveStep(th) == Save(th) /\ UNCHANGED <<turnVars, memVars, cmdVars>>

\* What the model's service decides.
ServiceStep(t) == StreamEnds(t) \/ StreamBreaks(t)

TurnStep(t) ==
    \/ Collect(t) \/ AddReads(t) \/ AddWrites(t)
    \/ SaveStep(t) \/ AfterSave(t) \/ Consolidate(t) \/ Finish(t)

WorkerStep ==
    \/ FetchSession \/ Consolidate(Worker) \/ StreamFails \/ StreamOpens
    \/ ReadEnds
    \/ NewFetches \/ NewArchives \/ NewArchiveFails \/ NewArchived
    \/ NewClears \/ SaveStep(Worker) \/ NewSucceeds \/ NewSaveFails

Next ==
    \/ BeginTurn \/ BeginNew \/ SendStop \/ HandleStop
    \/ WorkerStep
    \/ \E t \in Turns : ServiceStep(t) \/ TurnStep(t)
    \/ Restart

Spec == Init /\ [][Next]_vars

\* The Go scheduler runs the goroutines; the model answers, or fails.  Nothing
\* makes the user send anything, and nothing makes the process die.
Fairness ==
    /\ WF_vars(WorkerStep)
    /\ \A t \in Turns : WF_vars(ServiceStep(t)) /\ WF_vars(TurnStep(t))

FairSpec == Spec /\ Fairness

\* The same with a model that may never answer.
SlowModelSpec ==
    /\ Spec
    /\ WF_vars(WorkerStep) /\ WF_vars(HandleStop)
    /\ \A t \in Turns : WF_vars(TurnStep(t))

-----------------------------------------------------------------------------
(* Safety.                                                                 *)

MsgsOf(t) == {UserMsg(t), ReplyMsg(t)}

\* Turns recorded in the session whose reply the user has in full.
Answered == {t \in recorded : pipe[t] = "closed"}

Running(t) == pc[t] \notin {"none", "over"}

\* What was recorded is never forgotten: the session that the next turn gets
\* has it, or the archive has (agent.go:355-359 and 463-473).  In particular
\* /new clears nothing that is not archived (memory.go:352-354).
ConversationKept ==
    \A t \in recorded : MsgsOf(t) \subseteq Elems(Current.msgs) \cup archived

\* A reply is complete only after its turn is on disk, or archived: once the
\* file is not being written (mu is free) it holds every answered turn that
\* was not archived (agent.go:380-384 runs after 444).
AnswersOnDisk ==
    mu = Nobody =>
      \A t \in Answered : MsgsOf(t) \subseteq Elems(file.msgs) \cup archived

\* The turns of a session are serial: one goroutine at a time, and none while
\* the worker is between messages or runs a command.
OneTurnAtATime ==
    \A t \in Turns : Running(t) => turn = t /\ At(Worker, "reading")

\* The entry of activeTasks cancels the turn that is streaming, so /stop and
\* CancelAll can reach it.
StreamingTurnIsListed ==
    \A t \in Turns : At(t, "stream") /\ t \notin cancelled => active = t

\* LastConsolidated is a valid index and everything before it was archived
\* (manager.go:24): no message falls between history and archive, and the
\* slice of ArchiveUnconsolidated is in range.
ArchivedPrefix ==
    /\ Current.lc <= Len(Current.msgs)
    /\ \A i \in 1..Current.lc : Current.msgs[i] \in archived

\* After a /new that succeeded no earlier message is ever part of the
\* conversation again, not even after a crash.
ClearedStaysCleared ==
    \A m \in Elems(Current.msgs) : m.turn > fresh

\* Whatever breaks, fails or overlaps, no message is twice in the file.
NoDuplicateLines ==
    \A i, j \in DOMAIN file.msgs : file.msgs[i] = file.msgs[j] => i = j

\* Whatever breaks, fails or overlaps, activeTasks never lists a turn that is
\* over: /stop reports a stopped task only if there was one.
ListedTurnRuns ==
    active # 0 =>
      \/ Running(active)
      \/ active = turn /\ pc[Worker] \in {"fetch", "consolidate", "summary", "prompt"}

\* Every turn ends and the worker comes back for the next message: neither the
\* manager's mutex nor the consolidator's lock is left behind.
TurnsEnd ==
    \A t \in Turns : turn = t ~> (pc[t] \in {"none", "over"} /\
                                   (turn = t => At(Worker, "idle")))

-----------------------------------------------------------------------------
(* Refinement: to its user a session is one conversation.                  *)

Dialogue == INSTANCE Conversation WITH
    log    <- Current.msgs,
    mark   <- Current.lc,
    memory <- archived

\* While no stream breaks, no write fails and the process lives, everything
\* that the goroutines, the cached objects, Save, Invalidate and the
\* consolidator do to a session is one of the four steps of a conversation, or
\* invisible: a turn is added as its question and directly after it the answer
\* (agent.go:430-442), in the order of turns, a consolidation moves the mark
\* over just what it archived (memory.go), and /new clears only what is archived
\* to the end.
ImplementsConversation == Dialogue!Spec

-----------------------------------------------------------------------------
(* What comments and documentation say and the code does not do.           *)

\* manager.go:126: Save is atomic (tmp write + rename).  So the file holds
\* every answered turn at all times, also while the next Save runs.
SaveIsAtomic ==
    \A t \in Answered : MsgsOf(t) \subseteq Elems(file.msgs) \cup archived

\* memory.go:297: sessions are saved after consolidation.
ConsolidationIsSaved ==
    At(Worker, "idle") /\ cache # 0 => file.lc = heap[cache].lc

\* docs/agent-core.md:107: /stop cancels the active task of the session.
StopCancels ==
    \A t \in Turns :
      (stopSent /\ At(t, "stream")) ~> (t \in cancelled \/ ~At(t, "stream"))

=============================================================================
