-------------------------- MODULE PromptGovernance --------------------------
(***************************************************************************)
(* What a turn sends to the model: the history of the session, the         *)
(* question, and the react loop's own messages, put in order by the        *)
(* message modifier of internal/agent/agent.go before every model call.    *)
(* Turns of the session are serial here (ChatTurns has the others); they   *)
(* may break off at any call, and consolidation moves the mark anywhere.   *)
(*                                                                         *)
(* The modifier works on pointers: what it truncates of the history are    *)
(* the session's own messages.  What a turn records are copies.  Content   *)
(* is a size: small, large (over 500 characters), huge                     *)
(* (over max_tool_result_chars as well, 16000 by default).                 *)
(***************************************************************************)
EXTENDS Naturals, Sequences, SequencesExt

CONSTANTS
    Results,      \* results of tools: a set of [compactable, size]
    KeepRecent,   \* large results kept (code: 10)
    MaxCalls,     \* bound on the tool calls of one answer
    MaxMessages   \* bound on the messages of session and turn

\* A tool returns what it has; cut and omitted is what the modifier makes of it.
ASSUME PromptAssumption ==
    /\ Results \subseteq [compactable : BOOLEAN, size : {"small", "large", "huge"}]
    /\ KeepRecent \in Nat /\ MaxCalls \in Nat /\ MaxMessages \in Nat

VARIABLES
    messages,     \* Seq(Message): session.Messages
    lastConsolidated,
    from,         \* where the history of the turn in progress begins
    turn,         \* Seq(Message): the question and what the react loop added
    phase,        \* "idle", "asking", "tools" or "saving"
    prompt,       \* Seq(Message): what the model was called with last
    ids           \* tool call ids given out

promptVars == <<messages, lastConsolidated, from, turn, phase, prompt, ids>>

Msg(role, calls, id, result) ==
    [role |-> role, calls |-> calls, id |-> id,
     compactable |-> result.compactable, size |-> result.size]
Plain == [compactable |-> FALSE, size |-> "small"]
User == Msg("user", <<>>, 0, Plain)
Assistant(calls) == Msg("assistant", calls, 0, Plain)
Unavailable(id) == Msg("tool", <<>>, id, Plain)

PromptTypeOK ==
    /\ lastConsolidated \in 0 .. Len(messages) /\ from \in 1 .. MaxMessages + 1
    /\ phase \in {"idle", "asking", "tools", "saving"}
    /\ \A s \in {messages, turn, prompt} : \A i \in DOMAIN s :
          /\ s[i].role \in {"user", "assistant", "tool"} /\ s[i].id \in 0 .. ids
          /\ s[i].size \in {"small", "large", "huge", "cut", "omitted"}

PromptInit ==
    /\ messages = <<>> /\ turn = <<>> /\ prompt = <<>>
    /\ lastConsolidated = 0 /\ from = 1 /\ ids = 0
    /\ phase = "idle"

-----------------------------------------------------------------------------
(* The modifier                                                             *)

Declared(msgs) == UNION {ToSet(msgs[i].calls) : i \in DOMAIN msgs}
Answered(msgs) == {msgs[i].id : i \in {j \in DOMAIN msgs : msgs[j].role = "tool"}}

\* The elements of s at these positions, in order.
Chosen(s, positions) ==
    FlattenSeq([i \in DOMAIN s |-> IF i \in positions THEN <<s[i]>> ELSE <<>>])

DropOrphanToolResults(msgs) ==
    Chosen(msgs, {i \in DOMAIN msgs : msgs[i].role = "tool" => msgs[i].id \in Declared(msgs)})

BackfillMissingToolResults_AtEnd(msgs) ==
    LET missing == Declared(msgs) \ Answered(msgs)
    IN  msgs \o SetToSeq({Unavailable(id) : id \in missing})

Missing(msgs, m) ==
    Chosen(m.calls, {k \in DOMAIN m.calls : m.calls[k] \notin Answered(msgs)})

BackfillMissingToolResults(msgs) ==
    FlattenSeq([i \in DOMAIN msgs |-> <<msgs[i]>> \o
        [k \in DOMAIN Missing(msgs, msgs[i]) |-> Unavailable(Missing(msgs, msgs[i])[k])]])

Compactable(msgs) == {i \in DOMAIN msgs :
    msgs[i].role = "tool" /\ msgs[i].compactable /\ msgs[i].size \in {"large", "huge", "cut"}}
ToCompact_KeepsOldest(msgs) == {i \in Compactable(msgs) :
    Cardinality({j \in Compactable(msgs) : j < i}) >= KeepRecent}

\* All but the last KeepRecent of the large results of the tools that can be run again.
ToCompact(msgs) == {i \in Compactable(msgs) :
    Cardinality({j \in Compactable(msgs) : j > i}) >= KeepRecent}

\* A long result is cut to the limit, and only when something is compacted.
Truncated(m) == IF m.role = "tool" /\ m.size = "huge" THEN [m EXCEPT !.size = "cut"] ELSE m
Microcompact(msgs) ==
    IF ToCompact(msgs) = {} THEN msgs
    ELSE [i \in DOMAIN msgs |-> IF i \in ToCompact(msgs) THEN [msgs[i] EXCEPT !.size = "omitted"]
                                ELSE Truncated(msgs[i])]

BuildMessageModifier(msgs) ==
    Microcompact(BackfillMissingToolResults(DropOrphanToolResults(msgs)))

\* What that leaves of the session: a message whose pointer is in the prompt is cut too.
CutInPlace(out) == [i \in DOMAIN messages |->
    IF \E k \in DOMAIN out : out[k].id = messages[i].id /\ out[k].size = "cut"
    THEN Truncated(messages[i]) ELSE messages[i]]

-----------------------------------------------------------------------------
(* The turn                                                                 *)

\* GetHistory: from the mark to the end, without what precedes the first question; all of
\* it when there is none.
HistoryStart ==
    LET rest == {i \in DOMAIN messages : i > lastConsolidated}
        users == {i \in rest : messages[i].role = "user"}
    IN  IF users = {} THEN lastConsolidated + 1
        ELSE CHOOSE i \in users : \A j \in users : i <= j

BeginTurn ==
    /\ phase = "idle" /\ Len(messages) + 2 <= MaxMessages
    /\ from' = HistoryStart
    /\ turn' = <<User>>
    /\ phase' = "asking"
    /\ UNCHANGED <<messages, lastConsolidated, prompt, ids>>

Input == SubSeq(messages, from, Len(messages)) \o turn

\* A model call: it answers with text or with tool calls, or fails.
Ask ==
    /\ phase = "asking"
    /\ prompt' = BuildMessageModifier(Input)
    /\ messages' = CutInPlace(prompt')
    /\ \/ turn' = Append(turn, Assistant(<<>>))
          /\ phase' = "saving" /\ UNCHANGED ids
       \/ \E n \in 1 .. MaxCalls :
          /\ Len(messages) + Len(turn) + n + 2 <= MaxMessages
          /\ turn' = Append(turn, Assistant([k \in 1 .. n |-> ids + k]))
          /\ ids' = ids + n
          /\ phase' = "tools"
       \/ phase' = "saving" /\ UNCHANGED <<turn, ids>>
    /\ UNCHANGED <<lastConsolidated, from>>

\* The adapters turn every failure into a result, so each call has one; the turn may be
\* interrupted before all of them are collected.
RunTools ==
    LET calls == Last(turn).calls IN
    /\ phase = "tools"
    /\ \E done \in 0 .. Len(calls) : \E r \in [1 .. done -> Results] :
          /\ turn' = turn \o [k \in 1 .. done |-> Msg("tool", <<>>, calls[k], r[k])]
          /\ phase' \in {"saving"} \cup (IF done = Len(calls) THEN {"asking"} ELSE {})
    /\ UNCHANGED <<messages, lastConsolidated, from, prompt, ids>>

\* The question and the collected messages are recorded; nothing if there are none.
SaveTurn ==
    /\ phase = "saving"
    /\ messages' = IF Len(turn) > 1 THEN messages \o turn ELSE messages
    /\ turn' = <<>> /\ phase' = "idle"
    /\ UNCHANGED <<lastConsolidated, from, prompt, ids>>

Consolidate ==
    /\ phase = "idle"
    /\ \E i \in lastConsolidated + 1 .. Len(messages) : lastConsolidated' = i
    /\ UNCHANGED <<messages, from, turn, phase, prompt, ids>>

PromptNext == BeginTurn \/ Ask \/ RunTools \/ SaveTurn \/ Consolidate
PromptSpec == PromptInit /\ [][PromptNext]_promptVars

-----------------------------------------------------------------------------
(* Properties                                                               *)

\* Every call in the prompt is followed at once by its results, one for each of its calls
\* and nothing else, and there is no other result: whatever turn broke off and wherever
\* consolidation cut the session (agent.go:655-699).
PromptWellFormed ==
    \A i \in DOMAIN prompt :
        LET n == Len(prompt[i].calls)
            results == SubSeq(prompt, i + 1, i + n)
        IN  /\ n > 0 => /\ i + n <= Len(prompt)
                        /\ {results[k].id : k \in 1 .. n} = ToSet(prompt[i].calls)
                        /\ \A k \in 1 .. n : results[k].role = "tool"
            /\ prompt[i].role = "tool" => \E j \in 1 .. i - 1 :
                  prompt[i].id \in ToSet(prompt[j].calls) /\ i <= j + Len(prompt[j].calls)

\* A result that was omitted from one prompt is not in full in a later one, so the part of
\* a prompt before the last results does not change back and forth (agent.go:716-731).
OmittedStaysOmitted ==
    [][\A i \in DOMAIN prompt, k \in DOMAIN prompt' :
          prompt[i].size = "omitted" /\ prompt'[k].id = prompt[i].id
              => prompt'[k].size = "omitted"]_promptVars

\* The session's own messages stay as they were recorded.
RecordStays == [][\A i \in DOMAIN messages : messages'[i] = messages[i]]_promptVars

\* No result in a prompt is longer than max_tool_result_chars.
ResultsAreShort == \A i \in DOMAIN prompt : prompt[i].size # "huge"
=============================================================================
