---------------------------- MODULE ChatTurnsKept ----------------------------
(***************************************************************************)
(* Proofs about ChatTurns: no message is written twice, nothing that was   *)
(* said is lost, the mark of a session covers archived messages only,      *)
(* answers are on disk, and a session is one conversation (Conversation).  *)
(***************************************************************************)
EXTENDS ChatTurnsProofs

-----------------------------------------------------------------------------
(* No message is written twice.                                            *)

\* No message is twice in q.
Distinct(q) == \A i, j \in DOMAIN q : q[i] = q[j] => i = j

\* Message m is in an object, in a slice somebody read, or in the file.
Stored(m) ==
    \/ \E o \in 1 .. Len(heap) : m \in Elems(heap[o].msgs)
    \/ \E th \in Threads : m \in Elems(buf[th])
    \/ m \in Elems(file.msgs)

\* The places before a turn adds its user message, and before it adds its reply.
BeforeInput == {"none", "stream", "collect", "addInput", "putInput"}
BeforeReply == BeforeInput \cup {"addReply", "putReply"}

\* No turn goes back to before its input or its reply.
NeverBack == \A u \in Turns :
    /\ pc'[u] \in BeforeInput => pc[u] \in BeforeInput
    /\ pc'[u] \in BeforeReply => pc[u] \in BeforeReply

\* What a turn has still to add is nowhere yet.
Unwritten == \A t \in Turns :
    /\ pc[t] \in BeforeInput => ~Stored(UserMsg(t))
    /\ pc[t] \in BeforeReply => ~Stored(ReplyMsg(t))

\* No message is twice in an object, in a slice or in the file.
Singles ==
    /\ \A o \in 1 .. Len(heap) : Distinct(heap[o].msgs)
    /\ \A th \in Threads : Distinct(buf[th])
    /\ Distinct(file.msgs)

\* What Save has still to write is not in the file yet.
Halves == \A th \in Threads :
    /\ pc[th] \in {"meta", "range"} => file.msgs = <<>>
    /\ pc[th] = "lines" => \A m \in Elems(buf[th]) : m \notin Elems(file.msgs)

SingleInv == Unwritten /\ Singles /\ Halves

\* The elements of a sequence after Append, Tail and SubSeq.
LEMMA ElemFacts ==
    ASSUME NEW q \in Seq(Message)
    PROVE  /\ \A m \in Message : Elems(Append(q, m)) = Elems(q) \cup {m}
           /\ q # <<>> => /\ Elems(Tail(q)) \subseteq Elems(q) /\ Head(q) \in Elems(q)
                          /\ Head(q) \in Message /\ Tail(q) \in Seq(Message)
           /\ \A i, j \in Nat : j <= Len(q) => Elems(SubSeq(q, i + 1, j)) \subseteq Elems(q)
<1>1. ASSUME NEW m \in Message PROVE Elems(Append(q, m)) = Elems(q) \cup {m}
  <2> DEFINE p == Append(q, m)
  <2>1. /\ DOMAIN q = 1 .. Len(q) /\ DOMAIN p = 1 .. Len(q) + 1 /\ Len(q) \in Nat
        /\ p[Len(q) + 1] = m /\ \A i \in 1 .. Len(q) : p[i] = q[i]
    OBVIOUS
  <2> HIDE DEF p
  <2>2. \A x \in Elems(p) : x \in Elems(q) \cup {m}
    BY <2>1 DEF Elems
  <2>3. \A x \in Elems(q) : x \in Elems(p)
    BY <2>1 DEF Elems
  <2>4. m \in Elems(p)
    BY <2>1 DEF Elems
  <2>5. Elems(p) = Elems(q) \cup {m}
    BY <2>2, <2>3, <2>4
  <2> QED BY <2>5 DEF p
<1>2. ASSUME q # <<>>
      PROVE  /\ Elems(Tail(q)) \subseteq Elems(q) /\ Head(q) \in Elems(q)
             /\ Head(q) \in Message /\ Tail(q) \in Seq(Message)
  BY <1>2 DEF Elems
<1>3. ASSUME NEW i \in Nat, NEW j \in Nat, j <= Len(q)
      PROVE  Elems(SubSeq(q, i + 1, j)) \subseteq Elems(q)
  BY <1>3 DEF Elems
<1> QED BY <1>1, <1>2, <1>3

\* Append, Tail and SubSeq keep the elements distinct.
LEMMA DistinctFacts ==
    ASSUME NEW q \in Seq(Message), Distinct(q)
    PROVE  /\ \A m \in Message : m \notin Elems(q) => Distinct(Append(q, m))
           /\ q # <<>> => Distinct(Tail(q)) /\ Head(q) \notin Elems(Tail(q))
           /\ \A i, j \in Nat : j <= Len(q) => Distinct(SubSeq(q, i + 1, j))
<1>1. ASSUME NEW m \in Message, m \notin Elems(q) PROVE Distinct(Append(q, m))
  BY <1>1 DEF Distinct, Elems
<1>2. ASSUME q # <<>> PROVE Distinct(Tail(q)) /\ Head(q) \notin Elems(Tail(q))
  BY <1>2 DEF Distinct, Elems
<1>3. ASSUME NEW i \in Nat, NEW j \in Nat, j <= Len(q) PROVE Distinct(SubSeq(q, i + 1, j))
  BY <1>3, SliceType DEF Distinct
<1> QED BY <1>1, <1>2, <1>3

\* The empty sequence has no elements.
LEMMA NoElems == Elems(<<>>) = {} /\ Distinct(<<>>)
  BY DEF Elems, Distinct

\* Only AddMessage stores a message that was not stored ...
LEMMA NextStored ==
    ASSUME TypeOK, Places, NEW m, \A t \in Turns : ~AddWrites(t), [Next]_vars
    PROVE  Stored(m)' => Stored(m)
<1>0. PlaceTypes /\ StoreTypes /\ Places
  BY TypeParts
<1> USE <1>0, ThreadFacts, NoElems DEF PlaceTypes, PcTypes, TurnTypes, StoreTypes, Goto, At,
    turnVars, memVars, cmdVars, storeVars, Stored
<1>1. CASE UserStep
  BY <1>1 DEF UserStep, BeginTurn, BeginNew, SendStop, HandleStop
<1>2. CASE StreamStep
  <2>1. CASE StreamOpens
    <3>1. UNCHANGED <<heap, buf, file>>
      BY <2>1 DEF StreamOpens
    <3> QED BY <3>1
  <2>2. CASE StreamFails
    BY <2>2 DEF StreamFails
  <2>3. CASE ReadEnds
    BY <2>3 DEF ReadEnds
  <2> QED BY <1>2, <2>1, <2>2, <2>3 DEF StreamStep
<1>3. CASE FetchStep
  <2>1. Fetch(Worker)
    BY <1>3 DEF FetchStep, FetchSession, NewFetches
  <2>2. Len(heap) \in Nat /\ (m \in Elems(Loaded(file).msgs) => m \in Elems(file.msgs))
    BY DEF Loaded
  <2>3. ASSUME NEW o \in 1 .. Len(heap'), m \in Elems(heap'[o].msgs) PROVE Stored(m)
    BY <2>1, <2>2, <2>3, FetchFacts, SMTT(40)
  <2>4. UNCHANGED <<buf, file>>
    BY <2>1 DEF Fetch
  <2> QED BY <2>3, <2>4
<1>4. CASE NewStep
  <2>1. CASE NewArchives
    <3>1. obj[Worker] \in 1 .. Len(heap) /\ Sess(Worker) = heap[obj[Worker]]
          /\ Sess(Worker).msgs \in Seq(Message) /\ Sess(Worker).lc \in Nat
      BY <2>1, SessType DEF NewArchives
    <3> DEFINE q == SubSeq(Sess(Worker).msgs, Sess(Worker).lc + 1, Len(Sess(Worker).msgs))
    <3>0. Len(Sess(Worker).msgs) \in Nat /\ Len(Sess(Worker).msgs) <= Len(Sess(Worker).msgs)
      BY <3>1
    <3>2. Elems(q) \subseteq Elems(heap[obj[Worker]].msgs)
      BY <3>0, <3>1, ElemFacts
    <3>3. buf' = [buf EXCEPT ![Worker] = q] /\ UNCHANGED <<heap, file>>
      BY <2>1 DEF NewArchives
    <3> HIDE DEF q
    <3> QED BY <3>1, <3>2, <3>3
  <2>2. CASE NewArchiveFails
    BY <2>2 DEF NewArchiveFails
  <2>3. CASE NewArchived
    <3>1. MarkMoves(Worker, Len(Sess(Worker).msgs))
      BY <2>3, NewArchivedFacts
    <3>2. buf' = [buf EXCEPT ![Worker] = <<>>] /\ UNCHANGED file
      BY <2>3 DEF NewArchived, Archive
    <3> QED BY <3>1, <3>2 DEF MarkMoves
  <2>4. CASE NewClears
    <3>1. /\ Len(heap') = Len(heap) /\ heap'[obj[Worker]].msgs = <<>>
          /\ \A i \in 1 .. Len(heap) : i # obj[Worker] => heap'[i] = heap[i]
      BY <2>4, NewClearsFacts
    <3>2. UNCHANGED <<buf, file>>
      BY <2>4 DEF NewClears
    <3> QED BY <3>1, <3>2
  <2>5. CASE NewSucceeds
    <3>1. UNCHANGED <<heap, buf, file>>
      BY <2>5 DEF NewSucceeds, Forget
    <3> QED BY <3>1
  <2>6. CASE NewSaveFails
    BY <2>6 DEF NewSaveFails
  <2> QED BY <1>4, <2>1, <2>2, <2>3, <2>4, <2>5, <2>6 DEF NewStep
<1>5. ASSUME NEW t \in Turns, GoStep(t) PROVE Stored(m)' => Stored(m)
  <2>1. CASE StreamEnds(t)
    BY <2>1 DEF StreamEnds
  <2>2. CASE StreamBreaks(t)
    BY <2>2 DEF StreamBreaks
  <2>3. CASE Collect(t)
    BY <2>3 DEF Collect
  <2>4. CASE AddReads(t)
    <3>1. obj[t] \in 1 .. Len(heap) /\ Sess(t) = heap[obj[t]]
      BY <2>4, SessType DEF AddReads
    <3>2. buf' = [buf EXCEPT ![t] = heap[obj[t]].msgs] /\ UNCHANGED <<heap, file>>
      BY <2>4, <3>1 DEF AddReads
    <3> QED BY <3>1, <3>2
  <2>5. CASE AddWrites(t)
    BY <2>5
  <2>6. CASE AfterSave(t)
    BY <2>6 DEF AfterSave
  <2>7. CASE Finish(t)
    BY <2>7 DEF Finish
  <2> QED BY <1>5, <2>1, <2>2, <2>3, <2>4, <2>5, <2>6, <2>7 DEF GoStep
<1>6. ASSUME NEW th \in Threads, SaveStep(th) PROVE Stored(m)' => Stored(m)
  <2>1. CASE SaveOpens(th)
    BY <2>1 DEF SaveOpens, NoFile
  <2>2. CASE SaveMeta(th)
    <3>1. file'.msgs = <<>> /\ UNCHANGED <<heap, buf>>
      BY <2>2 DEF SaveMeta
    <3> QED BY <3>1
  <2>3. CASE SaveRange(th)
    <3>1. obj[th] \in 1 .. Len(heap)
      BY <2>3, SessType DEF SaveRange
    <3>2. buf' = [buf EXCEPT ![th] = heap[obj[th]].msgs] /\ UNCHANGED <<heap, file>>
      BY <2>3 DEF SaveRange
    <3> QED BY <3>1, <3>2
  <2>4. CASE SaveLine(th)
    <3>1. file.msgs \in Seq(Message) /\ buf[th] # <<>> /\ buf[th] \in Seq(Message)
      BY <2>4 DEF SaveLine, File
    <3>2. Head(buf[th]) \in Message /\ Head(buf[th]) \in Elems(buf[th])
          /\ Elems(Tail(buf[th])) \subseteq Elems(buf[th])
      BY <3>1, ElemFacts
    <3>3. Elems(file'.msgs) = Elems(file.msgs) \cup {Head(buf[th])}
      BY <2>4, <3>1, <3>2, FileLine, ElemFacts, SMTT(30) DEF SaveLine
    <3>4. buf' = [buf EXCEPT ![th] = Tail(buf[th])] /\ UNCHANGED heap
      BY <2>4 DEF SaveLine
    <3> QED BY <3>2, <3>3, <3>4
  <2>5. CASE SaveDone(th)
    BY <2>5 DEF SaveDone
  <2>6. CASE SaveFails(th)
    BY <2>6 DEF SaveFails
  <2> QED BY <1>6, <2>1, <2>2, <2>3, <2>4, <2>5, <2>6 DEF SaveStep, Save
<1>7. ASSUME NEW th \in Threads, Consolidate(th) PROVE Stored(m)' => Stored(m)
  <2>1. CASE ConsolidateEnds(th)
    BY <2>1 DEF ConsolidateEnds, AfterRounds
  <2>2. CASE PickBatch(th)
    <3>1. obj[th] \in 1 .. Len(heap) /\ Sess(th) = heap[obj[th]]
          /\ Sess(th).msgs \in Seq(Message) /\ Sess(th).lc \in Nat
      BY <2>2, SessType DEF PickBatch
    <3>2. PICK b \in Nat : /\ b <= Len(Sess(th).msgs)
                           /\ buf' = [buf EXCEPT ![th] = SubSeq(Sess(th).msgs, Sess(th).lc + 1, b)]
      BY <2>2, BatchFacts
    <3> DEFINE q == SubSeq(Sess(th).msgs, Sess(th).lc + 1, b)
    <3>3. Elems(q) \subseteq Elems(heap[obj[th]].msgs)
      BY <3>1, <3>2, ElemFacts
    <3>4. buf' = [buf EXCEPT ![th] = q] /\ UNCHANGED <<heap, file>>
      BY <2>2, <3>2 DEF PickBatch
    <3> HIDE DEF q
    <3> QED BY <3>1, <3>3, <3>4
  <2>3. CASE SummaryFails(th)
    BY <2>3 DEF SummaryFails, AfterRounds
  <2>4. CASE Summarised(th)
    <3>1. MarkMoves(th, span[th])
      BY <2>4, SummarisedFacts
    <3>2. buf' = [buf EXCEPT ![th] = <<>>] /\ UNCHANGED file
      BY <2>4 DEF Summarised, Archive
    <3> QED BY <3>1, <3>2 DEF MarkMoves
  <2> QED BY <1>7, <2>1, <2>2, <2>3, <2>4 DEF Consolidate
<1>8. CASE Restart
  <2>1. heap' = <<>> /\ buf' = [th \in Threads |-> <<>>] /\ UNCHANGED file
    BY <1>8 DEF Restart, StoreCrash
  <2> QED BY <2>1
<1>9. CASE UNCHANGED vars
  BY <1>9 DEF vars
<1> QED BY <1>1, <1>2, <1>3, <1>4, <1>5, <1>6, <1>7, <1>8, <1>9, Steps

\* ... and it stores the turn's own.
LEMMA WriteStored ==
    ASSUME TypeOK, Places, NEW t \in Turns, AddWrites(t), NEW m, Stored(m)'
    PROVE  Stored(m) \/ m = IF pc[t] = "putInput" THEN UserMsg(t) ELSE ReplyMsg(t)
<1> DEFINE n == IF pc[t] = "putInput" THEN UserMsg(t) ELSE ReplyMsg(t)
<1>1. /\ n \in Message /\ Len(heap') = Len(heap) /\ heap'[obj[t]].msgs = Append(buf[t], n)
      /\ \A i \in 1 .. Len(heap) : i # obj[t] => heap'[i] = heap[i]
      /\ buf' = [buf EXCEPT ![t] = <<>>] /\ buf[t] \in Seq(Message) /\ file' = file
  BY WriteFacts
<1> HIDE DEF n
<1>2. Elems(heap'[obj[t]].msgs) = Elems(buf[t]) \cup {n}
  BY <1>1, ElemFacts
<1>3. buf \in [Threads -> Seq(Message)] /\ t \in Threads
  BY TypeParts, ThreadFacts DEF StoreTypes
<1>4. Stored(m) \/ m = n
  BY <1>1, <1>2, <1>3, NoElems DEF Stored
<1> QED BY <1>4 DEF n

\* No step takes a turn back.
LEMMA NextNeverBack ==
    ASSUME TypeOK, Places, [Next]_vars
    PROVE  NeverBack
<1>0. PlaceTypes /\ StoreTypes /\ Places
  BY TypeParts
<1> USE <1>0, ThreadFacts DEF PlaceTypes, PcTypes, Goto, At, turnVars, memVars, cmdVars,
    storeVars, SavePcs, BeforeInput, BeforeReply, NeverBack
<1>1. CASE UserStep
  BY <1>1 DEF UserStep, BeginTurn, BeginNew, SendStop, HandleStop
<1>2. CASE StreamStep
  <2>1. CASE StreamOpens
    BY <2>1, OpensFacts
  <2>2. CASE StreamFails
    BY <2>2 DEF StreamFails
  <2>3. CASE ReadEnds
    BY <2>3 DEF ReadEnds
  <2> QED BY <1>2, <2>1, <2>2, <2>3 DEF StreamStep
<1>3. CASE FetchStep
  BY <1>3 DEF FetchStep, FetchSession, NewFetches, Fetch
<1>4. CASE NewStep
  BY <1>4 DEF NewStep, NewArchives, NewArchiveFails, NewArchived, NewClears, NewSucceeds,
     NewSaveFails, Forget, Archive
<1>5. ASSUME NEW t \in Turns, GoStep(t) PROVE NeverBack
  BY <1>5 DEF GoStep, StreamEnds, StreamBreaks, Collect, AddReads, AddWrites, Put,
     AfterSave, Finish
<1>6. ASSUME NEW th \in Threads, SaveStep(th) PROVE NeverBack
  BY <1>6 DEF SaveStep, Save, SaveOpens, SaveMeta, SaveRange, SaveLine, SaveDone, SaveFails
<1>7. ASSUME NEW th \in Threads, Consolidate(th) PROVE NeverBack
  <2>1. CASE ConsolidateEnds(th)
    BY <2>1 DEF ConsolidateEnds, AfterRounds
  <2>2. CASE PickBatch(th)
    BY <2>2, BatchFacts DEF PickBatch
  <2>3. CASE SummaryFails(th)
    BY <2>3 DEF SummaryFails, AfterRounds
  <2>4. CASE Summarised(th)
    BY <2>4, SummarisedFacts DEF Summarised, Archive, MarkMoves
  <2> QED BY <1>7, <2>1, <2>2, <2>3, <2>4 DEF Consolidate
<1>8. CASE Restart
  BY <1>8 DEF Restart, StoreCrash
<1>9. CASE UNCHANGED vars
  BY <1>9 DEF vars
<1> QED BY <1>1, <1>2, <1>3, <1>4, <1>5, <1>6, <1>7, <1>8, <1>9, Steps

\* Every step keeps the parts of SingleInv: Unwritten,
LEMMA NextUnwritten ==
    ASSUME TypeOK, Places, Unwritten, [Next]_vars
    PROVE  Unwritten'
<1> SUFFICES ASSUME NEW u \in Turns
             PROVE  /\ pc'[u] \in BeforeInput => ~Stored(UserMsg(u))'
                    /\ pc'[u] \in BeforeReply => ~Stored(ReplyMsg(u))'
  BY DEF Unwritten
<1>1. NeverBack
  BY NextNeverBack
<1>2. CASE \E t \in Turns : AddWrites(t)
  <2>1. PICK t \in Turns : AddWrites(t)
    BY <1>2
  <2>2. pc[t] \in {"putInput", "putReply"}
        /\ pc' = [pc EXCEPT ![t] = IF pc[t] = "putInput" THEN "addReply" ELSE "save"]
    BY <2>1, WriteFacts
  <2>3. DOMAIN pc = Threads /\ t \in Threads
    BY TypeParts, ThreadFacts DEF PlaceTypes, PcTypes
  <2>4. UserMsg(u) # ReplyMsg(t) /\ ReplyMsg(u) # UserMsg(t)
        /\ (u # t => UserMsg(u) # UserMsg(t) /\ ReplyMsg(u) # ReplyMsg(t))
    BY DEF UserMsg, ReplyMsg
  <2>5. pc'[u] \in BeforeInput => u # t /\ ~Stored(UserMsg(u))
    BY <1>1, <2>2, <2>3 DEF NeverBack, Unwritten, BeforeInput
  <2>6. pc'[u] \in BeforeReply => ~Stored(ReplyMsg(u)) /\ (u # t \/ pc[t] = "putInput")
    BY <1>1, <2>2, <2>3 DEF NeverBack, Unwritten, BeforeInput, BeforeReply
  <2> QED BY <2>1, <2>2, <2>4, <2>5, <2>6, WriteStored
<1>3. CASE \A t \in Turns : ~AddWrites(t)
  BY <1>1, <1>3, NextStored DEF NeverBack, Unwritten
<1> QED BY <1>2, <1>3

\* ... Singles,
LEMMA NextSingles ==
    ASSUME TypeOK, Places, SingleInv, [Next]_vars
    PROVE  Singles'
<1>0. PlaceTypes /\ StoreTypes /\ Places /\ Unwritten /\ Singles /\ Halves
  BY TypeParts DEF SingleInv
<1> USE <1>0, ThreadFacts, NoElems DEF PlaceTypes, PcTypes, TurnTypes, StoreTypes, Goto, At,
    turnVars, memVars, cmdVars, storeVars, Singles
<1>1. CASE UserStep
  BY <1>1 DEF UserStep, BeginTurn, BeginNew, SendStop, HandleStop
<1>2. CASE StreamStep
  <2>1. CASE StreamOpens
    <3>1. UNCHANGED <<heap, buf, file>>
      BY <2>1 DEF StreamOpens
    <3> QED BY <3>1
  <2>2. CASE StreamFails
    BY <2>2 DEF StreamFails
  <2>3. CASE ReadEnds
    BY <2>3 DEF ReadEnds
  <2> QED BY <1>2, <2>1, <2>2, <2>3 DEF StreamStep
<1>3. CASE FetchStep
  <2>1. Fetch(Worker)
    BY <1>3 DEF FetchStep, FetchSession, NewFetches
  <2>2. Len(heap) \in Nat /\ Distinct(Loaded(file).msgs)
    BY DEF Loaded
  <2>3. ASSUME NEW o \in 1 .. Len(heap') PROVE Distinct(heap'[o].msgs)
    <3>1. \/ o \in 1 .. Len(heap) /\ heap'[o] = heap[o]
          \/ heap'[o] = Loaded(file)
      BY <2>1, <2>2, FetchFacts, SMTT(30)
    <3> QED BY <2>2, <3>1
  <2>4. UNCHANGED <<buf, file>>
    BY <2>1 DEF Fetch
  <2> QED BY <2>3, <2>4
<1>4. CASE NewStep
  <2>1. CASE NewArchives
    <3>1. obj[Worker] \in 1 .. Len(heap) /\ Sess(Worker) = heap[obj[Worker]]
          /\ Sess(Worker).msgs \in Seq(Message) /\ Sess(Worker).lc \in Nat
      BY <2>1, SessType DEF NewArchives
    <3> DEFINE q == SubSeq(Sess(Worker).msgs, Sess(Worker).lc + 1, Len(Sess(Worker).msgs))
    <3>2. Len(Sess(Worker).msgs) \in Nat /\ Len(Sess(Worker).msgs) <= Len(Sess(Worker).msgs)
      BY <3>1
    <3>3. Distinct(q)
      BY <3>1, <3>2, DistinctFacts
    <3>4. buf' = [buf EXCEPT ![Worker] = q] /\ UNCHANGED <<heap, file>>
      BY <2>1 DEF NewArchives
    <3> HIDE DEF q
    <3> QED BY <3>1, <3>3, <3>4
  <2>2. CASE NewArchiveFails
    BY <2>2 DEF NewArchiveFails
  <2>3. CASE NewArchived
    <3>1. MarkMoves(Worker, Len(Sess(Worker).msgs))
      BY <2>3, NewArchivedFacts
    <3>2. buf' = [buf EXCEPT ![Worker] = <<>>] /\ UNCHANGED file
      BY <2>3 DEF NewArchived, Archive
    <3> QED BY <3>1, <3>2 DEF MarkMoves
  <2>4. CASE NewClears
    <3>1. /\ Len(heap') = Len(heap) /\ heap'[obj[Worker]].msgs = <<>>
          /\ \A i \in 1 .. Len(heap) : i # obj[Worker] => heap'[i] = heap[i]
      BY <2>4, NewClearsFacts
    <3>2. UNCHANGED <<buf, file>>
      BY <2>4 DEF NewClears
    <3> QED BY <3>1, <3>2
  <2>5. CASE NewSucceeds
    <3>1. UNCHANGED <<heap, buf, file>>
      BY <2>5 DEF NewSucceeds, Forget
    <3> QED BY <3>1
  <2>6. CASE NewSaveFails
    BY <2>6 DEF NewSaveFails
  <2> QED BY <1>4, <2>1, <2>2, <2>3, <2>4, <2>5, <2>6 DEF NewStep
<1>5. ASSUME NEW t \in Turns, GoStep(t) PROVE Singles'
  <2>1. CASE StreamEnds(t)
    BY <2>1 DEF StreamEnds
  <2>2. CASE StreamBreaks(t)
    BY <2>2 DEF StreamBreaks
  <2>3. CASE Collect(t)
    BY <2>3 DEF Collect
  <2>4. CASE AddReads(t)
    <3>1. obj[t] \in 1 .. Len(heap) /\ Sess(t) = heap[obj[t]]
      BY <2>4, SessType DEF AddReads
    <3>2. buf' = [buf EXCEPT ![t] = heap[obj[t]].msgs] /\ UNCHANGED <<heap, file>>
      BY <2>4, <3>1 DEF AddReads
    <3> QED BY <3>1, <3>2
  <2>5. CASE AddWrites(t)
    <3> DEFINE m == IF pc[t] = "putInput" THEN UserMsg(t) ELSE ReplyMsg(t)
    <3>1. /\ m \in Message /\ Len(heap') = Len(heap) /\ heap'[obj[t]].msgs = Append(buf[t], m)
          /\ \A i \in 1 .. Len(heap) : i # obj[t] => heap'[i] = heap[i]
          /\ buf' = [buf EXCEPT ![t] = <<>>] /\ buf[t] \in Seq(Message) /\ file' = file
          /\ pc[t] \in {"putInput", "putReply"}
      BY <2>5, WriteFacts
    <3>2. ~Stored(m)
      BY <3>1 DEF Unwritten, BeforeInput, BeforeReply
    <3> HIDE DEF m
    <3>3. Distinct(Append(buf[t], m))
      BY <3>1, <3>2, DistinctFacts DEF Stored
    <3> QED BY <3>1, <3>3
  <2>6. CASE AfterSave(t)
    BY <2>6 DEF AfterSave
  <2>7. CASE Finish(t)
    BY <2>7 DEF Finish
  <2> QED BY <1>5, <2>1, <2>2, <2>3, <2>4, <2>5, <2>6, <2>7 DEF GoStep
<1>6. ASSUME NEW th \in Threads, SaveStep(th) PROVE Singles'
  <2>1. CASE SaveOpens(th)
    BY <2>1 DEF SaveOpens, NoFile
  <2>2. CASE SaveMeta(th)
    <3>1. file'.msgs = <<>> /\ UNCHANGED <<heap, buf>>
      BY <2>2 DEF SaveMeta
    <3> QED BY <3>1
  <2>3. CASE SaveRange(th)
    <3>1. obj[th] \in 1 .. Len(heap)
      BY <2>3, SessType DEF SaveRange
    <3>2. buf' = [buf EXCEPT ![th] = heap[obj[th]].msgs] /\ UNCHANGED <<heap, file>>
      BY <2>3 DEF SaveRange
    <3> QED BY <3>1, <3>2
  <2>4. CASE SaveLine(th)
    <3>1. file.msgs \in Seq(Message) /\ buf[th] # <<>> /\ buf[th] \in Seq(Message)
      BY <2>4 DEF SaveLine, File
    <3>2. Head(buf[th]) \in Message /\ Distinct(Tail(buf[th])) /\ Head(buf[th]) \notin Elems(file.msgs)
      BY <2>4, <3>1, ElemFacts, DistinctFacts DEF SaveLine, Halves
    <3>3. Distinct(file'.msgs)
      BY <2>4, <3>1, <3>2, FileLine, DistinctFacts, SMTT(30) DEF SaveLine
    <3>4. buf' = [buf EXCEPT ![th] = Tail(buf[th])] /\ UNCHANGED heap
      BY <2>4 DEF SaveLine
    <3> QED BY <3>2, <3>3, <3>4
  <2>5. CASE SaveDone(th)
    BY <2>5 DEF SaveDone
  <2>6. CASE SaveFails(th)
    BY <2>6 DEF SaveFails
  <2> QED BY <1>6, <2>1, <2>2, <2>3, <2>4, <2>5, <2>6 DEF SaveStep, Save
<1>7. ASSUME NEW th \in Threads, Consolidate(th) PROVE Singles'
  <2>1. CASE ConsolidateEnds(th)
    BY <2>1 DEF ConsolidateEnds, AfterRounds
  <2>2. CASE PickBatch(th)
    <3>1. obj[th] \in 1 .. Len(heap) /\ Sess(th) = heap[obj[th]]
          /\ Sess(th).msgs \in Seq(Message) /\ Sess(th).lc \in Nat
      BY <2>2, SessType DEF PickBatch
    <3>2. PICK b \in Nat : /\ b <= Len(Sess(th).msgs)
                           /\ buf' = [buf EXCEPT ![th] = SubSeq(Sess(th).msgs, Sess(th).lc + 1, b)]
      BY <2>2, BatchFacts
    <3> DEFINE q == SubSeq(Sess(th).msgs, Sess(th).lc + 1, b)
    <3>3. Distinct(q)
      BY <3>1, <3>2, DistinctFacts
    <3>4. buf' = [buf EXCEPT ![th] = q] /\ UNCHANGED <<heap, file>>
      BY <2>2, <3>2 DEF PickBatch
    <3> HIDE DEF q
    <3> QED BY <3>1, <3>3, <3>4
  <2>3. CASE SummaryFails(th)
    BY <2>3 DEF SummaryFails, AfterRounds
  <2>4. CASE Summarised(th)
    <3>1. MarkMoves(th, span[th])
      BY <2>4, SummarisedFacts
    <3>2. buf' = [buf EXCEPT ![th] = <<>>] /\ UNCHANGED file
      BY <2>4 DEF Summarised, Archive
    <3> QED BY <3>1, <3>2 DEF MarkMoves
  <2> QED BY <1>7, <2>1, <2>2, <2>3, <2>4 DEF Consolidate
<1>8. CASE Restart
  <2>1. heap' = <<>> /\ buf' = [th \in Threads |-> <<>>] /\ UNCHANGED file
    BY <1>8 DEF Restart, StoreCrash
  <2> QED BY <2>1
<1>9. CASE UNCHANGED vars
  BY <1>9 DEF vars
<1> QED BY <1>1, <1>2, <1>3, <1>4, <1>5, <1>6, <1>7, <1>8, <1>9, Steps

\* ... and Halves.
LEMMA NextHalves ==
    ASSUME TypeOK, Places, SingleInv, [Next]_vars
    PROVE  Halves'
<1>0. PlaceTypes /\ StoreTypes /\ Places /\ Halves /\ Singles
  BY TypeParts DEF SingleInv
<1> USE <1>0, ThreadFacts DEF PlaceTypes, PcTypes, TurnTypes, StoreTypes, Goto, At,
    turnVars, memVars, cmdVars, storeVars, Halves, Places, MuOK, SavePcs
<1>1. CASE UserStep
  BY <1>1, ZenonT(60) DEF UserStep, BeginTurn, BeginNew, SendStop, HandleStop
<1>2. CASE StreamStep
  <2>1. CASE StreamOpens
    BY <2>1, OpensFacts
  <2>2. CASE StreamFails
    BY <2>2, SMTT(40) DEF StreamFails
  <2>3. CASE ReadEnds
    BY <2>3 DEF ReadEnds
  <2> QED BY <1>2, <2>1, <2>2, <2>3 DEF StreamStep
<1>3. CASE FetchStep
  BY <1>3, ZenonT(60) DEF FetchStep, FetchSession, NewFetches, Fetch
<1>4. CASE NewStep
  <2>1. CASE NewArchives
    BY <2>1 DEF NewArchives
  <2>2. CASE NewArchiveFails
    BY <2>2 DEF NewArchiveFails
  <2>3. CASE NewArchived
    BY <2>3 DEF NewArchived, Archive
  <2>4. CASE NewClears
    BY <2>4 DEF NewClears
  <2>5. CASE NewSucceeds
    BY <2>5 DEF NewSucceeds, Forget
  <2>6. CASE NewSaveFails
    BY <2>6 DEF NewSaveFails
  <2> QED BY <1>4, <2>1, <2>2, <2>3, <2>4, <2>5, <2>6 DEF NewStep
<1>5. ASSUME NEW t \in Turns, GoStep(t) PROVE Halves'
  <2>1. CASE StreamEnds(t)
    BY <2>1 DEF StreamEnds
  <2>2. CASE StreamBreaks(t)
    BY <2>2 DEF StreamBreaks
  <2>3. CASE Collect(t)
    BY <2>3 DEF Collect
  <2>4. CASE AddReads(t)
    BY <2>4, SMTT(30) DEF AddReads
  <2>5. CASE AddWrites(t)
    BY <2>5 DEF AddWrites, Put
  <2>6. CASE AfterSave(t)
    BY <2>6 DEF AfterSave
  <2>7. CASE Finish(t)
    BY <2>7 DEF Finish
  <2> QED BY <1>5, <2>1, <2>2, <2>3, <2>4, <2>5, <2>6, <2>7 DEF GoStep
<1>6. ASSUME NEW th \in Threads, SaveStep(th) PROVE Halves'
  <2>1. CASE SaveOpens(th)
    <3>1. mu = Nobody /\ file'.msgs = <<>> /\ UNCHANGED buf /\ pc' = [pc EXCEPT ![th] = "meta"]
      BY <2>1 DEF SaveOpens, NoFile
    <3> QED BY <3>1
  <2>2. CASE SaveMeta(th)
    <3>1. mu = th /\ file'.msgs = <<>> /\ UNCHANGED buf /\ pc' = [pc EXCEPT ![th] = "range"]
      BY <2>2 DEF SaveMeta
    <3> QED BY <3>1
  <2>3. CASE SaveRange(th)
    <3>1. mu = th /\ file.msgs = <<>> /\ file' = file /\ pc' = [pc EXCEPT ![th] = "lines"]
      BY <2>3 DEF SaveRange
    <3> QED BY <3>1, NoElems
  <2>4. CASE SaveLine(th)
    <3>1. file.msgs \in Seq(Message) /\ buf[th] # <<>> /\ buf[th] \in Seq(Message) /\ pc[th] = "lines"
      BY <2>4 DEF SaveLine, File
    <3>2. /\ Head(buf[th]) \in Message /\ Elems(Tail(buf[th])) \subseteq Elems(buf[th])
          /\ Head(buf[th]) \notin Elems(Tail(buf[th]))
      BY <3>1, ElemFacts, DistinctFacts DEF Singles
    <3>3. Elems(file'.msgs) = Elems(file.msgs) \cup {Head(buf[th])}
      BY <2>4, <3>1, <3>2, FileLine, ElemFacts, SMTT(30) DEF SaveLine
    <3>4. \A m \in Elems(Tail(buf[th])) : m \notin Elems(file'.msgs)
      BY <3>1, <3>2, <3>3
    <3>5. mu = th /\ buf' = [buf EXCEPT ![th] = Tail(buf[th])] /\ pc' = pc
      BY <2>4 DEF SaveLine
    <3> QED BY <3>1, <3>4, <3>5
  <2>5. CASE SaveDone(th)
    BY <2>5 DEF SaveDone
  <2>6. CASE SaveFails(th)
    BY <2>6 DEF SaveFails
  <2> QED BY <1>6, <2>1, <2>2, <2>3, <2>4, <2>5, <2>6 DEF SaveStep, Save
<1>7. ASSUME NEW th \in Threads, Consolidate(th) PROVE Halves'
  <2>1. CASE ConsolidateEnds(th)
    BY <2>1 DEF ConsolidateEnds, AfterRounds
  <2>2. CASE PickBatch(th)
    BY <2>2 DEF PickBatch
  <2>3. CASE SummaryFails(th)
    BY <2>3 DEF SummaryFails, AfterRounds
  <2>4. CASE Summarised(th)
    BY <2>4 DEF Summarised, Archive
  <2> QED BY <1>7, <2>1, <2>2, <2>3, <2>4 DEF Consolidate
<1>8. CASE Restart
  BY <1>8 DEF Restart, StoreCrash
<1>9. CASE UNCHANGED vars
  BY <1>9 DEF vars
<1> QED BY <1>1, <1>2, <1>3, <1>4, <1>5, <1>6, <1>7, <1>8, <1>9, Steps

\* SingleInv holds always.
LEMMA SingleInvariant == Spec => []SingleInv
<1>1. Init => SingleInv
  BY ThreadFacts, NoElems DEF Init, StoreInit, NoFile, SingleInv, Unwritten, Singles,
     Halves, Stored
<1>2. TypeOK /\ Places /\ SingleInv /\ [Next]_vars => SingleInv'
  <2> SUFFICES ASSUME TypeOK, Places, SingleInv, [Next]_vars PROVE SingleInv'
    OBVIOUS
  <2>1. Unwritten'
    BY NextUnwritten DEF SingleInv
  <2> QED BY <2>1, NextSingles, NextHalves DEF SingleInv
<1> QED BY <1>1, <1>2, PlacesInvariant, PTL DEF Spec

\* Whatever breaks, fails or overlaps, Save never writes a message twice, although it
\* ranges over a slice that other goroutines append to (manager.go:129-163).
THEOREM NoMessageTwice == Spec => []NoDuplicateLines
<1>1. SingleInv => NoDuplicateLines
  BY DEF SingleInv, Singles, Distinct, NoDuplicateLines
<1> QED BY <1>1, SingleInvariant, PTL

-----------------------------------------------------------------------------
(* What was said is kept.                                                  *)

\* A session that is not cached has nothing on disk: only /new forgets one.
NothingForgotten == cache = 0 => file.msgs = <<>> /\ file.lc = 0

\* What waits for its summary is what is not archived yet.
Pending ==
    /\ \A th \in Threads : pc[th] = "summary" /\ lock = th =>
          /\ span[th] <= Len(Current.msgs)
          /\ buf[th] = SubSeq(Current.msgs, Current.lc + 1, span[th])
    /\ pc[Worker] = "summary" /\ lock # Worker =>
          buf[Worker] = SubSeq(Current.msgs, Current.lc + 1, Len(Current.msgs))
    /\ pc[Worker] = "clear" => Current.lc = Len(Current.msgs)

\* The slice a turn read is still the session's when it writes.
Adding == \A t \in Turns :
    /\ pc[t] \in {"putInput", "putReply"} => buf[t] = Current.msgs
    /\ pc[t] \in {"addReply", "putReply"} => UserMsg(t) \in Elems(Current.msgs)

\* What Save has written and has still to write is the session.
Writing == \A th \in Threads : pc[th] = "lines" => file.msgs \o buf[th] = Current.msgs

OnDisk ==
    mu = Nobody => \A t \in recorded :
        pc[t] = "save" \/ MsgsOf(t) \subseteq Elems(file.msgs) \cup archived

KeptInv ==
    /\ NothingForgotten /\ ArchivedPrefix /\ ConversationKept
    /\ Pending /\ Adding /\ Writing /\ OnDisk

\* Writing a line moves the head of the rest to the end of the file.
LEMMA ConcatFacts ==
    ASSUME NEW p \in Seq(Message), NEW q \in Seq(Message)
    PROVE  /\ <<>> \o q = q /\ p \o <<>> = p
           /\ q # <<>> => Append(p, Head(q)) \o Tail(q) = p \o q
<1>1. <<>> \o q = q
  OBVIOUS
<1>2. p \o <<>> = p
  OBVIOUS
<1>3. ASSUME q # <<>> PROVE Append(p, Head(q)) \o Tail(q) = p \o q
  BY <1>3
<1> QED BY <1>1, <1>2, <1>3

\* An empty rest means that the mark is at the end.
LEMMA NothingLeft ==
    ASSUME NEW q \in Seq(Message), NEW i \in Nat, i <= Len(q),
           SubSeq(q, i + 1, Len(q)) = <<>>
    PROVE  i = Len(q)
<1> DEFINE n == Len(q)
<1>1. n \in Nat /\ n <= Len(q) /\ i <= n /\ SubSeq(q, i + 1, n) = <<>>
  OBVIOUS
<1> HIDE DEF n
<1>2. Len(SubSeq(q, i + 1, n)) = IF i < n THEN n - i ELSE 0
  BY <1>1, SliceType
<1>3. Len(SubSeq(q, i + 1, n)) = 0
  BY <1>1
<1>4. i = n
  BY <1>1, <1>2, <1>3
<1> QED BY <1>4 DEF n

\* The current session is a session.
LEMMA CurrentType ==
    ASSUME TypeOK
    PROVE  Current \in Session /\ Current.msgs \in Seq(Message) /\ Current.lc \in Nat
<1>1. StoreTypes /\ Loaded(file) \in Session
  BY TypeParts, LoadedType DEF StoreTypes
<1>2. Current \in Session
  BY <1>1 DEF StoreTypes, Current
<1> QED BY <1>2 DEF Session

\* A thread at work works on the current session.
LEMMA OnCurrent ==
    ASSUME TypeOK, Places, Cached, NEW th \in Threads, Working(th)
    PROVE  /\ cache # 0 /\ cache \in 1 .. Len(heap) /\ obj[th] = cache
           /\ Sess(th) = Current /\ Current = heap[cache] /\ heap \in Seq(Session)
<1>1. StoreTypes
  BY TypeParts
<1>2. obj[th] = cache /\ cache # 0
  BY DEF Cached, Working, Places, ObjOK
<1> QED BY <1>1, <1>2 DEF StoreTypes, Sess, Current

\* AddMessage appends to the current session.
LEMMA WriteCurrent ==
    ASSUME TypeOK, Places, Cached, Adding, NEW t \in Turns, AddWrites(t)
    PROVE  \E m \in Message :
             /\ m = IF pc[t] = "putInput" THEN UserMsg(t) ELSE ReplyMsg(t)
             /\ Current'.msgs = Append(Current.msgs, m) /\ Current'.lc = Current.lc
             /\ Elems(Current'.msgs) = Elems(Current.msgs) \cup {m}
<1> DEFINE m == IF pc[t] = "putInput" THEN UserMsg(t) ELSE ReplyMsg(t)
<1>1. /\ m \in Message /\ pc[t] \in {"putInput", "putReply"}
      /\ heap'[obj[t]].msgs = Append(buf[t], m) /\ heap'[obj[t]].lc = heap[obj[t]].lc
      /\ cache' = cache
  BY WriteFacts
<1>2. cache # 0 /\ obj[t] = cache /\ Current = heap[cache] /\ Current.msgs \in Seq(Message)
  BY <1>1, OnCurrent, CurrentType, ThreadFacts DEF Working
<1>3. buf[t] = Current.msgs
  BY <1>1 DEF Adding
<1> HIDE DEF m
<1>4. Current' = heap'[cache]
  BY <1>1, <1>2 DEF Current
<1>5. Current'.msgs = Append(Current.msgs, m) /\ Current'.lc = Current.lc
  BY <1>1, <1>2, <1>3, <1>4
<1>6. Elems(Current'.msgs) = Elems(Current.msgs) \cup {m}
  BY <1>1, <1>2, <1>5, ElemFacts
<1>7. \E x \in Message : x = m /\ Current'.msgs = Append(Current.msgs, x) /\ Current'.lc = Current.lc
                         /\ Elems(Current'.msgs) = Elems(Current.msgs) \cup {x}
  BY <1>1, <1>5, <1>6
<1> QED BY <1>7 DEF m

\* Moving the mark of a working thread moves that of the current session.
LEMMA MarkCurrent ==
    ASSUME TypeOK, Places, Cached, NEW th \in Threads, Working(th), NEW n, MarkMoves(th, n),
           cache' = cache
    PROVE  Current'.msgs = Current.msgs /\ Current'.lc = n
<1>1. cache # 0 /\ obj[th] = cache /\ Current = heap[cache]
  BY OnCurrent
<1>2. Current' = heap'[cache]
  BY <1>1 DEF Current
<1> QED BY <1>1, <1>2 DEF MarkMoves

\* Clear empties the current session.
LEMMA ClearCurrent ==
    ASSUME TypeOK, Places, Cached, NewClears
    PROVE  Current'.msgs = <<>> /\ Current'.lc = 0
<1>1. cache # 0 /\ obj[Worker] = cache /\ cache' = cache
  BY OnCurrent, ThreadFacts DEF NewClears, At, Working
<1>2. Current' = heap'[cache] /\ heap'[cache] = [msgs |-> <<>>, lc |-> 0]
  BY <1>1, NewClearsFacts DEF Current
<1> QED BY <1>2

\* The current session is a function of heap, cache and file.
LEMMA SameStore ==
    ASSUME UNCHANGED <<heap, cache, file>>
    PROVE  Current' = Current
  BY DEF Current

\* While one thread is at work the others rest.
LEMMA OthersRest ==
    ASSUME TypeOK, OneRuns, NEW th \in Threads, pc[th] \notin {"none", "over", "reading"}
    PROVE  \A u \in Threads \ {th} : pc[u] \in {"reading", "none", "over"}
  BY ThreadFacts DEF OneRuns, Running

\* While a turn runs, the worker reads its pipe and no other turn runs.
LEMMA RunningRest ==
    ASSUME OneRuns, NEW t \in Turns, Running(t)
    PROVE  pc[Worker] = "reading" /\ \A u \in Turns \ {t} : pc[u] \in {"none", "over"}
  BY DEF OneRuns, Running

\* No crash when none is allowed.
LEMMA NoCrash ==
    ASSUME TypeOK, MaxCrashes = 0
    PROVE  ~Restart
<1>1. crashes \in 0 .. MaxCrashes
  BY TypeParts DEF PlaceTypes, BoundTypes
<1> QED BY <1>1 DEF Restart

\* The steps that change the session's content.
Changes ==
    \/ \E t \in Turns : AddWrites(t)
    \/ \E th \in Threads : Summarised(th)
    \/ NewArchived \/ NewClears

\* What every step keeps.
Grows ==
    /\ archived \subseteq archived'
    /\ recorded' = recorded \/ \E u \in Turns : AddWrites(u)

\* No other step changes it: neither GetOrCreate, nor Save, nor Invalidate after a /new.
LEMMA NextCurrent ==
    ASSUME TypeOK, Places, SerialInv, FreshInv, SingleInv, KeptInv,
           ~DiskFaults, MaxCrashes = 0, ~Changes, [Next]_vars
    PROVE  Current' = Current
<1>0. /\ PlaceTypes /\ StoreTypes /\ Places /\ OneRuns /\ ~Restart
      /\ Cached /\ Clearing /\ KeptInv
  BY TypeParts, NoCrash DEF SerialInv, FreshInv
<1> USE <1>0, ThreadFacts DEF PlaceTypes, PcTypes, TurnTypes, StoreTypes, Goto, At,
    turnVars, memVars, cmdVars, storeVars, Working, SavePcs
<1>1. CASE UserStep
  <2>1. UNCHANGED <<heap, cache, file>>
    BY <1>1 DEF UserStep, BeginTurn, BeginNew, SendStop, HandleStop
  <2> QED BY <2>1 DEF Current
<1>2. CASE StreamStep
  <2>1. UNCHANGED <<heap, cache, file>>
    BY <1>2 DEF StreamStep, StreamOpens, StreamFails, ReadEnds
  <2> QED BY <2>1 DEF Current
<1>3. CASE FetchStep
  <2>1. Fetch(Worker)
    BY <1>3 DEF FetchStep, FetchSession, NewFetches
  <2>2. Current' = heap'[cache']
    BY <2>1, FetchFacts DEF Current
  <2> QED BY <2>1, <2>2, FetchFacts DEF Current
<1>4. CASE NewStep
  <2>1. CASE NewArchives
    <3>1. UNCHANGED <<heap, cache, file>>
      BY <2>1 DEF NewArchives
    <3> QED BY <3>1 DEF Current
  <2>2. CASE NewArchiveFails
    <3>1. UNCHANGED <<heap, cache, file>>
      BY <2>2 DEF NewArchiveFails
    <3> QED BY <3>1 DEF Current
  <2>3. CASE NewArchived
    BY <2>3 DEF Changes
  <2>4. CASE NewClears
    BY <2>4 DEF Changes
  <2>5. CASE NewSucceeds
    <3>1. cache # 0 /\ Current = heap[cache]
      BY <2>5, OnCurrent DEF NewSucceeds
    <3>2. Current.msgs = <<>> /\ Current.lc = 0 /\ Current \in Session
      BY <2>5, <3>1, CurrentType DEF NewSucceeds, Clearing
    <3>3. Current = [msgs |-> <<>>, lc |-> 0]
      BY <3>2 DEF Session
    <3>4. Loaded(file) = [msgs |-> <<>>, lc |-> 0]
      BY <2>5 DEF NewSucceeds, Clearing, Loaded
    <3>5. Current' = Loaded(file)
      BY <2>5 DEF NewSucceeds, Forget, Current, Loaded
    <3> QED BY <3>3, <3>4, <3>5
  <2>6. CASE NewSaveFails
    <3>1. UNCHANGED <<heap, cache, file>>
      BY <2>6 DEF NewSaveFails
    <3> QED BY <3>1 DEF Current
  <2> QED BY <1>4, <2>1, <2>2, <2>3, <2>4, <2>5, <2>6 DEF NewStep
<1>5. ASSUME NEW t \in Turns, GoStep(t) PROVE Current' = Current
  <2>1. CASE StreamEnds(t)
    <3>1. UNCHANGED <<heap, cache, file>>
      BY <2>1 DEF StreamEnds
    <3> QED BY <3>1 DEF Current
  <2>2. CASE StreamBreaks(t)
    <3>1. UNCHANGED <<heap, cache, file>>
      BY <2>2 DEF StreamBreaks
    <3> QED BY <3>1 DEF Current
  <2>3. CASE Collect(t)
    <3>1. UNCHANGED <<heap, cache, file>>
      BY <2>3 DEF Collect
    <3> QED BY <3>1 DEF Current
  <2>4. CASE AddReads(t)
    <3>1. UNCHANGED <<heap, cache, file>>
      BY <2>4 DEF AddReads
    <3> QED BY <3>1 DEF Current
  <2>5. CASE AddWrites(t)
    BY <2>5 DEF Changes
  <2>6. CASE AfterSave(t)
    <3>1. UNCHANGED <<heap, cache, file>>
      BY <2>6 DEF AfterSave
    <3> QED BY <3>1 DEF Current
  <2>7. CASE Finish(t)
    <3>1. UNCHANGED <<heap, cache, file>>
      BY <2>7 DEF Finish
    <3> QED BY <3>1 DEF Current
  <2> QED BY <1>5, <2>1, <2>2, <2>3, <2>4, <2>5, <2>6, <2>7 DEF GoStep
<1>6. ASSUME NEW th \in Threads, SaveStep(th) PROVE Current' = Current
  <2>1. CASE SaveOpens(th)
    <3>1. cache # 0
      BY <2>1, OnCurrent DEF SaveOpens
    <3>2. UNCHANGED <<heap, cache>>
      BY <2>1 DEF SaveOpens
    <3> QED BY <3>1, <3>2 DEF Current
  <2>2. CASE SaveMeta(th)
    <3>1. cache # 0
      BY <2>2, OnCurrent DEF SaveMeta
    <3>2. UNCHANGED <<heap, cache>>
      BY <2>2 DEF SaveMeta
    <3> QED BY <3>1, <3>2 DEF Current
  <2>3. CASE SaveRange(th)
    <3>1. cache # 0
      BY <2>3, OnCurrent DEF SaveRange
    <3>2. UNCHANGED <<heap, cache>>
      BY <2>3 DEF SaveRange
    <3> QED BY <3>1, <3>2 DEF Current
  <2>4. CASE SaveLine(th)
    <3>1. cache # 0
      BY <2>4, OnCurrent DEF SaveLine
    <3>2. UNCHANGED <<heap, cache>>
      BY <2>4 DEF SaveLine
    <3> QED BY <3>1, <3>2 DEF Current
  <2>5. CASE SaveDone(th)
    <3>1. cache # 0 /\ obj[th] = cache
      BY <2>5, OnCurrent DEF SaveDone
    <3>2. UNCHANGED <<heap, cache>>
      BY <2>5, <3>1 DEF SaveDone
    <3> QED BY <3>1, <3>2 DEF Current
  <2>6. CASE SaveFails(th)
    BY <2>6 DEF SaveFails
  <2> QED BY <1>6, <2>1, <2>2, <2>3, <2>4, <2>5, <2>6 DEF SaveStep, Save
<1>7. ASSUME NEW th \in Threads, Consolidate(th) PROVE Current' = Current
  <2>1. CASE ConsolidateEnds(th)
    <3>1. UNCHANGED <<heap, cache, file>>
      BY <2>1 DEF ConsolidateEnds
    <3> QED BY <3>1 DEF Current
  <2>2. CASE PickBatch(th)
    <3>1. UNCHANGED <<heap, cache, file>>
      BY <2>2 DEF PickBatch
    <3> QED BY <3>1 DEF Current
  <2>3. CASE SummaryFails(th)
    <3>1. UNCHANGED <<heap, cache, file>>
      BY <2>3 DEF SummaryFails
    <3> QED BY <3>1 DEF Current
  <2>4. CASE Summarised(th)
    BY <2>4 DEF Changes
  <2> QED BY <1>7, <2>1, <2>2, <2>3, <2>4 DEF Consolidate
<1>8. CASE Restart
  BY <1>8
<1>9. CASE UNCHANGED vars
  BY <1>9 DEF vars, Current
<1> QED BY <1>1, <1>2, <1>3, <1>4, <1>5, <1>6, <1>7, <1>8, <1>9, Steps

\* The archive only grows; only AddMessage records a turn.
LEMMA NextGrows ==
    ASSUME TypeOK, [Next]_vars
    PROVE  Grows
<1> USE ThreadFacts DEF turnVars, memVars, cmdVars, Grows
<1>1. CASE UserStep
  BY <1>1 DEF UserStep, BeginTurn, BeginNew, SendStop, HandleStop
<1>2. CASE StreamStep
  BY <1>2 DEF StreamStep, StreamFails, StreamOpens, ReadEnds
<1>3. CASE FetchStep
  BY <1>3 DEF FetchStep, FetchSession, NewFetches, Fetch
<1>4. CASE NewStep
  BY <1>4 DEF NewStep, NewArchives, NewArchiveFails, NewArchived, NewClears, NewSucceeds,
     NewSaveFails, Forget, Archive
<1>5. ASSUME NEW t \in Turns, GoStep(t) PROVE Grows
  BY <1>5 DEF GoStep, StreamEnds, StreamBreaks, Collect, AddReads, AddWrites, Put,
     AfterSave, Finish
<1>6. ASSUME NEW th \in Threads, SaveStep(th) PROVE Grows
  BY <1>6 DEF SaveStep, Save, SaveOpens, SaveMeta, SaveRange, SaveLine, SaveDone, SaveFails
<1>7. ASSUME NEW th \in Threads, Consolidate(th) PROVE Grows
  BY <1>7 DEF Consolidate, ConsolidateEnds, PickBatch, SummaryFails, Summarised,
     AfterRounds, Archive
<1>8. CASE Restart
  BY <1>8 DEF Restart, StoreCrash
<1>9. CASE UNCHANGED vars
  BY <1>9 DEF vars
<1> QED BY <1>1, <1>2, <1>3, <1>4, <1>5, <1>6, <1>7, <1>8, <1>9, Steps

\* Every step keeps the parts of KeptInv: Pending,
LEMMA NextPending ==
    ASSUME TypeOK, Places, SerialInv, FreshInv, SingleInv, KeptInv,
           ~DiskFaults, MaxCrashes = 0, [Next]_vars
    PROVE  Pending'
<1>0. /\ PlaceTypes /\ StoreTypes /\ Places /\ OneRuns /\ ~Restart
      /\ Cached /\ Clearing /\ KeptInv
  BY TypeParts, NoCrash DEF SerialInv, FreshInv
<1>go. ASSUME NEW t \in Turns, GoStep(t)
       PROVE  /\ Running(t) /\ pc'[Worker] = pc[Worker] /\ pc'[t] # "summary"
              /\ \A u \in Turns \ {t} : pc'[u] = pc[u]
  BY <1>go, GoMoves, ThreadFacts
<1> USE <1>0, ThreadFacts DEF PlaceTypes, PcTypes, TurnTypes, StoreTypes, Goto, At,
    turnVars, memVars, cmdVars, storeVars, SavePcs, KeptInv, Pending, OneRuns, Running,
    Places, LockOK
<1>1. CASE UserStep
  <2>1. Current' = Current
    BY <1>1, SameStore DEF UserStep, BeginTurn, BeginNew, SendStop, HandleStop
  <2> QED BY <1>1, <2>1 DEF UserStep, BeginTurn, BeginNew, SendStop, HandleStop
<1>2. CASE StreamStep
  <2>1. pc[Worker] \in {"prompt", "reading"} /\ pc'[Worker] \in {"idle", "fetch", "reading"}
        /\ \A u \in Turns : pc'[u] # "summary"
    <3>1. CASE StreamOpens
      BY <3>1, OpensFacts
    <3>2. CASE StreamFails \/ ReadEnds
      BY <3>2 DEF StreamFails, ReadEnds
    <3> QED BY <1>2, <3>1, <3>2 DEF StreamStep
  <2> QED BY <2>1
<1>3. CASE FetchStep
  <2>1. pc'[Worker] \in {"consolidate", "archive"} /\ \A u \in Turns : pc'[u] # "summary"
    BY <1>3 DEF FetchStep, FetchSession, NewFetches
  <2> QED BY <2>1
<1>4. CASE NewStep
  <2>1. CASE NewArchives
    <3> DEFINE q == SubSeq(Current.msgs, Current.lc + 1, Len(Current.msgs))
    <3>1. Sess(Worker) = Current
      BY <2>1, OnCurrent DEF NewArchives, Working
    <3>2. Current' = Current
      BY <2>1, SameStore DEF NewArchives
    <3>3. /\ Current.lc <= Len(Current.msgs) /\ buf' = [buf EXCEPT ![Worker] = q]
          /\ pc' = [pc EXCEPT ![Worker] = IF q = <<>> THEN "clear" ELSE "summary"] /\ lock' = lock
      BY <2>1, <3>1 DEF NewArchives
    <3>4. q = <<>> => Current.lc = Len(Current.msgs)
      BY <3>3, CurrentType, NothingLeft
    <3>5. pc[Worker] = "archive" /\ lock # Worker /\ \A u \in Turns : pc[u] \in {"none", "over"}
      BY <2>1 DEF NewArchives
    <3> HIDE DEF q
    <3>6. pc'[Worker] = "summary" => buf'[Worker] = q
      BY <3>3
    <3> QED BY <3>2, <3>3, <3>4, <3>5, <3>6 DEF q
  <2>2. CASE NewArchiveFails
    <3>1. pc'[Worker] = "idle" /\ \A u \in Turns : pc'[u] # "summary"
      BY <2>2 DEF NewArchiveFails
    <3> QED BY <3>1
  <2>3. CASE NewArchived
    <3>1. pc'[Worker] = "clear" /\ \A u \in Turns : pc'[u] # "summary"
      BY <2>3 DEF NewArchived
    <3>2. Current'.msgs = Current.msgs /\ Current'.lc = Len(Current.msgs)
      BY <2>3, MarkCurrent, NewArchivedFacts, OnCurrent DEF NewArchived, Working
    <3> QED BY <3>1, <3>2
  <2>4. CASE NewClears
    <3>1. pc'[Worker] = "save" /\ \A u \in Turns : pc'[u] # "summary"
      BY <2>4 DEF NewClears
    <3> QED BY <3>1
  <2>5. CASE NewSucceeds
    <3>1. pc'[Worker] = "idle" /\ \A u \in Turns : pc'[u] # "summary"
      BY <2>5 DEF NewSucceeds
    <3> QED BY <3>1
  <2>6. CASE NewSaveFails
    <3>1. pc'[Worker] = "idle" /\ \A u \in Turns : pc'[u] # "summary"
      BY <2>6 DEF NewSaveFails
    <3> QED BY <3>1
  <2> QED BY <1>4, <2>1, <2>2, <2>3, <2>4, <2>5, <2>6 DEF NewStep
<1>5. ASSUME NEW t \in Turns, GoStep(t) PROVE Pending'
  <2>1. /\ Running(t) /\ pc'[Worker] = pc[Worker] /\ pc'[t] # "summary"
        /\ \A u \in Turns \ {t} : pc'[u] = pc[u]
    BY <1>5, <1>go
  <2>2. pc[Worker] = "reading" /\ \A u \in Turns \ {t} : pc[u] # "summary"
    BY <2>1, RunningRest
  <2>3. \A u \in Turns : pc'[u] # "summary"
    BY <2>1, <2>2
  <2> QED BY <2>1, <2>2, <2>3
<1>6. ASSUME NEW th \in Threads, SaveStep(th) PROVE Pending'
  <2>1. /\ pc[th] \in SavePcs /\ pc'[th] \notin {"summary", "clear"}
        /\ \A u \in Threads \ {th} : pc'[u] = pc[u]
    BY <1>6, SaveMoves
  <2>2. pc[th] \notin {"none", "over", "reading"}
    BY <2>1
  <2>3. \A u \in Threads \ {th} : pc[u] \in {"reading", "none", "over"}
    BY <2>2, OthersRest
  <2>4. \A u \in Threads : pc'[u] \notin {"summary", "clear"}
    BY <2>1, <2>3
  <2> QED BY <2>4
<1>7. ASSUME NEW th \in Threads, Consolidate(th) PROVE Pending'
  <2>0. /\ pc[th] \in {"consolidate", "summary"} /\ \A u \in Threads \ {th} : pc'[u] = pc[u]
    BY <1>7 DEF Consolidate, ConsolidateEnds, PickBatch, SummaryFails, Summarised, AfterRounds
  <2>1. \A u \in Threads \ {th} : pc'[u] \notin {"summary", "clear"}
    BY <2>0, OthersRest
  <2>2. CASE PickBatch(th)
    <3>1. Sess(th) = Current /\ Current' = Current
      BY <2>2, OnCurrent, SameStore DEF PickBatch, Working
    <3>2. PICK b \in Nat : /\ b <= Len(Sess(th).msgs) /\ span' = [span EXCEPT ![th] = b]
                           /\ buf' = [buf EXCEPT ![th] = SubSeq(Sess(th).msgs, Sess(th).lc + 1, b)]
      BY <2>2, BatchFacts
    <3> DEFINE q == SubSeq(Current.msgs, Current.lc + 1, b)
    <3>3. span \in [Threads -> Nat] /\ pc'[th] = "summary" /\ lock' = th
      BY <2>2 DEF PickBatch, MemTypes
    <3>4. b <= Len(Current.msgs) /\ span'[th] = b /\ buf' = [buf EXCEPT ![th] = q]
      BY <3>1, <3>2, <3>3
    <3> HIDE DEF q
    <3>5. buf'[th] = q
      BY <3>4
    <3> QED BY <2>1, <3>1, <3>3, <3>4, <3>5 DEF q
  <2>3. CASE ~PickBatch(th)
    <3>1. pc'[th] \notin {"summary", "clear"}
      BY <1>7, <2>3, SMTT(30) DEF Consolidate, ConsolidateEnds, SummaryFails, Summarised, AfterRounds
    <3> QED BY <2>1, <3>1
  <2> QED BY <2>2, <2>3
<1>8. CASE Restart
  BY <1>8
<1>9. CASE UNCHANGED vars
  BY <1>9 DEF vars, Current
<1> QED BY <1>1, <1>2, <1>3, <1>4, <1>5, <1>6, <1>7, <1>8, <1>9, Steps

\* A prefix that is archived, and a batch that follows it.
LEMMA PrefixFacts ==
    ASSUME NEW q \in Seq(Message), NEW i \in Nat, NEW j \in Nat, j <= Len(q), NEW a,
           \A k \in 1 .. i : q[k] \in a
    PROVE  \A k \in 1 .. j : q[k] \in a \cup Elems(SubSeq(q, i + 1, j))
<1> SUFFICES ASSUME NEW k \in 1 .. j, k > i
             PROVE  q[k] \in Elems(SubSeq(q, i + 1, j))
  OBVIOUS
<1> DEFINE p == SubSeq(q, i + 1, j)
<1>1. p \in Seq(Message) /\ Len(p) = j - i /\ \A l \in 1 .. Len(p) : p[l] = q[i + l]
  BY SliceType
<1> HIDE DEF p
<1>2. k - i \in 1 .. Len(p) /\ i + (k - i) = k /\ DOMAIN p = 1 .. Len(p)
  BY <1>1
<1>3. p[k - i] = q[k]
  BY <1>1, <1>2
<1>4. q[k] \in Elems(p)
  BY <1>2, <1>3 DEF Elems
<1> QED BY <1>4 DEF p

\* ... ArchivedPrefix,
LEMMA NextArchivedPrefix ==
    ASSUME TypeOK, Places, SerialInv, FreshInv, SingleInv, KeptInv,
           ~DiskFaults, MaxCrashes = 0, [Next]_vars
    PROVE  ArchivedPrefix'
<1>0. /\ Places /\ Cached /\ KeptInv /\ Current.msgs \in Seq(Message) /\ Current.lc \in Nat
      /\ Current.lc <= Len(Current.msgs) /\ \A i \in 1 .. Current.lc : Current.msgs[i] \in archived
  BY CurrentType DEF FreshInv, KeptInv, ArchivedPrefix
<1>1. CASE ~Changes
  BY <1>0, <1>1, NextCurrent, NextGrows DEF ArchivedPrefix, Grows
<1>2. ASSUME NEW t \in Turns, AddWrites(t) PROVE ArchivedPrefix'
  <2>1. PICK m \in Message : Current'.msgs = Append(Current.msgs, m) /\ Current'.lc = Current.lc
    BY <1>0, <1>2, WriteCurrent DEF KeptInv
  <2>2. archived' = archived
    BY <1>2 DEF AddWrites, memVars
  <2> QED BY <1>0, <2>1, <2>2 DEF ArchivedPrefix
<1>3. ASSUME NEW th \in Threads, Summarised(th) PROVE ArchivedPrefix'
  <2>1. /\ Working(th) /\ pc[th] = "summary" /\ lock = th /\ cache' = cache
        /\ archived' = archived \cup Elems(buf[th])
    BY <1>3 DEF Summarised, Archive, At, Working
  <2>2. span[th] \in Nat /\ span[th] <= Len(Current.msgs)
        /\ buf[th] = SubSeq(Current.msgs, Current.lc + 1, span[th])
    BY <1>0, <2>1, TypeParts DEF KeptInv, Pending, PlaceTypes, MemTypes
  <2>3. Current'.msgs = Current.msgs /\ Current'.lc = span[th]
    BY <1>0, <1>3, <2>1, SummarisedFacts, MarkCurrent
  <2>4. \A k \in 1 .. span[th] : Current.msgs[k] \in archived'
    BY <1>0, <2>1, <2>2, PrefixFacts
  <2> QED BY <2>2, <2>3, <2>4 DEF ArchivedPrefix
<1>4. CASE NewArchived
  <2> DEFINE n == Len(Current.msgs)
  <2>1. /\ Working(Worker) /\ pc[Worker] = "summary" /\ lock # Worker /\ cache' = cache
        /\ archived' = archived \cup Elems(buf[Worker])
    BY <1>4 DEF NewArchived, Archive, At, Working
  <2>2. n \in Nat /\ n <= Len(Current.msgs) /\ buf[Worker] = SubSeq(Current.msgs, Current.lc + 1, n)
    BY <1>0, <2>1 DEF KeptInv, Pending
  <2>3. Current'.msgs = Current.msgs /\ Current'.lc = n
    BY <1>0, <1>4, <2>1, NewArchivedFacts, MarkCurrent, OnCurrent, ThreadFacts
  <2> HIDE DEF n
  <2>4. \A k \in 1 .. n : Current.msgs[k] \in archived'
    BY <1>0, <2>1, <2>2, PrefixFacts
  <2> QED BY <2>2, <2>3, <2>4 DEF ArchivedPrefix
<1>5. CASE NewClears
  <2>1. Current'.msgs = <<>> /\ Current'.lc = 0
    BY <1>0, <1>5, ClearCurrent
  <2> QED BY <2>1 DEF ArchivedPrefix
<1> QED BY <1>1, <1>2, <1>3, <1>4, <1>5 DEF Changes

\* ... ConversationKept,
LEMMA NextConversationKept ==
    ASSUME TypeOK, Places, SerialInv, FreshInv, SingleInv, KeptInv,
           ~DiskFaults, MaxCrashes = 0, [Next]_vars
    PROVE  ConversationKept'
<1>0. /\ Places /\ Cached /\ KeptInv /\ Current.msgs \in Seq(Message)
      /\ \A t \in recorded : MsgsOf(t) \subseteq Elems(Current.msgs) \cup archived
  BY CurrentType DEF FreshInv, KeptInv, ConversationKept
<1>1. CASE ~Changes
  <2>1. Current' = Current /\ archived \subseteq archived' /\ recorded' = recorded
    BY <1>1, NextCurrent, NextGrows DEF Changes, Grows
  <2> QED BY <1>0, <2>1 DEF ConversationKept
<1>2. ASSUME NEW t \in Turns, AddWrites(t) PROVE ConversationKept'
  <2>1. PICK m \in Message : /\ m = IF pc[t] = "putInput" THEN UserMsg(t) ELSE ReplyMsg(t)
                             /\ Elems(Current'.msgs) = Elems(Current.msgs) \cup {m}
    BY <1>0, <1>2, WriteCurrent DEF KeptInv
  <2>2. archived' = archived /\ recorded' = IF pc[t] = "putInput" THEN recorded ELSE recorded \cup {t}
    BY <1>2, WriteFacts DEF memVars
  <2>3. pc[t] # "putInput" => UserMsg(t) \in Elems(Current.msgs)
    BY <1>0, <1>2, WriteFacts DEF KeptInv, Adding
  <2>4. \A u \in recorded : MsgsOf(u) \subseteq Elems(Current'.msgs) \cup archived'
    BY <1>0, <2>1, <2>2
  <2>5. pc[t] # "putInput" => MsgsOf(t) \subseteq Elems(Current'.msgs)
    BY <2>1, <2>3 DEF MsgsOf
  <2> QED BY <2>2, <2>4, <2>5 DEF ConversationKept
<1>3. ASSUME NEW th \in Threads, Summarised(th) PROVE ConversationKept'
  <2>1. Working(th) /\ cache' = cache /\ archived \subseteq archived' /\ recorded' = recorded
    BY <1>3 DEF Summarised, Archive, At, Working, turnVars
  <2>2. Current'.msgs = Current.msgs
    BY <1>0, <1>3, <2>1, SummarisedFacts, MarkCurrent
  <2> QED BY <1>0, <2>1, <2>2 DEF ConversationKept
<1>4. CASE NewArchived
  <2>1. Working(Worker) /\ cache' = cache /\ archived \subseteq archived' /\ recorded' = recorded
    BY <1>4 DEF NewArchived, Archive, At, Working, turnVars
  <2>2. Current'.msgs = Current.msgs
    BY <1>0, <1>4, <2>1, NewArchivedFacts, MarkCurrent, ThreadFacts
  <2> QED BY <1>0, <2>1, <2>2 DEF ConversationKept
<1>5. CASE NewClears
  <2>1. Current'.msgs = <<>>
    BY <1>0, <1>5, ClearCurrent
  <2>2. Current.lc = Len(Current.msgs) /\ archived' = archived /\ recorded' = recorded
    BY <1>0, <1>5 DEF KeptInv, Pending, NewClears, At, memVars, turnVars
  <2>3. Elems(Current.msgs) \subseteq archived
    BY <1>0, <2>2 DEF KeptInv, ArchivedPrefix, Elems
  <2> QED BY <1>0, <2>1, <2>2, <2>3 DEF ConversationKept
<1> QED BY <1>1, <1>2, <1>3, <1>4, <1>5 DEF Changes

\* ... NothingForgotten,
LEMMA NextNothingForgotten ==
    ASSUME TypeOK, Places, SerialInv, FreshInv, SingleInv, KeptInv,
           ~DiskFaults, MaxCrashes = 0, [Next]_vars
    PROVE  NothingForgotten'
<1>0. /\ PlaceTypes /\ StoreTypes /\ Places /\ OneRuns /\ ~Restart
      /\ Cached /\ Clearing /\ KeptInv
  BY TypeParts, NoCrash DEF SerialInv, FreshInv
<1> USE <1>0, ThreadFacts DEF PlaceTypes, PcTypes, TurnTypes, StoreTypes, Goto, At,
    turnVars, memVars, cmdVars, storeVars, SavePcs, KeptInv, NothingForgotten
<1>1. CASE UserStep
  BY <1>1 DEF UserStep, BeginTurn, BeginNew, SendStop, HandleStop
<1>2. CASE StreamStep
  <2>1. UNCHANGED <<cache, file>>
    BY <1>2 DEF StreamStep, StreamOpens, StreamFails, ReadEnds
  <2> QED BY <2>1
<1>3. CASE FetchStep
  <2>1. Fetch(Worker)
    BY <1>3 DEF FetchStep, FetchSession, NewFetches
  <2>2. cache' \in 1 .. Len(heap') /\ Len(heap') \in Nat
    BY <2>1, FetchFacts
  <2> QED BY <2>2
<1>4. CASE NewStep
  <2>1. CASE NewArchives
    BY <2>1 DEF NewArchives
  <2>2. CASE NewArchiveFails
    BY <2>2 DEF NewArchiveFails
  <2>3. CASE NewArchived
    BY <2>3 DEF NewArchived
  <2>4. CASE NewClears
    BY <2>4 DEF NewClears
  <2>5. CASE NewSucceeds
    BY <2>5 DEF NewSucceeds, Forget, Clearing
  <2>6. CASE NewSaveFails
    BY <2>6 DEF NewSaveFails
  <2> QED BY <1>4, <2>1, <2>2, <2>3, <2>4, <2>5, <2>6 DEF NewStep
<1>5. ASSUME NEW t \in Turns, GoStep(t) PROVE NothingForgotten'
  <2>1. CASE StreamEnds(t)
    BY <2>1 DEF StreamEnds
  <2>2. CASE StreamBreaks(t)
    BY <2>2 DEF StreamBreaks
  <2>3. CASE Collect(t)
    BY <2>3 DEF Collect
  <2>4. CASE AddReads(t)
    BY <2>4 DEF AddReads
  <2>5. CASE AddWrites(t)
    BY <2>5 DEF AddWrites
  <2>6. CASE AfterSave(t)
    BY <2>6 DEF AfterSave
  <2>7. CASE Finish(t)
    BY <2>7 DEF Finish
  <2> QED BY <1>5, <2>1, <2>2, <2>3, <2>4, <2>5, <2>6, <2>7 DEF GoStep
<1>6. ASSUME NEW th \in Threads, SaveStep(th) PROVE NothingForgotten'
  <2>1. CASE SaveOpens(th)
    <3>1. cache # 0
      BY <2>1, OnCurrent DEF SaveOpens, Working
    <3> QED BY <2>1, <3>1 DEF SaveOpens
  <2>2. CASE SaveMeta(th)
    <3>1. cache # 0
      BY <2>2, OnCurrent DEF SaveMeta, Working
    <3> QED BY <2>2, <3>1 DEF SaveMeta
  <2>3. CASE SaveRange(th)
    <3>1. cache # 0
      BY <2>3, OnCurrent DEF SaveRange, Working
    <3> QED BY <2>3, <3>1 DEF SaveRange
  <2>4. CASE SaveLine(th)
    <3>1. cache # 0
      BY <2>4, OnCurrent DEF SaveLine, Working
    <3> QED BY <2>4, <3>1 DEF SaveLine
  <2>5. CASE SaveDone(th)
    <3>1. cache # 0 /\ obj[th] = cache
      BY <2>5, OnCurrent DEF SaveDone, Working
    <3> QED BY <2>5, <3>1 DEF SaveDone
  <2>6. CASE SaveFails(th)
    BY <2>6 DEF SaveFails
  <2> QED BY <1>6, <2>1, <2>2, <2>3, <2>4, <2>5, <2>6 DEF SaveStep, Save
<1>7. ASSUME NEW th \in Threads, Consolidate(th) PROVE NothingForgotten'
  <2>1. CASE ConsolidateEnds(th)
    BY <2>1 DEF ConsolidateEnds, AfterRounds
  <2>2. CASE PickBatch(th)
    BY <2>2 DEF PickBatch
  <2>3. CASE SummaryFails(th)
    BY <2>3 DEF SummaryFails, AfterRounds
  <2>4. CASE Summarised(th)
    BY <2>4 DEF Summarised
  <2> QED BY <1>7, <2>1, <2>2, <2>3, <2>4 DEF Consolidate
<1>8. CASE Restart
  BY <1>8
<1>9. CASE UNCHANGED vars
  BY <1>9 DEF vars
<1> QED BY <1>1, <1>2, <1>3, <1>4, <1>5, <1>6, <1>7, <1>8, <1>9, Steps

\* ... Adding,
LEMMA NextAdding ==
    ASSUME TypeOK, Places, SerialInv, FreshInv, SingleInv, KeptInv,
           ~DiskFaults, MaxCrashes = 0, [Next]_vars
    PROVE  Adding'
<1>0. /\ PlaceTypes /\ StoreTypes /\ Places /\ OneRuns /\ ~Restart
      /\ Cached /\ KeptInv
  BY TypeParts, NoCrash DEF SerialInv, FreshInv
<1> USE <1>0, ThreadFacts DEF PlaceTypes, PcTypes, StoreTypes, Goto, At, turnVars, memVars,
    cmdVars, storeVars, SavePcs
<1>1. CASE UserStep
  <2>1. CASE SendStop
    <3>1. UNCHANGED <<heap, cache, file, pc, buf>>
      BY <2>1 DEF SendStop
    <3>2. Current' = Current
      BY <3>1, SameStore
    <3> QED BY <3>1, <3>2 DEF KeptInv, Adding
  <2>2. CASE BeginTurn \/ BeginNew \/ HandleStop
    <3>1. /\ pc[Worker] = "idle" /\ pc'[Worker] \in {"idle", "fetch", "newFetch"}
          /\ \A u \in Turns : pc'[u] = pc[u]
      BY <2>2 DEF BeginTurn, BeginNew, HandleStop
    <3>2. \A u \in Threads : pc'[u] \in {"idle", "fetch", "newFetch", "reading", "none", "over"}
      BY <3>1, OthersRest
    <3> QED BY <3>2 DEF Adding
  <2> QED BY <1>1, <2>1, <2>2 DEF UserStep
<1>2. CASE StreamStep
  <2>1. CASE StreamOpens
    <3>1. /\ turn \in Turns /\ pc[Worker] = "prompt" /\ pc'[Worker] = "reading" /\ pc'[turn] = "stream"
          /\ \A th \in Threads \ {Worker, turn} : pc'[th] = pc[th]
      BY <2>1, OpensFacts
    <3>2. \A u \in Threads : pc'[u] \in {"stream", "reading", "none", "over"}
      BY <3>1, OthersRest
    <3> QED BY <3>2 DEF Adding
  <2>2. CASE StreamFails
    <3>1. /\ pc[Worker] = "prompt" /\ pc'[Worker] \in {"idle", "fetch"}
          /\ \A u \in Turns : pc'[u] = pc[u]
      BY <2>2 DEF StreamFails
    <3>2. \A u \in Threads : pc'[u] \in {"idle", "fetch", "reading", "none", "over"}
      BY <3>1, OthersRest
    <3> QED BY <3>2 DEF Adding
  <2>3. CASE ReadEnds
    <3>1. pc'[Worker] = "idle" /\ \A u \in Turns : pc'[u] = pc[u] /\ pc[u] \in {"none", "over"}
      BY <2>3 DEF ReadEnds, OneRuns, Running
    <3>2. \A u \in Threads : pc'[u] \in {"idle", "none", "over"}
      BY <3>1
    <3> QED BY <3>2 DEF Adding
  <2> QED BY <1>2, <2>1, <2>2, <2>3 DEF StreamStep
<1>3. CASE FetchStep
  <2>1. /\ pc[Worker] \in {"fetch", "newFetch"} /\ pc'[Worker] \in {"consolidate", "archive"}
        /\ \A u \in Turns : pc'[u] = pc[u]
    BY <1>3 DEF FetchStep, FetchSession, NewFetches
  <2>2. \A u \in Threads : pc'[u] \in {"consolidate", "archive", "reading", "none", "over"}
    BY <2>1, OthersRest
  <2> QED BY <2>2 DEF Adding
<1>4. CASE NewStep
  <2>1. /\ pc[Worker] \in {"archive", "summary", "clear", "saved", "saveFailed"}
        /\ pc'[Worker] \in {"summary", "clear", "save", "idle"} /\ \A u \in Turns : pc'[u] = pc[u]
    BY <1>4 DEF NewStep, NewArchives, NewArchiveFails, NewArchived, NewClears, NewSucceeds,
       NewSaveFails
  <2>2. \A u \in Threads : pc'[u] \in {"summary", "clear", "save", "idle", "reading", "none", "over"}
    BY <2>1, OthersRest
  <2> QED BY <2>2 DEF Adding
<1>5. ASSUME NEW t \in Turns, GoStep(t) PROVE Adding'
  <2>1. CASE AddReads(t)
    <3>1. /\ pc[t] \in {"addInput", "addReply"} /\ buf' = [buf EXCEPT ![t] = Sess(t).msgs]
          /\ pc' = [pc EXCEPT ![t] = IF pc[t] = "addInput" THEN "putInput" ELSE "putReply"]
          /\ UNCHANGED <<heap, cache, file>>
      BY <2>1 DEF AddReads
    <3>2. \A v \in Threads \ {t} : pc[v] \in {"reading", "none", "over"}
      BY <3>1, OthersRest
    <3>3. Current' = Current /\ Sess(t) = Current
      BY <3>1, SameStore, OnCurrent DEF Working
    <3>4. pc[t] = "addReply" => UserMsg(t) \in Elems(Current.msgs)
      BY DEF KeptInv, Adding
    <3>5. ASSUME NEW v \in Turns \ {t} PROVE pc'[v] \in {"reading", "none", "over"}
      BY <3>1, <3>2
    <3>6. /\ buf'[t] = Current'.msgs /\ pc'[t] # "addReply"
          /\ pc'[t] = "putReply" => UserMsg(t) \in Elems(Current'.msgs)
      BY <3>1, <3>3, <3>4
    <3> QED BY <3>5, <3>6 DEF Adding
  <2>2. CASE AddWrites(t)
    <3>1. /\ pc[t] \in {"putInput", "putReply"}
          /\ pc' = [pc EXCEPT ![t] = IF pc[t] = "putInput" THEN "addReply" ELSE "save"]
      BY <2>2, WriteFacts
    <3>2. \A v \in Threads \ {t} : pc[v] \in {"reading", "none", "over"}
      BY <3>1, OthersRest
    <3>3. pc[t] = "putInput" => UserMsg(t) \in Elems(Current'.msgs)
      BY <2>2, WriteCurrent DEF KeptInv
    <3>5. ASSUME NEW v \in Turns \ {t} PROVE pc'[v] \in {"reading", "none", "over"}
      BY <3>1, <3>2
    <3>6. pc'[t] \in {"addReply", "save"} /\ (pc'[t] = "addReply" => UserMsg(t) \in Elems(Current'.msgs))
      BY <3>1, <3>3
    <3> QED BY <3>5, <3>6 DEF Adding
  <2>3. CASE ~AddReads(t) /\ ~AddWrites(t)
    <3>1. /\ pc[t] \in {"stream", "collect", "saved", "saveFailed", "finish"}
          /\ pc'[t] \in {"collect", "finish", "addInput", "consolidate", "over"}
          /\ \A v \in Threads \ {t} : pc'[v] = pc[v]
      BY <1>5, <2>3 DEF GoStep, StreamEnds, StreamBreaks, Collect, AfterSave, Finish
    <3>2. \A v \in Turns :
            pc'[v] \in {"collect", "finish", "addInput", "consolidate", "over", "reading", "none"}
      BY <3>1, OthersRest
    <3> QED BY <3>2 DEF Adding
  <2> QED BY <2>1, <2>2, <2>3
<1>6. ASSUME NEW th \in Threads, SaveStep(th) PROVE Adding'
  <2>1. /\ pc[th] \in SavePcs /\ pc'[th] \in SavePcs \cup {"saved", "saveFailed"}
        /\ \A v \in Threads \ {th} : pc'[v] = pc[v]
    BY <1>6 DEF SaveStep, Save, SaveOpens, SaveMeta, SaveRange, SaveLine, SaveDone, SaveFails
  <2>2. \A v \in Threads : pc'[v] \in SavePcs \cup {"saved", "saveFailed", "reading", "none", "over"}
    BY <2>1, OthersRest
  <2> QED BY <2>2 DEF Adding
<1>7. ASSUME NEW th \in Threads, Consolidate(th) PROVE Adding'
  <2>1. /\ pc[th] \in {"consolidate", "summary"}
        /\ pc'[th] \in {"prompt", "finish", "summary", "consolidate"}
        /\ \A u \in Threads \ {th} : pc'[u] = pc[u]
    BY <1>7 DEF Consolidate, ConsolidateEnds, PickBatch, SummaryFails, Summarised, AfterRounds
  <2>2. \A u \in Threads :
          pc'[u] \in {"prompt", "finish", "summary", "consolidate", "reading", "none", "over"}
    BY <2>1, OthersRest
  <2> QED BY <2>2 DEF Adding
<1>8. CASE Restart
  BY <1>8
<1>9. CASE UNCHANGED vars
  <2>1. UNCHANGED <<heap, cache, file, pc, buf>>
    BY <1>9 DEF vars
  <2>2. Current' = Current
    BY <2>1, SameStore
  <2> QED BY <2>1, <2>2 DEF KeptInv, Adding
<1> QED BY <1>1, <1>2, <1>3, <1>4, <1>5, <1>6, <1>7, <1>8, <1>9, Steps

\* ... Writing,
LEMMA NextWriting ==
    ASSUME TypeOK, Places, SerialInv, FreshInv, SingleInv, KeptInv,
           ~DiskFaults, MaxCrashes = 0, [Next]_vars
    PROVE  Writing'
<1>0. /\ PlaceTypes /\ StoreTypes /\ Places /\ OneRuns /\ ~Restart
      /\ Cached /\ KeptInv
  BY TypeParts, NoCrash DEF SerialInv, FreshInv
<1> USE <1>0, ThreadFacts DEF PlaceTypes, PcTypes, StoreTypes, Goto, At, turnVars, memVars,
    cmdVars, storeVars, SavePcs
<1>1. CASE UserStep
  <2>1. CASE SendStop
    <3>1. UNCHANGED <<heap, cache, file, pc, buf>>
      BY <2>1 DEF SendStop
    <3>2. Current' = Current
      BY <3>1, SameStore
    <3> QED BY <3>1, <3>2 DEF KeptInv, Writing
  <2>2. CASE BeginTurn \/ BeginNew \/ HandleStop
    <3>1. /\ pc[Worker] = "idle" /\ pc'[Worker] \in {"idle", "fetch", "newFetch"}
          /\ \A u \in Turns : pc'[u] = pc[u]
      BY <2>2 DEF BeginTurn, BeginNew, HandleStop
    <3>2. \A u \in Threads : pc'[u] \in {"idle", "fetch", "newFetch", "reading", "none", "over"}
      BY <3>1, OthersRest
    <3> QED BY <3>2 DEF Writing
  <2> QED BY <1>1, <2>1, <2>2 DEF UserStep
<1>2. CASE StreamStep
  <2>1. CASE StreamOpens
    <3>1. /\ turn \in Turns /\ pc[Worker] = "prompt" /\ pc'[Worker] = "reading" /\ pc'[turn] = "stream"
          /\ \A th \in Threads \ {Worker, turn} : pc'[th] = pc[th]
      BY <2>1, OpensFacts
    <3>2. \A u \in Threads : pc'[u] \in {"stream", "reading", "none", "over"}
      BY <3>1, OthersRest
    <3> QED BY <3>2 DEF Writing
  <2>2. CASE StreamFails
    <3>1. /\ pc[Worker] = "prompt" /\ pc'[Worker] \in {"idle", "fetch"}
          /\ \A u \in Turns : pc'[u] = pc[u]
      BY <2>2 DEF StreamFails
    <3>2. \A u \in Threads : pc'[u] \in {"idle", "fetch", "reading", "none", "over"}
      BY <3>1, OthersRest
    <3> QED BY <3>2 DEF Writing
  <2>3. CASE ReadEnds
    <3>1. pc'[Worker] = "idle" /\ \A u \in Turns : pc'[u] = pc[u] /\ pc[u] \in {"none", "over"}
      BY <2>3 DEF ReadEnds, OneRuns, Running
    <3>2. \A u \in Threads : pc'[u] \in {"idle", "none", "over"}
      BY <3>1
    <3> QED BY <3>2 DEF Writing
  <2> QED BY <1>2, <2>1, <2>2, <2>3 DEF StreamStep
<1>3. CASE FetchStep
  <2>1. /\ pc[Worker] \in {"fetch", "newFetch"} /\ pc'[Worker] \in {"consolidate", "archive"}
        /\ \A u \in Turns : pc'[u] = pc[u]
    BY <1>3 DEF FetchStep, FetchSession, NewFetches
  <2>2. \A u \in Threads : pc'[u] \in {"consolidate", "archive", "reading", "none", "over"}
    BY <2>1, OthersRest
  <2> QED BY <2>2 DEF Writing
<1>4. CASE NewStep
  <2>1. /\ pc[Worker] \in {"archive", "summary", "clear", "saved", "saveFailed"}
        /\ pc'[Worker] \in {"summary", "clear", "save", "idle"} /\ \A u \in Turns : pc'[u] = pc[u]
    BY <1>4 DEF NewStep, NewArchives, NewArchiveFails, NewArchived, NewClears, NewSucceeds,
       NewSaveFails
  <2>2. \A u \in Threads : pc'[u] \in {"summary", "clear", "save", "idle", "reading", "none", "over"}
    BY <2>1, OthersRest
  <2> QED BY <2>2 DEF Writing
<1>5. ASSUME NEW t \in Turns, GoStep(t) PROVE Writing'
  <2>1. /\ pc[t] \notin {"none", "over", "reading"} /\ pc'[t] # "lines"
        /\ \A v \in Threads \ {t} : pc'[v] = pc[v]
    BY <1>5, SMTT(30) DEF GoStep, StreamEnds, StreamBreaks, Collect, AddReads, AddWrites,
       AfterSave, Finish
  <2>2. \A v \in Threads : pc'[v] # "lines"
    BY <2>1, OthersRest
  <2> QED BY <2>2 DEF Writing
<1>6. ASSUME NEW th \in Threads, SaveStep(th) PROVE Writing'
  <2>1. pc[th] \in SavePcs /\ \A v \in Threads \ {th} : pc'[v] = pc[v]
    BY <1>6 DEF SaveStep, Save, SaveOpens, SaveMeta, SaveRange, SaveLine, SaveDone, SaveFails
  <2>2. \A v \in Threads \ {th} : pc'[v] # "lines"
    BY <2>1, OthersRest
  <2>3. /\ Sess(th) = Current /\ Current = heap[cache] /\ obj[th] = cache /\ cache # 0
        /\ Current.msgs \in Seq(Message)
    BY <2>1, OnCurrent, CurrentType DEF Working
  <2>4. CASE SaveRange(th)
    <3>1. buf'[th] = Current.msgs /\ UNCHANGED <<heap, cache, file>>
      BY <2>3, <2>4 DEF SaveRange
    <3>2. file'.msgs = <<>> /\ Current' = Current
      BY <2>4, <3>1, SameStore DEF SaveRange, SingleInv, Halves
    <3>3. file'.msgs \o buf'[th] = Current'.msgs
      BY <2>3, <3>1, <3>2, ConcatFacts
    <3> QED BY <2>2, <3>3 DEF Writing
  <2>5. CASE SaveLine(th)
    <3>1. /\ file.msgs \in Seq(Message) /\ buf[th] # <<>> /\ buf[th] \in Seq(Message) /\ pc[th] = "lines"
          /\ file \in File
      BY <2>5 DEF SaveLine, File
    <3>2. Head(buf[th]) \in Message
      BY <3>1
    <3>3. file'.msgs = Append(file.msgs, Head(buf[th]))
      BY <2>5, <3>1, <3>2, FileLine DEF SaveLine
    <3>4. buf'[th] = Tail(buf[th]) /\ UNCHANGED <<heap, cache>>
      BY <2>5 DEF SaveLine
    <3>0. Append(file.msgs, Head(buf[th])) \o Tail(buf[th]) = file.msgs \o buf[th]
      BY <3>1, ConcatFacts
    <3>5. file'.msgs \o buf'[th] = file.msgs \o buf[th]
      BY <3>0, <3>3, <3>4, Zenon
    <3>6. file.msgs \o buf[th] = Current.msgs
      BY <3>1 DEF KeptInv, Writing
    <3>7. Current' = Current
      BY <2>3, <3>4 DEF Current
    <3> QED BY <2>2, <3>5, <3>6, <3>7 DEF Writing
  <2>6. CASE ~SaveRange(th) /\ ~SaveLine(th)
    <3>1. pc'[th] # "lines"
      BY <1>6, <2>6 DEF SaveStep, Save, SaveOpens, SaveMeta, SaveDone, SaveFails
    <3> QED BY <2>2, <3>1 DEF Writing
  <2> QED BY <2>4, <2>5, <2>6
<1>7. ASSUME NEW th \in Threads, Consolidate(th) PROVE Writing'
  <2>1. /\ pc[th] \in {"consolidate", "summary"}
        /\ pc'[th] \in {"prompt", "finish", "summary", "consolidate"}
        /\ \A u \in Threads \ {th} : pc'[u] = pc[u]
    BY <1>7 DEF Consolidate, ConsolidateEnds, PickBatch, SummaryFails, Summarised, AfterRounds
  <2>2. \A u \in Threads :
          pc'[u] \in {"prompt", "finish", "summary", "consolidate", "reading", "none", "over"}
    BY <2>1, OthersRest
  <2> QED BY <2>2 DEF Writing
<1>8. CASE Restart
  BY <1>8
<1>9. CASE UNCHANGED vars
  <2>1. UNCHANGED <<heap, cache, file, pc, buf>>
    BY <1>9 DEF vars
  <2>2. Current' = Current
    BY <2>1, SameStore
  <2> QED BY <2>1, <2>2 DEF KeptInv, Writing
<1> QED BY <1>1, <1>2, <1>3, <1>4, <1>5, <1>6, <1>7, <1>8, <1>9, Steps

\* ... and OnDisk.
LEMMA NextOnDisk ==
    ASSUME TypeOK, Places, SerialInv, FreshInv, SingleInv, KeptInv,
           ~DiskFaults, MaxCrashes = 0, [Next]_vars
    PROVE  OnDisk'
<1>0. /\ PlaceTypes /\ StoreTypes /\ Places /\ OneRuns /\ ~Restart
      /\ Cached /\ KeptInv
  BY TypeParts, NoCrash DEF SerialInv, FreshInv
<1> USE <1>0, ThreadFacts DEF PlaceTypes, PcTypes, StoreTypes, Goto, At, turnVars, memVars,
    cmdVars, storeVars, KeptInv, OnDisk
<1>1. CASE UserStep
  <2>1. UNCHANGED <<mu, file, archived, recorded>> /\ \A v \in Turns : pc'[v] = pc[v]
    BY <1>1 DEF UserStep, BeginTurn, BeginNew, SendStop, HandleStop
  <2>2. recorded \subseteq Turns
    BY DEF TurnTypes
  <2> QED BY <2>1, <2>2
<1>2. CASE StreamStep
  <2>1. /\ UNCHANGED <<mu, file, archived, recorded>>
          /\ \A v \in Turns : pc[v] = "save" => pc'[v] = "save"
    <3>1. CASE StreamOpens
      BY <3>1, OpensFacts
    <3>2. CASE StreamFails \/ ReadEnds
      BY <3>2 DEF StreamFails, ReadEnds
    <3> QED BY <1>2, <3>1, <3>2 DEF StreamStep
  <2>2. recorded \subseteq Turns
    BY DEF TurnTypes
  <2> QED BY <2>1, <2>2
<1>3. CASE FetchStep
  <2>1. UNCHANGED <<mu, file, archived, recorded>> /\ \A v \in Turns : pc'[v] = pc[v]
    BY <1>3 DEF FetchStep, FetchSession, NewFetches, Fetch
  <2>2. recorded \subseteq Turns
    BY DEF TurnTypes
  <2> QED BY <2>1, <2>2
<1>4. CASE NewStep
  <2>1. /\ UNCHANGED <<mu, file, recorded>> /\ archived \subseteq archived'
        /\ \A v \in Turns : pc[v] = "save" => pc'[v] = "save"
    BY <1>4, SMTT(30) DEF NewStep, NewArchives, NewArchiveFails, NewArchived, NewClears,
       NewSucceeds,
       NewSaveFails, Forget, Archive
  <2>2. recorded \subseteq Turns
    BY DEF TurnTypes
  <2> QED BY <2>1, <2>2
<1>5. ASSUME NEW t \in Turns, GoStep(t) PROVE OnDisk'
  <2>0. recorded \subseteq Turns
    BY DEF TurnTypes
  <2>1. CASE AddWrites(t)
    <3>1. /\ recorded' = IF pc[t] = "putInput" THEN recorded ELSE recorded \cup {t}
          /\ pc[t] # "save"
          /\ pc' = [pc EXCEPT ![t] = IF pc[t] = "putInput" THEN "addReply" ELSE "save"]
          /\ UNCHANGED <<mu, file, archived>>
      BY <2>1, WriteFacts
    <3>2. \A v \in Turns : pc[v] = "save" => pc'[v] = "save"
      BY <3>1
    <3>3. CASE pc[t] = "putInput"
      BY <2>0, <3>1, <3>2, <3>3
    <3>4. CASE pc[t] # "putInput"
      <4>1. t \in DOMAIN pc
        OBVIOUS
      <4>2. pc'[t] = "save" /\ recorded' = recorded \cup {t}
        BY <3>1, <3>4, <4>1
      <4> QED BY <2>0, <3>1, <3>2, <4>2
    <3> QED BY <3>3, <3>4
  <2>2. CASE ~AddWrites(t)
    <3>1. /\ UNCHANGED <<mu, file, archived, recorded>>
          /\ \A v \in Turns : pc[v] = "save" => pc'[v] = "save"
      BY <1>5, <2>2, SMTT(30) DEF GoStep, StreamEnds, StreamBreaks, Collect, AddReads,
         AfterSave, Finish
    <3> QED BY <2>0, <3>1
  <2> QED BY <2>1, <2>2
<1>6. ASSUME NEW th \in Threads, SaveStep(th) PROVE OnDisk'
  <2>1. CASE SaveDone(th)
    <3>1. /\ pc[th] = "lines" /\ buf[th] = <<>> /\ cache' = obj[th]
          /\ UNCHANGED <<heap, file, archived, recorded>>
      BY <1>6, <2>1 DEF SaveStep, SaveDone
    <3>2. file.msgs \in Seq(Message)
      BY DEF File
    <3>3. file.msgs \o <<>> = Current.msgs
      BY <3>1 DEF Writing
    <3>4. file.msgs = Current.msgs
      BY <3>2, <3>3, ConcatFacts
    <3> QED BY <3>1, <3>4 DEF ConversationKept
  <2>2. CASE ~SaveDone(th)
    <3>1. mu' = th
      BY <1>6, <2>2 DEF SaveStep, Save, SaveOpens, SaveMeta, SaveRange, SaveLine, SaveFails,
         Places, MuOK
    <3> QED BY <3>1
  <2> QED BY <2>1, <2>2
<1>7. ASSUME NEW th \in Threads, Consolidate(th) PROVE OnDisk'
  <2>1. UNCHANGED <<mu, file, recorded>> /\ archived \subseteq archived'
        /\ \A v \in Turns : pc[v] = "save" => pc'[v] = "save"
    BY <1>7, SMTT(30) DEF Consolidate, ConsolidateEnds, PickBatch, SummaryFails, Summarised,
       AfterRounds, Archive
  <2>2. recorded \subseteq Turns
    BY DEF TurnTypes
  <2> QED BY <2>1, <2>2
<1>8. CASE Restart
  BY <1>8
<1>9. CASE UNCHANGED vars
  BY <1>9 DEF vars
<1> QED BY <1>1, <1>2, <1>3, <1>4, <1>5, <1>6, <1>7, <1>8, <1>9, Steps

\* KeptInv holds always, without broken streams, disk faults and crashes.
LEMMA KeptInvariant ==
    ASSUME ~StreamsBreak, ~DiskFaults, MaxCrashes = 0
    PROVE  Spec => []KeptInv
<1>1. Init => KeptInv
  <2> SUFFICES ASSUME Init PROVE KeptInv
    OBVIOUS
  <2>1. Current = [msgs |-> <<>>, lc |-> 0]
    BY DEF Init, StoreInit, Current, Loaded, NoFile
  <2>2. NothingForgotten /\ OnDisk /\ ConversationKept
    BY DEF Init, StoreInit, NoFile, NothingForgotten, OnDisk, ConversationKept
  <2>3. ArchivedPrefix
    BY <2>1 DEF ArchivedPrefix
  <2>4. Pending /\ Adding /\ Writing
    BY ThreadFacts DEF Init, Pending, Adding, Writing
  <2> QED BY <2>2, <2>3, <2>4 DEF KeptInv
<1>2. TypeOK /\ Places /\ SerialInv /\ FreshInv /\ SingleInv /\ KeptInv /\ [Next]_vars => KeptInv'
  BY NextNothingForgotten, NextArchivedPrefix, NextConversationKept, NextPending, NextAdding,
     NextWriting, NextOnDisk DEF KeptInv
<1> QED
  BY <1>1, <1>2, PlacesInvariant, SerialInvariant, FreshInvariant, SingleInvariant, PTL DEF Spec

\* What was recorded is in the session or in the archive (agent.go:441-444, 463-473).
THEOREM NothingIsLost ==
    ASSUME ~StreamsBreak, ~DiskFaults, MaxCrashes = 0
    PROVE  Spec => []ConversationKept
<1>1. KeptInv => ConversationKept
  BY DEF KeptInv
<1> QED BY <1>1, KeptInvariant, PTL

\* LastConsolidated is a valid index and what is before it was archived
\* (manager.go:24, memory.go:337-345).
THEOREM PrefixIsArchived ==
    ASSUME ~StreamsBreak, ~DiskFaults, MaxCrashes = 0
    PROVE  Spec => []ArchivedPrefix
<1>1. KeptInv => ArchivedPrefix
  BY DEF KeptInv
<1> QED BY <1>1, KeptInvariant, PTL

\* Once the file is not being written, every answered turn is on disk or archived
\* (agent.go:380-384, 444).
THEOREM AnswersAreOnDisk ==
    ASSUME ~StreamsBreak, ~DiskFaults, MaxCrashes = 0
    PROVE  Spec => []AnswersOnDisk
<1>1. TypeOK /\ SerialInv /\ KeptInv => AnswersOnDisk
  <2> SUFFICES ASSUME TypeOK, SerialInv, KeptInv, mu = Nobody, NEW t \in Answered
               PROVE  MsgsOf(t) \subseteq Elems(file.msgs) \cup archived
    BY DEF AnswersOnDisk
  <2>1. t \in recorded /\ t \in Turns /\ pipe[t] = "closed"
    BY TypeParts DEF Answered, PlaceTypes, TurnTypes
  <2>2. pc[t] # "save"
    BY <2>1 DEF SerialInv, OneRuns, Running
  <2> QED BY <2>1, <2>2 DEF KeptInv, OnDisk
<1> QED BY <1>1, PlacesInvariant, SerialInvariant, KeptInvariant, PTL

-----------------------------------------------------------------------------
(* To its user a session is one conversation.                              *)

\* Turn t has added its question and not yet its reply.
Asking(t) == pc[t] \in {"addReply", "putReply"}

\* The question that is not answered yet is the last message.
Asked == \A t \in Turns :
    Asking(t) => Current.msgs # <<>> /\ Current.msgs[Len(Current.msgs)] = UserMsg(t)
\* Unless a turn is between the two, the last message is a reply.
Settled ==
    \/ Current.msgs = <<>> \/ Current.msgs[Len(Current.msgs)].role = "assistant"
    \/ \E t \in Turns : Asking(t)
\* What was said belongs to turns that have begun, and to the last one only once
\* it has added its question.
Past == \A m \in Elems(Current.msgs) \cup archived :
    m.turn \in Turns /\ m.turn <= turn /\ (m.turn = turn => pc[turn] \notin BeforeInput)
\* What waits for its summary is something.
Batches == \A th \in Threads : pc[th] = "summary" => buf[th] # <<>>

TalkInv == Asked /\ Settled /\ Past /\ Batches

\* Only AddMessage takes a turn past its question or its reply.
LEMMA NextAsking ==
    ASSUME TypeOK, Places, ~Restart, \A t \in Turns : ~AddWrites(t), [Next]_vars,
           NEW u \in Turns
    PROVE  Asking(u)' <=> Asking(u)
<1>0. PlaceTypes
  BY TypeParts
<1>go. ASSUME NEW t \in Turns, GoStep(t), t # u PROVE pc'[u] = pc[u]
  BY <1>go, GoMoves, ThreadFacts
<1>save. ASSUME NEW th \in Threads, SaveStep(th), th # u PROVE pc'[u] = pc[u]
  BY <1>save, SaveMoves, ThreadFacts
<1> USE <1>0, ThreadFacts DEF PlaceTypes, PcTypes, Goto, At, Asking, SavePcs
<1>1. CASE UserStep
  BY <1>1 DEF UserStep, BeginTurn, BeginNew, SendStop, HandleStop, storeVars
<1>2. CASE StreamStep
  <2>1. CASE StreamOpens
    BY <2>1, OpensFacts
  <2>2. CASE StreamFails
    BY <2>2 DEF StreamFails
  <2>3. CASE ReadEnds
    BY <2>3 DEF ReadEnds
  <2> QED BY <1>2, <2>1, <2>2, <2>3 DEF StreamStep
<1>3. CASE FetchStep
  BY <1>3 DEF FetchStep, FetchSession, NewFetches
<1>4. CASE NewStep
  BY <1>4 DEF NewStep, NewArchives, NewArchiveFails, NewArchived, NewClears, NewSucceeds,
     NewSaveFails
<1>5. ASSUME NEW t \in Turns, GoStep(t) PROVE Asking(u)' <=> Asking(u)
  <2>1. CASE t # u
    BY <1>5, <1>go, <2>1
  <2>2. CASE t = u
    <3>1. CASE StreamEnds(u) \/ StreamBreaks(u)
      BY <3>1 DEF StreamEnds, StreamBreaks
    <3>2. CASE Collect(u)
      BY <3>2 DEF Collect
    <3>3. CASE AddReads(u)
      BY <3>3 DEF AddReads
    <3>4. CASE AfterSave(u)
      BY <3>4 DEF AfterSave
    <3>5. CASE Finish(u)
      BY <3>5 DEF Finish
    <3> QED BY <1>5, <2>2, <3>1, <3>2, <3>3, <3>4, <3>5 DEF GoStep
  <2> QED BY <2>1, <2>2
<1>6. ASSUME NEW th \in Threads, SaveStep(th) PROVE Asking(u)' <=> Asking(u)
  <2>1. CASE th # u
    BY <1>6, <1>save, <2>1
  <2>2. CASE th = u
    BY <1>6, <2>2 DEF SaveStep, Save, SaveOpens, SaveMeta, SaveRange, SaveLine, SaveDone, SaveFails
  <2> QED BY <2>1, <2>2
<1>7. ASSUME NEW th \in Threads, Consolidate(th) PROVE Asking(u)' <=> Asking(u)
  BY <1>7 DEF Consolidate, ConsolidateEnds, PickBatch, SummaryFails, Summarised, AfterRounds
<1>9. CASE UNCHANGED vars
  BY <1>9 DEF vars, storeVars
<1> QED BY <1>1, <1>2, <1>3, <1>4, <1>5, <1>6, <1>7, <1>9, Steps

\* Only a summary changes the archive.
LEMMA NextArchive ==
    ASSUME ~Changes, [Next]_vars
    PROVE  archived' = archived
<1> USE ThreadFacts DEF turnVars, memVars, cmdVars
<1>1. CASE UserStep
  BY <1>1 DEF UserStep, BeginTurn, BeginNew, SendStop, HandleStop
<1>2. CASE StreamStep
  BY <1>2 DEF StreamStep, StreamFails, StreamOpens, ReadEnds
<1>3. CASE FetchStep
  BY <1>3 DEF FetchStep, FetchSession, NewFetches
<1>4. CASE NewStep
  BY <1>4 DEF NewStep, NewArchives, NewArchiveFails, NewSucceeds, NewSaveFails, Changes
<1>5. ASSUME NEW t \in Turns, GoStep(t) PROVE archived' = archived
  BY <1>5 DEF GoStep, StreamEnds, StreamBreaks, Collect, AddReads, AfterSave, Finish, Changes
<1>6. ASSUME NEW th \in Threads, SaveStep(th) PROVE archived' = archived
  BY <1>6 DEF SaveStep
<1>7. ASSUME NEW th \in Threads, Consolidate(th) PROVE archived' = archived
  BY <1>7 DEF Consolidate, ConsolidateEnds, PickBatch, SummaryFails, Changes
<1>8. CASE Restart
  BY <1>8 DEF Restart
<1>9. CASE UNCHANGED vars
  BY <1>9 DEF vars
<1> QED BY <1>1, <1>2, <1>3, <1>4, <1>5, <1>6, <1>7, <1>8, <1>9, Steps

\* Turns are counted up.
LEMMA NextTurn ==
    ASSUME [Next]_vars
    PROVE  turn' = turn \/ turn' = turn + 1
<1> USE ThreadFacts DEF turnVars
<1>1. CASE UserStep
  BY <1>1 DEF UserStep, BeginTurn, BeginNew, SendStop, HandleStop
<1>2. CASE StreamStep
  BY <1>2 DEF StreamStep, StreamFails, StreamOpens, ReadEnds
<1>3. CASE FetchStep
  BY <1>3 DEF FetchStep, FetchSession, NewFetches
<1>4. CASE NewStep
  BY <1>4 DEF NewStep, NewArchives, NewArchiveFails, NewArchived, NewClears, NewSucceeds,
     NewSaveFails
<1>5. ASSUME NEW t \in Turns, GoStep(t) PROVE turn' = turn
  BY <1>5 DEF GoStep, StreamEnds, StreamBreaks, Collect, AddReads, AddWrites, AfterSave, Finish
<1>6. ASSUME NEW th \in Threads, SaveStep(th) PROVE turn' = turn
  BY <1>6 DEF SaveStep
<1>7. ASSUME NEW th \in Threads, Consolidate(th) PROVE turn' = turn
  BY <1>7 DEF Consolidate, ConsolidateEnds, PickBatch, SummaryFails, Summarised
<1>8. CASE Restart
  BY <1>8 DEF Restart
<1>9. CASE UNCHANGED vars
  BY <1>9 DEF vars
<1> QED BY <1>1, <1>2, <1>3, <1>4, <1>5, <1>6, <1>7, <1>8, <1>9, Steps

\* A batch ends after the mark.
LEMMA BatchNotEmpty ==
    ASSUME TypeOK, Places, NEW th \in Threads, PickBatch(th)
    PROVE  buf'[th] # <<>> /\ \A u \in Threads \ {th} : buf'[u] = buf[u]
<1>1. PICK b \in Boundaries(Sess(th)) :
        /\ buf' = [buf EXCEPT ![th] = SubSeq(Sess(th).msgs, Sess(th).lc + 1, b)]
        /\ b \in Nat /\ b <= Len(Sess(th).msgs)
  BY BatchFacts
<1>2. Sess(th).msgs \in Seq(Message) /\ Sess(th).lc \in Nat /\ buf \in [Threads -> Seq(Message)]
  BY SessType, TypeParts DEF PickBatch, At, StoreTypes
<1>3. Sess(th).lc < b
  BY <1>1, <1>2 DEF Boundaries
<1> DEFINE q == SubSeq(Sess(th).msgs, Sess(th).lc + 1, b)
<1>4. Len(q) # 0 /\ buf' = [buf EXCEPT ![th] = q]
  BY <1>1, <1>2, <1>3, SliceType
<1> HIDE DEF q
<1> QED BY <1>2, <1>4

\* Every step keeps Batches.
LEMMA NextBatches ==
    ASSUME TypeOK, Places, Batches, [Next]_vars
    PROVE  Batches'
<1>0. PlaceTypes /\ StoreTypes
  BY TypeParts
<1>pick. ASSUME NEW th \in Threads, PickBatch(th) PROVE Batches'
  <2>1. \A u \in Threads \ {th} : pc'[u] = pc[u]
    BY <1>0, <1>pick DEF PickBatch, Goto, PlaceTypes, PcTypes
  <2> QED BY <1>pick, <2>1, BatchNotEmpty DEF Batches
<1>go. ASSUME NEW t \in Turns, GoStep(t)
       PROVE  /\ pc'[t] # "summary" /\ t \in Threads
              /\ \A u \in Threads \ {t} : pc'[u] = pc[u]
  BY <1>go, GoMoves, ThreadFacts
<1>save. ASSUME NEW th \in Threads, SaveStep(th)
         PROVE  pc'[th] # "summary" /\ \A u \in Threads \ {th} : pc'[u] = pc[u]
  BY <1>save, SaveMoves
<1>open. ASSUME StreamOpens
         PROVE  buf' = buf /\ \A u \in Threads : pc'[u] = "summary" => pc[u] = "summary"
  BY <1>open, OpensFacts
<1> USE <1>0, ThreadFacts DEF PlaceTypes, PcTypes, StoreTypes, Goto, At, turnVars, memVars,
    cmdVars, storeVars, Batches
<1>1. CASE UserStep
  BY <1>1 DEF UserStep, BeginTurn, BeginNew, SendStop, HandleStop
<1>2. CASE StreamStep
  <2>1. CASE StreamOpens
    BY <2>1, <1>open
  <2>2. CASE StreamFails
    BY <2>2 DEF StreamFails
  <2>3. CASE ReadEnds
    BY <2>3 DEF ReadEnds
  <2> QED BY <1>2, <2>1, <2>2, <2>3 DEF StreamStep
<1>3. CASE FetchStep
  BY <1>3 DEF FetchStep, FetchSession, NewFetches, Fetch
<1>4. CASE NewStep
  <2>1. CASE NewArchives
    BY <2>1 DEF NewArchives
  <2>2. CASE NewArchiveFails
    BY <2>2 DEF NewArchiveFails
  <2>3. CASE NewArchived
    BY <2>3 DEF NewArchived, Archive
  <2>4. CASE NewClears
    BY <2>4 DEF NewClears
  <2>5. CASE NewSucceeds
    BY <2>5 DEF NewSucceeds, Forget
  <2>6. CASE NewSaveFails
    BY <2>6 DEF NewSaveFails
  <2> QED BY <1>4, <2>1, <2>2, <2>3, <2>4, <2>5, <2>6 DEF NewStep
<1>5. ASSUME NEW t \in Turns, GoStep(t) PROVE Batches'
  <2>1. \A u \in Threads \ {t} : buf'[u] = buf[u]
    BY <1>5 DEF GoStep, StreamEnds, StreamBreaks, Collect, AddReads, AddWrites, Put,
       AfterSave, Finish
  <2>2. pc'[t] # "summary" /\ \A u \in Threads \ {t} : pc'[u] = pc[u]
    BY <1>5, <1>go
  <2> QED BY <2>1, <2>2
<1>6. ASSUME NEW th \in Threads, SaveStep(th) PROVE Batches'
  <2>1. \A u \in Threads \ {th} : buf'[u] = buf[u]
    BY <1>6 DEF SaveStep, Save, SaveOpens, SaveMeta, SaveRange, SaveLine, SaveDone, SaveFails
  <2>2. pc'[th] # "summary" /\ \A u \in Threads \ {th} : pc'[u] = pc[u]
    BY <1>6, <1>save
  <2> QED BY <2>1, <2>2
<1>7. ASSUME NEW th \in Threads, Consolidate(th) PROVE Batches'
  <2>1. CASE ConsolidateEnds(th)
    BY <2>1 DEF ConsolidateEnds, AfterRounds
  <2>2. CASE PickBatch(th)
    BY <2>2, <1>pick
  <2>3. CASE SummaryFails(th)
    BY <2>3 DEF SummaryFails, AfterRounds
  <2>4. CASE Summarised(th)
    BY <2>4 DEF Summarised, Archive
  <2> QED BY <1>7, <2>1, <2>2, <2>3, <2>4 DEF Consolidate
<1>8. CASE Restart
  BY <1>8 DEF Restart
<1>9. CASE UNCHANGED vars
  BY <1>9 DEF vars
<1> QED BY <1>1, <1>2, <1>3, <1>4, <1>5, <1>6, <1>7, <1>8, <1>9, Steps

\* A slice that is not empty ends after its start.
LEMMA SliceNotEmpty ==
    ASSUME NEW q \in Seq(Message), NEW i \in Nat, NEW j \in Nat, j <= Len(q),
           SubSeq(q, i + 1, j) # <<>>
    PROVE  i < j
<1> DEFINE p == SubSeq(q, i + 1, j)
<1>1. p \in Seq(Message) /\ p # <<>> /\ (i < j \/ Len(p) = 0)
  BY SliceType
<1> HIDE DEF p
<1>2. Len(p) # 0
  BY <1>1
<1> QED BY <1>1, <1>2

\* A summary as the conversation has it: with no question open, the messages from
\* the mark to some b go to the archive, and the mark to b.
Summary(b) ==
    /\ \A t \in Turns : ~Asking(t)
    /\ b \in 1 .. Len(Current.msgs) /\ Current.lc < b
    /\ archived' = archived \cup Elems(SubSeq(Current.msgs, Current.lc + 1, b))
    /\ Current'.msgs = Current.msgs /\ Current'.lc = b

\* The batch of a consolidation is one, ...
LEMMA SummarisedIsSummary ==
    ASSUME TypeOK, Places, SerialInv, FreshInv, KeptInv, Batches, ~DiskFaults,
           NEW th \in Threads, Summarised(th)
    PROVE  \E b \in 1 .. Len(Current.msgs) : Summary(b)
<1>0. OneRuns /\ Cached /\ Pending /\ Current.msgs \in Seq(Message) /\ Current.lc \in Nat
  BY CurrentType DEF SerialInv, FreshInv, KeptInv
<1> DEFINE b == span[th]
<1>1. /\ pc[th] = "summary" /\ lock = th /\ cache' = cache
      /\ archived' = archived \cup Elems(buf[th])
  BY DEF Summarised, Archive, At
<1>2. b \in Nat /\ b <= Len(Current.msgs) /\ buf[th] = SubSeq(Current.msgs, Current.lc + 1, b)
      /\ buf[th] # <<>>
  BY <1>0, <1>1, TypeParts DEF Pending, PlaceTypes, MemTypes, Batches
<1>3. Current.lc < b
  BY <1>0, <1>2, SliceNotEmpty
<1>4. Current'.msgs = Current.msgs /\ Current'.lc = b
  BY <1>0, <1>1, SummarisedFacts, MarkCurrent DEF Working
<1>5. \A t \in Turns : ~Asking(t)
  BY <1>0, <1>1, OthersRest, ThreadFacts DEF Asking
<1> HIDE DEF b
<1>6. b \in 1 .. Len(Current.msgs)
  BY <1>0, <1>2, <1>3
<1> QED BY <1>1, <1>2, <1>3, <1>4, <1>5, <1>6 DEF Summary

\* ... and what /new archives is one up to the end.
LEMMA NewArchivedIsSummary ==
    ASSUME TypeOK, Places, SerialInv, FreshInv, KeptInv, Batches, ~DiskFaults, NewArchived
    PROVE  \E b \in 1 .. Len(Current.msgs) : Summary(b)
<1>0. OneRuns /\ Cached /\ Pending /\ Current.msgs \in Seq(Message) /\ Current.lc \in Nat
  BY CurrentType DEF SerialInv, FreshInv, KeptInv
<1> DEFINE b == Len(Current.msgs)
<1>1. /\ pc[Worker] = "summary" /\ lock # Worker /\ cache' = cache
      /\ archived' = archived \cup Elems(buf[Worker])
  BY DEF NewArchived, Archive, At
<1>2. b \in Nat /\ b <= Len(Current.msgs) /\ buf[Worker] # <<>>
      /\ buf[Worker] = SubSeq(Current.msgs, Current.lc + 1, b)
  BY <1>0, <1>1, ThreadFacts DEF Pending, Batches
<1>3. Current.lc < b
  BY <1>0, <1>2, SliceNotEmpty
<1>4. Current'.msgs = Current.msgs /\ Current'.lc = b
  BY <1>0, <1>1, NewArchivedFacts, MarkCurrent, OnCurrent, ThreadFacts DEF Working
<1>5. \A t \in Turns : ~Asking(t)
  BY <1>0, <1>1, OthersRest, ThreadFacts DEF Asking
<1> HIDE DEF b
<1>6. b \in 1 .. Len(Current.msgs)
  BY <1>0, <1>2, <1>3
<1> QED BY <1>1, <1>2, <1>3, <1>4, <1>5, <1>6 DEF Summary

\* What is said is new only where AddMessage says it; while a question is open nothing
\* is forgotten.
LEMMA NextSaid ==
    ASSUME TypeOK, Places, SerialInv, FreshInv, SingleInv, KeptInv, Batches,
           ~DiskFaults, MaxCrashes = 0, \A t \in Turns : ~AddWrites(t), [Next]_vars
    PROVE  /\ Elems(Current'.msgs) \cup archived' \subseteq Elems(Current.msgs) \cup archived
           /\ \/ Current'.msgs = Current.msgs
              \/ Current'.msgs = <<>> /\ \A t \in Turns : ~Asking(t)
<1>0. OneRuns /\ Cached /\ Current.msgs \in Seq(Message) /\ Current.lc \in Nat
  BY CurrentType DEF SerialInv, FreshInv
<1>1. CASE ~Changes
  BY <1>1, NextCurrent, NextArchive
<1>2. ASSUME NEW b \in 1 .. Len(Current.msgs), Summary(b)
      PROVE  /\ Current'.msgs = Current.msgs
             /\ archived' \subseteq Elems(Current.msgs) \cup archived
  <2>1. b \in Nat /\ b <= Len(Current.msgs)
    BY <1>0, <1>2
  <2>2. Elems(SubSeq(Current.msgs, Current.lc + 1, b)) \subseteq Elems(Current.msgs)
    BY <1>0, <2>1, ElemFacts
  <2> QED BY <1>2, <2>2 DEF Summary
<1>3. ASSUME NEW th \in Threads, Summarised(th)
      PROVE  \E b \in 1 .. Len(Current.msgs) : Summary(b)
  BY <1>3, SummarisedIsSummary
<1>4. CASE NewArchived
  BY <1>2, <1>4, NewArchivedIsSummary
<1>5. CASE NewClears
  <2>1. Current'.msgs = <<>> /\ archived' = archived
    BY <1>0, <1>5, ClearCurrent DEF NewClears, memVars
  <2>2. \A t \in Turns : ~Asking(t)
    BY <1>0, <1>5, OthersRest, ThreadFacts DEF NewClears, At, Asking
  <2> QED BY <2>1, <2>2, NoElems
<1> QED BY <1>1, <1>2, <1>3, <1>4, <1>5 DEF Changes

\* What a turn says: its question first, its reply while it asks.
LEMMA TurnSays ==
    ASSUME TypeOK, Places, SerialInv, FreshInv, KeptInv, NEW t \in Turns, AddWrites(t)
    PROVE  /\ turn = t /\ turn' = turn /\ archived' = archived
           /\ Current'.lc = Current.lc /\ Current.msgs \in Seq(Message)
           /\ \A u \in Turns \ {t} : ~Asking(u) /\ ~Asking(u)'
           /\ \/ /\ pc[t] = "putInput" /\ pc'[t] = "addReply"
                 /\ Current'.msgs = Append(Current.msgs, UserMsg(t))
                 /\ Elems(Current'.msgs) = Elems(Current.msgs) \cup {UserMsg(t)}
              \/ /\ pc[t] = "putReply" /\ pc'[t] = "save"
                 /\ Current'.msgs = Append(Current.msgs, ReplyMsg(t))
                 /\ Elems(Current'.msgs) = Elems(Current.msgs) \cup {ReplyMsg(t)}
<1>0. OneRuns /\ Cached /\ Adding /\ Current.msgs \in Seq(Message)
  BY CurrentType DEF SerialInv, FreshInv, KeptInv
<1>1. /\ pc[t] \in {"putInput", "putReply"} /\ turn' = turn /\ archived' = archived
      /\ pc' = [pc EXCEPT ![t] = IF pc[t] = "putInput" THEN "addReply" ELSE "save"]
  BY WriteFacts DEF memVars
<1>2. DOMAIN pc = Threads /\ t \in Threads /\ Turns \subseteq Threads
  BY TypeParts, ThreadFacts DEF PlaceTypes, PcTypes
<1>3. turn = t /\ \A u \in Turns \ {t} : pc[u] \in {"none", "over"}
  BY <1>0, <1>1 DEF OneRuns, Running
<1>4. \A u \in Turns \ {t} : ~Asking(u) /\ ~Asking(u)'
  BY <1>1, <1>2, <1>3 DEF Asking
<1>5. PICK m \in Message :
        /\ m = IF pc[t] = "putInput" THEN UserMsg(t) ELSE ReplyMsg(t)
        /\ Current'.msgs = Append(Current.msgs, m) /\ Current'.lc = Current.lc
        /\ Elems(Current'.msgs) = Elems(Current.msgs) \cup {m}
  BY <1>0, WriteCurrent
<1>6. CASE pc[t] = "putInput"
  <2>1. m = UserMsg(t) /\ pc'[t] = "addReply"
    BY <1>1, <1>2, <1>5, <1>6
  <2> QED BY <1>0, <1>1, <1>3, <1>4, <1>5, <1>6, <2>1
<1>7. CASE pc[t] = "putReply"
  <2>1. m = ReplyMsg(t) /\ pc'[t] = "save"
    BY <1>1, <1>2, <1>5, <1>7
  <2> QED BY <1>0, <1>1, <1>3, <1>4, <1>5, <1>7, <2>1
<1> QED BY <1>1, <1>6, <1>7

\* Appending makes a message the last one.
LEMMA LastFacts ==
    ASSUME NEW q \in Seq(Message), NEW m \in Message
    PROVE  Append(q, m) # <<>> /\ Append(q, m)[Len(Append(q, m))] = m
  OBVIOUS

\* Every step keeps the parts of TalkInv: Asked and Settled,
LEMMA NextAsked ==
    ASSUME TypeOK, Places, SerialInv, FreshInv, SingleInv, KeptInv, TalkInv,
           ~DiskFaults, MaxCrashes = 0, [Next]_vars
    PROVE  Asked' /\ Settled'
<1>0. Asked /\ Settled /\ Batches /\ ~Restart
  BY NoCrash DEF TalkInv
<1>1. CASE \A t \in Turns : ~AddWrites(t)
  <2>1. \A u \in Turns : Asking(u)' <=> Asking(u)
    BY <1>0, <1>1, NextAsking
  <2>2. \/ Current'.msgs = Current.msgs
        \/ Current'.msgs = <<>> /\ \A t \in Turns : ~Asking(t)
    BY <1>0, <1>1, NextSaid
  <2>3. Asked'
    BY <1>0, <2>1, <2>2 DEF Asked
  <2>4. Settled'
    BY <1>0, <2>1, <2>2 DEF Settled
  <2> QED BY <2>3, <2>4
<1>2. ASSUME NEW t \in Turns, AddWrites(t) PROVE Asked' /\ Settled'
  <2>1. /\ Current.msgs \in Seq(Message) /\ \A u \in Turns \ {t} : ~Asking(u)'
        /\ UserMsg(t) \in Message /\ ReplyMsg(t) \in Message
    BY <1>2, TurnSays DEF UserMsg, ReplyMsg, Message
  <2>2. CASE pc[t] = "putInput"
    <3>1. /\ pc'[t] = "addReply" /\ Current'.msgs = Append(Current.msgs, UserMsg(t))
      BY <1>2, <2>2, TurnSays
    <3>2. Asking(t)' /\ Current'.msgs # <<>> /\ Current'.msgs[Len(Current'.msgs)] = UserMsg(t)
      BY <2>1, <3>1, LastFacts DEF Asking
    <3> QED BY <2>1, <3>2 DEF Asked, Settled
  <2>3. CASE pc[t] # "putInput"
    <3>1. /\ pc'[t] = "save" /\ Current'.msgs = Append(Current.msgs, ReplyMsg(t))
      BY <1>2, <2>3, TurnSays
    <3>2. ~Asking(t)' /\ Current'.msgs[Len(Current'.msgs)].role = "assistant"
      BY <2>1, <3>1, LastFacts DEF Asking, ReplyMsg
    <3> QED BY <2>1, <3>2 DEF Asked, Settled
  <2> QED BY <2>2, <2>3
<1> QED BY <1>1, <1>2

\* ... and Past.
LEMMA NextPast ==
    ASSUME TypeOK, Places, SerialInv, FreshInv, SingleInv, KeptInv, TalkInv,
           ~DiskFaults, MaxCrashes = 0, [Next]_vars
    PROVE  Past'
<1>0. Past /\ Batches /\ turn \in Nat
  BY TypeParts, ThreadFacts DEF TalkInv, PlaceTypes, TurnTypes
<1>1. CASE \A t \in Turns : ~AddWrites(t)
  <2> SUFFICES ASSUME NEW m \in Elems(Current'.msgs) \cup archived'
               PROVE  /\ m.turn \in Turns /\ m.turn <= turn'
                      /\ m.turn = turn' => pc'[turn'] \notin BeforeInput
    BY DEF Past
  <2>1. m \in Elems(Current.msgs) \cup archived
    BY <1>0, <1>1, NextSaid
  <2>2. m.turn \in Turns /\ m.turn <= turn /\ (m.turn = turn => pc[turn] \notin BeforeInput)
    BY <1>0, <2>1 DEF Past
  <2>3. (turn' = turn \/ turn' = turn + 1) /\ m.turn \in Nat
    BY <2>2, NextTurn, ThreadFacts
  <2>4. m.turn <= turn' /\ (m.turn = turn' => turn' = turn)
    BY <1>0, <2>2, <2>3
  <2>5. m.turn = turn' => pc'[turn'] \notin BeforeInput
    BY <2>2, <2>4, NextNeverBack DEF NeverBack
  <2> QED BY <2>2, <2>4, <2>5
<1>2. ASSUME NEW t \in Turns, AddWrites(t) PROVE Past'
  <2> SUFFICES ASSUME NEW m \in Elems(Current'.msgs) \cup archived'
               PROVE  /\ m.turn \in Turns /\ m.turn <= turn'
                      /\ m.turn = turn' => pc'[turn'] \notin BeforeInput
    BY DEF Past
  <2>1. turn = t /\ turn' = turn /\ pc'[t] \in {"addReply", "save"}
        /\ (m \in Elems(Current.msgs) \cup archived \/ m \in {UserMsg(t), ReplyMsg(t)})
    BY <1>2, TurnSays
  <2>2. pc'[turn'] \notin BeforeInput
    BY <2>1 DEF BeforeInput
  <2>3. CASE m \in Elems(Current.msgs) \cup archived
    BY <1>0, <2>1, <2>2, <2>3 DEF Past
  <2>4. CASE m \in {UserMsg(t), ReplyMsg(t)}
    BY <1>0, <2>1, <2>2, <2>4 DEF UserMsg, ReplyMsg
  <2> QED BY <2>1, <2>3, <2>4
<1> QED BY <1>1, <1>2

LEMMA TalkInvariant ==
    ASSUME ~StreamsBreak, ~DiskFaults, MaxCrashes = 0
    PROVE  Spec => []TalkInv
<1>1. Init => TalkInv
  <2> SUFFICES ASSUME Init PROVE TalkInv
    OBVIOUS
  <2>1. Current = [msgs |-> <<>>, lc |-> 0] /\ archived = {}
    BY DEF Init, StoreInit, Current, Loaded, NoFile
  <2>2. Asked /\ Batches
    BY ThreadFacts DEF Init, Asked, Asking, Batches
  <2>3. Settled /\ Past
    BY <2>1, NoElems DEF Settled, Past
  <2> QED BY <2>2, <2>3 DEF TalkInv
<1>2. TypeOK /\ Places /\ SerialInv /\ FreshInv /\ SingleInv /\ KeptInv /\ TalkInv /\ [Next]_vars
      => TalkInv'
  BY NextAsked, NextPast, NextBatches DEF TalkInv
<1> QED
  BY <1>1, <1>2, PlacesInvariant, SerialInvariant, FreshInvariant, SingleInvariant,
     KeptInvariant, PTL DEF Spec

\* Every step of the turns is a step of the conversation, or invisible in it.
LEMMA NextDialogue ==
    ASSUME TypeOK, Places, SerialInv, FreshInv, SingleInv, KeptInv, TalkInv,
           ~DiskFaults, MaxCrashes = 0, [Next]_vars
    PROVE  [Dialogue!Next]_(Dialogue!vars)
<1>0. /\ Asked /\ Settled /\ Past /\ Batches /\ OneRuns /\ Cached /\ KeptInv
      /\ Current.msgs \in Seq(Message) /\ Current.lc \in Nat /\ turn \in Nat
  BY CurrentType, TypeParts, ThreadFacts
     DEF TalkInv, SerialInv, FreshInv, PlaceTypes, TurnTypes
<1>1. CASE ~Changes
  <2>1. Current'.msgs = Current.msgs /\ Current'.lc = Current.lc /\ archived' = archived
    BY <1>1, NextCurrent, NextArchive
  <2> QED BY <2>1 DEF Dialogue!vars
<1>2. ASSUME NEW t \in Turns, AddWrites(t) PROVE Dialogue!Next
  <2>1. /\ turn = t /\ archived' = archived /\ Current'.lc = Current.lc
        /\ \A u \in Turns \ {t} : ~Asking(u)
    BY <1>2, TurnSays
  <2>2. CASE pc[t] = "putInput"
    <3>1. Current'.msgs = Append(Current.msgs, UserMsg(t))
      BY <1>2, <2>2, TurnSays
    <3>2. \A u \in Turns : ~Asking(u)
      BY <2>1, <2>2 DEF Asking
    <3>3. Current.msgs = <<>> \/ Current.msgs[Len(Current.msgs)].role = "assistant"
      BY <1>0, <3>2 DEF Settled
    <3>4. ASSUME NEW m \in Elems(Current.msgs) \cup archived PROVE m.turn < t
      <4>1. pc[turn] \in BeforeInput /\ turn \in Nat
        BY <1>0, <2>1, <2>2 DEF BeforeInput
      <4>2. m.turn \in Turns /\ m.turn <= turn /\ m.turn # turn
        BY <1>0, <4>1 DEF Past
      <4>3. m.turn \in Nat
        BY <4>2, ThreadFacts
      <4> QED BY <2>1, <4>1, <4>2, <4>3
    <3>5. Dialogue!Ask(t)
      BY <2>1, <3>1, <3>3, <3>4
         DEF Dialogue!Ask, Dialogue!Whole, Dialogue!Said, Dialogue!Question, Elems, UserMsg
    <3> QED BY <3>5 DEF Dialogue!Next
  <2>3. CASE pc[t] # "putInput"
    <3>1. pc[t] = "putReply" /\ Current'.msgs = Append(Current.msgs, ReplyMsg(t))
      BY <1>2, <2>3, TurnSays
    <3>2. Current.msgs # <<>> /\ Current.msgs[Len(Current.msgs)] = UserMsg(t)
      BY <1>0, <3>1 DEF Asked, Asking
    <3>3. Dialogue!Answer(t)
      BY <2>1, <3>1, <3>2
         DEF Dialogue!Answer, Dialogue!Question, Dialogue!Reply, UserMsg, ReplyMsg
    <3> QED BY <3>3 DEF Dialogue!Next
  <2> QED BY <2>2, <2>3
<1>3. ASSUME NEW b \in 1 .. Len(Current.msgs), Summary(b) PROVE Dialogue!Next
  <2>1. Current.msgs = <<>> \/ Current.msgs[Len(Current.msgs)].role = "assistant"
    BY <1>0, <1>3 DEF Settled, Summary
  <2>2. Dialogue!Summarise(b)
    BY <1>3, <2>1 DEF Summary, Dialogue!Summarise, Dialogue!Whole, Dialogue!Said, Elems
  <2> QED BY <2>2 DEF Dialogue!Next
<1>4. ASSUME NEW th \in Threads, Summarised(th) PROVE Dialogue!Next
  BY <1>0, <1>3, <1>4, SummarisedIsSummary
<1>5. CASE NewArchived
  BY <1>0, <1>3, <1>5, NewArchivedIsSummary
<1>6. CASE NewClears
  <2>1. /\ Current'.msgs = <<>> /\ Current'.lc = 0 /\ archived' = archived
        /\ pc[Worker] = "clear"
    BY <1>0, <1>6, ClearCurrent DEF NewClears, memVars, At
  <2>2. Current.lc = Len(Current.msgs)
    BY <1>0, <2>1 DEF KeptInv, Pending
  <2>3. \A t \in Turns : ~Asking(t)
    BY <1>0, <2>1, OthersRest, ThreadFacts DEF Asking
  <2>4. Dialogue!Clear
    BY <1>0, <2>1, <2>2, <2>3 DEF Settled, Dialogue!Clear, Dialogue!Whole
  <2> QED BY <2>4 DEF Dialogue!Next
<1> QED BY <1>1, <1>2, <1>4, <1>5, <1>6 DEF Changes

\* To its user the session is one conversation: every question has its answer directly
\* after it, the mark covers what is archived, and /new forgets only that.
THEOREM SessionIsConversation ==
    ASSUME ~StreamsBreak, ~DiskFaults, MaxCrashes = 0
    PROVE  Spec => ImplementsConversation
<1>1. Init => Dialogue!Init
  BY DEF Init, StoreInit, Current, Loaded, NoFile, Dialogue!Init
<1>2. TypeOK /\ Places /\ SerialInv /\ FreshInv /\ SingleInv /\ KeptInv /\ TalkInv /\ [Next]_vars
      => [Dialogue!Next]_(Dialogue!vars)
  BY NextDialogue
<1> QED
  BY <1>1, <1>2, PlacesInvariant, SerialInvariant, FreshInvariant, SingleInvariant,
     KeptInvariant, TalkInvariant, PTL DEF Spec, ImplementsConversation, Dialogue!Spec
=============================================================================
