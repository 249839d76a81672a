--------------------------- MODULE ChatTurnsProofs ---------------------------
(***************************************************************************)
(* Proofs about ChatTurns, for any number of turns, commands and crashes:  *)
(* types, what activeTasks lists, serial turns, and what /new clears.      *)
(***************************************************************************)
EXTENDS ChatTurns, SequenceTheorems, TLAPS

-----------------------------------------------------------------------------
(* Where threads are and what they hold.                                   *)

UserStep   == BeginTurn \/ BeginNew \/ SendStop \/ HandleStop
StreamStep == StreamFails \/ StreamOpens \/ ReadEnds
FetchStep  == FetchSession \/ NewFetches
NewStep    == \/ NewArchives \/ NewArchiveFails \/ NewArchived
              \/ NewClears \/ NewSucceeds \/ NewSaveFails
GoStep(t)  == \/ StreamEnds(t) \/ StreamBreaks(t) \/ Collect(t) \/ AddReads(t) \/ AddWrites(t)
              \/ AfterSave(t) \/ Finish(t)

\* A thread at work has an object.
ObjOK == \A th \in Threads :
    pc[th] \notin {"idle", "fetch", "newFetch", "none", "over"} => obj[th] # 0
\* The manager's mutex is held by the thread that is inside Save, and by no other.
MuOK == \A th \in Threads : pc[th] \in {"meta", "range", "lines"} <=> mu = th
\* The consolidator's lock is held inside a consolidation only; a turn's summary is
\* always under it, the worker's may be that of /new.
LockOK == \A th \in Threads :
    /\ lock = th => pc[th] \in {"consolidate", "summary"}
    /\ th # Worker /\ pc[th] = "summary" => lock = th
\* The worker is in the synchronous half of a turn.
Preparing ==
    \/ pc[Worker] \in {"fetch", "consolidate", "prompt"}
    \/ pc[Worker] = "summary" /\ lock = Worker
\* Turns begin in order, and the one being prepared has no goroutine yet.
TurnOK ==
    /\ \A t \in Turns : t > turn => pc[t] = "none"
    /\ \A t \in Turns : pc[t] = "none" => pipe[t] = "open"
    /\ Preparing => turn # 0 /\ pc[turn] = "none"
    /\ pc[Worker] = "reading" => turn # 0
\* A slice is read only between two steps of one operation.
BufOK == \A th \in Threads :
    pc[th] \notin {"putInput", "putReply", "lines", "summary"} => buf[th] = <<>>
\* Where threads are says what they hold.
Places == ObjOK /\ MuOK /\ LockOK /\ TurnOK /\ BufOK

\* TypeOK in parts, so that each step disturbs few of them.
StoreTypes ==
    /\ heap \in Seq(Session) /\ cache \in 0..Len(heap)
    /\ file \in File
    /\ obj \in [Threads -> 0..Len(heap)]
    /\ buf \in [Threads -> Seq(Message)]
PcTypes ==
    DOMAIN pc = Threads /\ pc[Worker] \in WorkerPcs /\ \A t \in Turns : pc[t] \in TurnPcs
TurnTypes ==
    /\ mu \in Threads \cup {Nobody} /\ lock \in Threads \cup {Nobody}
    /\ turn \in Threads /\ active \in Threads /\ retried \in BOOLEAN
    /\ cancelled \subseteq Turns /\ recorded \subseteq Turns
    /\ pipe \in [Turns -> {"open", "error", "closed"}]
    /\ fresh \in Threads
MemTypes == span \in [Threads -> Nat] /\ archived \subseteq Message
BoundTypes ==
    /\ stopSent \in BOOLEAN
    /\ news \in 0..MaxNews /\ stops \in 0..MaxStops /\ crashes \in 0..MaxCrashes
PlaceTypes == PcTypes /\ TurnTypes /\ MemTypes /\ BoundTypes

\* The parts are TypeOK.
LEMMA TypeParts == TypeOK <=> StoreTypes /\ PlaceTypes
  BY DEF TypeOK, StoreTypes, PlaceTypes, PcTypes, TurnTypes, MemTypes, BoundTypes

\* The worker is no turn; threads are numbers.
LEMMA ThreadFacts ==
    /\ MaxTurns \in Nat \ {0}
    /\ Threads = {Worker} \cup Turns /\ Worker \notin Turns /\ Worker \in Threads
    /\ Turns \subseteq Nat /\ Turns \subseteq Threads /\ Threads \subseteq Nat
    /\ Nobody \notin Threads /\ Worker = 0
    /\ \A t \in Threads : t < MaxTurns => t + 1 \in Turns
  BY MaxTurnsNat DEF Threads, Turns, Worker, Nobody

\* The bounds are numbers.
LEMMA BoundFacts == MaxNews \in Nat /\ MaxStops \in Nat /\ MaxCrashes \in Nat
  BY BoundsNat

\* What an assignment to Messages does to the heap.
LEMMA SetMsgs ==
    ASSUME heap \in Seq(Session), NEW o \in 1 .. Len(heap), NEW q \in Seq(Message),
           heap' = [heap EXCEPT ![o].msgs = q]
    PROVE  /\ heap' \in Seq(Session) /\ Len(heap') = Len(heap)
           /\ heap'[o].msgs = q /\ heap'[o].lc = heap[o].lc
           /\ \A i \in 1 .. Len(heap) : i # o => heap'[i] = heap[i]
<1> DEFINE s == [heap[o] EXCEPT !.msgs = q]
<1>1. heap[o] \in Session
  OBVIOUS
<1>2. s \in Session /\ s.msgs = q /\ s.lc = heap[o].lc
  BY <1>1 DEF Session
<1> HIDE DEF s
<1>3. heap' = [heap EXCEPT ![o] = s]
  BY DEF s
<1> QED BY <1>2, <1>3

\* What an assignment to LastConsolidated does to the heap.
LEMMA SetLc ==
    ASSUME heap \in Seq(Session), NEW o \in 1 .. Len(heap), NEW n \in Nat,
           heap' = [heap EXCEPT ![o].lc = n]
    PROVE  /\ heap' \in Seq(Session) /\ Len(heap') = Len(heap)
           /\ heap'[o].msgs = heap[o].msgs /\ heap'[o].lc = n
           /\ \A i \in 1 .. Len(heap) : i # o => heap'[i] = heap[i]
<1> DEFINE s == [heap[o] EXCEPT !.lc = n]
<1>1. heap[o] \in Session
  OBVIOUS
<1>2. s \in Session /\ s.lc = n /\ s.msgs = heap[o].msgs
  BY <1>1 DEF Session
<1> HIDE DEF s
<1>3. heap' = [heap EXCEPT ![o] = s]
  BY DEF s
<1> QED BY <1>2, <1>3

\* What replacing an object does to the heap.
LEMMA SetObject ==
    ASSUME heap \in Seq(Session), NEW o \in 1 .. Len(heap), NEW s \in Session,
           heap' = [heap EXCEPT ![o] = s]
    PROVE  /\ heap' \in Seq(Session) /\ Len(heap') = Len(heap)
           /\ heap'[o] = s
           /\ \A i \in 1 .. Len(heap) : i # o => heap'[i] = heap[i]
  OBVIOUS

\* What writing a line does to the file.
LEMMA FileLine ==
    ASSUME file \in File, NEW m \in Message, file' = [file EXCEPT !.msgs = Append(@, m)]
    PROVE  file' \in File /\ file'.msgs = Append(file.msgs, m)
           /\ file'.lc = file.lc /\ file'.meta = file.meta
<1>1. Append(file.msgs, m) \in Seq(Message)
  BY DEF File
<1> DEFINE q == Append(file.msgs, m)
<1> HIDE DEF q
<1>2. q \in Seq(Message) /\ file' = [file EXCEPT !.msgs = q]
  BY <1>1 DEF q
<1>3. file'.msgs = q /\ file'.lc = file.lc /\ file'.meta = file.meta /\ file' \in File
  BY <1>2 DEF File
<1> QED BY <1>3 DEF q

\* load returns a session.
LEMMA LoadedType ==
    ASSUME file \in File
    PROVE  Loaded(file) \in Session
  BY DEF File, Session, Loaded

\* A slice of a conversation and its elements.
LEMMA SliceType ==
    ASSUME NEW q \in Seq(Message), NEW i \in Nat, NEW j \in Nat, j <= Len(q)
    PROVE  /\ SubSeq(q, i + 1, j) \in Seq(Message)
           /\ Len(SubSeq(q, i + 1, j)) = IF i < j THEN j - i ELSE 0
           /\ \A k \in 1 .. Len(SubSeq(q, i + 1, j)) : SubSeq(q, i + 1, j)[k] = q[i + k]
  BY SMTT(40)

\* Every step is one of these.
LEMMA Steps ==
    ASSUME [Next]_vars
    PROVE  \/ UserStep \/ StreamStep \/ FetchStep \/ NewStep
           \/ \E t \in Turns : GoStep(t)
           \/ \E th \in Threads : SaveStep(th) \/ Consolidate(th)
           \/ Restart \/ UNCHANGED vars
  BY ThreadFacts DEF Next, WorkerStep, ServiceStep, TurnStep, UserStep, StreamStep, FetchStep,
     NewStep, GoStep

\* The turn whose stream opens is new, and takes over the worker's object.
LEMMA OpensFacts ==
    ASSUME TypeOK, Places, StreamOpens
    PROVE  /\ turn \in Turns /\ pc[turn] = "none" /\ pipe[turn] = "open" /\ pc[Worker] = "prompt"
           /\ DOMAIN pc' = Threads /\ pc'[Worker] = "reading" /\ pc'[turn] = "stream"
           /\ \A th \in Threads \ {Worker, turn} : pc'[th] = pc[th]
           /\ obj' \in [Threads -> 0 .. Len(heap)] /\ obj'[turn] = obj[Worker] /\ obj[Worker] # 0
           /\ \A th \in Threads \ {turn} : obj'[th] = obj[th]
           /\ UNCHANGED <<heap, cache, file, mu, buf, turnVars, memVars, cmdVars>>
<1>1. turn \in Turns /\ pc[turn] = "none" /\ pipe[turn] = "open" /\ obj[Worker] # 0
  BY TypeParts, ThreadFacts DEF StreamOpens, At, Places, TurnOK, ObjOK, Preparing,
     PlaceTypes, PcTypes, TurnTypes
<1> QED
  BY <1>1, TypeParts, ThreadFacts
     DEF StreamOpens, At, PlaceTypes, PcTypes, TurnTypes, MemTypes, StoreTypes, turnVars, memVars, cmdVars

\* GetOrCreate returns the cached object, after adding it if there was none.
LEMMA FetchFacts ==
    ASSUME TypeOK, NEW th \in Threads, Fetch(th)
    PROVE  /\ mu = Nobody /\ UNCHANGED <<file, mu, buf>>
           /\ cache' \in 1 .. Len(heap') /\ obj' = [obj EXCEPT ![th] = cache']
           /\ heap' \in Seq(Session) /\ Len(heap) <= Len(heap')
           /\ \A i \in 1 .. Len(heap) : heap'[i] = heap[i]
           /\ IF cache # 0 THEN heap' = heap /\ cache' = cache
              ELSE Len(heap') = Len(heap) + 1 /\ heap'[Len(heap')] = Loaded(file)
                   /\ cache' = Len(heap')
<1>0. StoreTypes
  BY TypeParts
<1>1. CASE cache # 0
  BY <1>0, <1>1 DEF Fetch, StoreTypes
<1>2. CASE cache = 0
  <2> DEFINE s == Loaded(file)
  <2>1. s \in Session
    BY <1>0, LoadedType DEF StoreTypes
  <2>2. /\ mu = Nobody /\ UNCHANGED <<file, mu, buf>>
        /\ heap' = Append(heap, s) /\ cache' = Len(heap')
        /\ obj' = [obj EXCEPT ![th] = Len(heap')]
    BY <1>2 DEF Fetch
  <2> HIDE DEF s
  <2>3. heap \in Seq(Session)
    BY <1>0 DEF StoreTypes
  <2>4. /\ heap' \in Seq(Session) /\ Len(heap') = Len(heap) + 1 /\ heap'[Len(heap')] = s
        /\ \A i \in 1 .. Len(heap) : heap'[i] = heap[i]
    BY <2>1, <2>2, <2>3
  <2>5. Len(heap) \in Nat
    BY <2>3
  <2>6. /\ cache' \in 1 .. Len(heap') /\ Len(heap) <= Len(heap')
        /\ obj' = [obj EXCEPT ![th] = cache'] /\ cache' = Len(heap')
    BY <2>2, <2>4, <2>5
  <2> QED BY <1>2, <2>2, <2>4, <2>6 DEF s
<1> QED BY <1>1, <1>2

\* The object of a thread that works on one.
LEMMA SessType ==
    ASSUME TypeOK, Places, NEW th \in Threads,
           pc[th] \notin {"idle", "fetch", "newFetch", "none", "over"}
    PROVE  /\ obj[th] \in 1 .. Len(heap) /\ Sess(th) = heap[obj[th]] /\ Sess(th) \in Session
           /\ Sess(th).msgs \in Seq(Message) /\ Sess(th).lc \in Nat /\ heap \in Seq(Session)
           /\ buf[th] \in Seq(Message) /\ span[th] \in Nat /\ file \in File
<1>1. obj[th] \in 1 .. Len(heap) /\ heap \in Seq(Session) /\ buf[th] \in Seq(Message)
      /\ span[th] \in Nat /\ file \in File
  BY TypeParts DEF StoreTypes, PlaceTypes, MemTypes, Places, ObjOK
<1>2. heap[obj[th]] \in Session
  BY <1>1
<1> QED BY <1>1, <1>2 DEF Sess, Session

\* AddMessage writes what was read, and the message.
LEMMA WriteFacts ==
    ASSUME TypeOK, Places, NEW t \in Turns, AddWrites(t)
    PROVE  LET m == IF pc[t] = "putInput" THEN UserMsg(t) ELSE ReplyMsg(t) IN
           /\ pc[t] \in {"putInput", "putReply"} /\ m \in Message
           /\ pc' = [pc EXCEPT ![t] = IF pc[t] = "putInput" THEN "addReply" ELSE "save"]
           /\ recorded' = IF pc[t] = "putInput" THEN recorded ELSE recorded \cup {t}
           /\ heap' \in Seq(Session) /\ Len(heap') = Len(heap) /\ obj[t] \in 1 .. Len(heap)
           /\ heap'[obj[t]].msgs = Append(buf[t], m) /\ heap'[obj[t]].lc = heap[obj[t]].lc
           /\ \A i \in 1 .. Len(heap) : i # obj[t] => heap'[i] = heap[i]
           /\ buf' = [buf EXCEPT ![t] = <<>>] /\ buf[t] \in Seq(Message)
           /\ UNCHANGED <<cache, file, mu, obj, turn, retried, active, cancelled, pipe,
                          memVars, cmdVars>>
<1> DEFINE m == IF pc[t] = "putInput" THEN UserMsg(t) ELSE ReplyMsg(t)
<1>1. /\ pc[t] \in {"putInput", "putReply"}
      /\ pc' = [pc EXCEPT ![t] = IF pc[t] = "putInput" THEN "addReply" ELSE "save"]
      /\ recorded' = IF pc[t] = "putInput" THEN recorded ELSE recorded \cup {t}
      /\ heap' = [heap EXCEPT ![obj[t]].msgs = Append(buf[t], m)]
      /\ buf' = [buf EXCEPT ![t] = <<>>]
      /\ UNCHANGED <<cache, file, mu, obj, turn, retried, active, cancelled, pipe,
                     memVars, cmdVars>>
  BY DEF AddWrites, Put, At, Goto
<1>2. m \in Message
  BY DEF Message, UserMsg, ReplyMsg
<1> HIDE DEF m
<1>3. obj[t] \in 1 .. Len(heap) /\ heap \in Seq(Session) /\ buf[t] \in Seq(Message)
  BY <1>1, SessType, ThreadFacts
<1>4. Append(buf[t], m) \in Seq(Message)
  BY <1>2, <1>3
<1>5. /\ heap' \in Seq(Session) /\ Len(heap') = Len(heap)
      /\ heap'[obj[t]].msgs = Append(buf[t], m) /\ heap'[obj[t]].lc = heap[obj[t]].lc
      /\ \A i \in 1 .. Len(heap) : i # obj[t] => heap'[i] = heap[i]
  BY <1>1, <1>3, <1>4, SetMsgs
<1> QED BY <1>1, <1>2, <1>3, <1>5 DEF m

\* Only LastConsolidated of the object changes.
MarkMoves(th, n) ==
    /\ heap' \in Seq(Session) /\ Len(heap') = Len(heap) /\ obj[th] \in 1 .. Len(heap)
    /\ heap'[obj[th]].msgs = heap[obj[th]].msgs /\ heap'[obj[th]].lc = n
    /\ \A i \in 1 .. Len(heap) : i # obj[th] => heap'[i] = heap[i]

\* A summary moves the mark to the end of its batch.
LEMMA SummarisedFacts ==
    ASSUME TypeOK, Places, NEW th \in Threads, Summarised(th)
    PROVE  MarkMoves(th, span[th])
<1>1. obj[th] \in 1 .. Len(heap) /\ heap \in Seq(Session) /\ span[th] \in Nat
  BY SessType DEF Summarised, At
<1> QED BY <1>1, SetLc DEF Summarised, MarkMoves

\* The archive of /new moves the mark to the end of the session.
LEMMA NewArchivedFacts ==
    ASSUME TypeOK, Places, NewArchived
    PROVE  MarkMoves(Worker, Len(Sess(Worker).msgs))
<1>1. obj[Worker] \in 1 .. Len(heap) /\ heap \in Seq(Session) /\ Sess(Worker).msgs \in Seq(Message)
  BY SessType, ThreadFacts DEF NewArchived, At
<1> DEFINE n == Len(Sess(Worker).msgs)
<1>2. n \in Nat /\ heap' = [heap EXCEPT ![obj[Worker]].lc = n]
  BY <1>1 DEF NewArchived
<1> HIDE DEF n
<1>3. MarkMoves(Worker, n)
  BY <1>1, <1>2, SetLc DEF MarkMoves
<1> QED BY <1>3 DEF n

\* Clear empties the object.
LEMMA NewClearsFacts ==
    ASSUME TypeOK, Places, NewClears
    PROVE  /\ heap' \in Seq(Session) /\ Len(heap') = Len(heap) /\ obj[Worker] \in 1 .. Len(heap)
           /\ heap'[obj[Worker]] = [msgs |-> <<>>, lc |-> 0]
           /\ \A i \in 1 .. Len(heap) : i # obj[Worker] => heap'[i] = heap[i]
<1>1. obj[Worker] \in 1 .. Len(heap) /\ heap \in Seq(Session)
  BY SessType, ThreadFacts DEF NewClears, At
<1>2. [msgs |-> <<>>, lc |-> 0] \in Session
  BY DEF Session
<1> QED BY <1>1, <1>2, SetObject DEF NewClears

\* A batch lies in the session.
LEMMA BatchFacts ==
    ASSUME TypeOK, Places, NEW th \in Threads, PickBatch(th)
    PROVE  \E b \in Boundaries(Sess(th)) :
              /\ span' = [span EXCEPT ![th] = b]
              /\ buf' = [buf EXCEPT ![th] = SubSeq(Sess(th).msgs, Sess(th).lc + 1, b)]
              /\ b \in Nat /\ b <= Len(Sess(th).msgs)
              /\ SubSeq(Sess(th).msgs, Sess(th).lc + 1, b) \in Seq(Message)
<1>1. PICK b \in Boundaries(Sess(th)) :
        /\ span' = [span EXCEPT ![th] = b]
        /\ buf' = [buf EXCEPT ![th] = SubSeq(Sess(th).msgs, Sess(th).lc + 1, b)]
  BY DEF PickBatch
<1>2. Sess(th).msgs \in Seq(Message) /\ Sess(th).lc \in Nat
  BY SessType DEF PickBatch, At
<1>3. b \in Nat /\ b <= Len(Sess(th).msgs)
  BY <1>1, <1>2 DEF Boundaries
<1>4. SubSeq(Sess(th).msgs, Sess(th).lc + 1, b) \in Seq(Message)
  BY <1>2, <1>3, SliceType
<1> QED BY <1>1, <1>3, <1>4

\* What /new archives is a slice of the session.
LEMMA RestFacts ==
    ASSUME TypeOK, Places, NewArchives
    PROVE  /\ Sess(Worker).lc <= Len(Sess(Worker).msgs)
           /\ SubSeq(Sess(Worker).msgs, Sess(Worker).lc + 1, Len(Sess(Worker).msgs)) \in Seq(Message)
<1>1. Sess(Worker).msgs \in Seq(Message) /\ Sess(Worker).lc \in Nat
      /\ Sess(Worker).lc <= Len(Sess(Worker).msgs)
  BY SessType, ThreadFacts DEF NewArchives, At
<1> QED BY <1>1, SliceType

\* Every step keeps the parts of TypeOK: the places,
LEMMA NextPcTypes ==
    ASSUME TypeOK, Places, [Next]_vars
    PROVE  PcTypes'
<1>0. PlaceTypes /\ StoreTypes /\ Places
  BY TypeParts
<1> USE <1>0, ThreadFacts DEF Places, PlaceTypes, Goto, At, turnVars, memVars, cmdVars,
    storeVars, PcTypes, WorkerPcs, TurnPcs, SavePcs, TurnOK
<1>1. CASE UserStep
  BY <1>1 DEF UserStep, BeginTurn, BeginNew, SendStop, HandleStop
<1>2. CASE StreamStep
  <2>1. CASE StreamOpens
    BY <2>1, OpensFacts
  <2>2. CASE StreamFails
    BY <2>2 DEF StreamFails
  <2>3. CASE ReadEnds
    BY <2>3 DEF ReadEnds
  <2> QED BY <1>2, <2>1, <2>2, <2>3 DEF StreamStep
<1>3. CASE FetchStep
  BY <1>3 DEF FetchStep, FetchSession, NewFetches, Fetch
<1>4. CASE NewStep
  BY <1>4 DEF NewStep, NewArchives, NewArchiveFails, NewArchived, NewClears, NewSucceeds,
     NewSaveFails, Forget, Archive
<1>5. ASSUME NEW t \in Turns, GoStep(t) PROVE PcTypes'
  BY <1>5 DEF GoStep, StreamEnds, StreamBreaks, Collect, AddReads, AddWrites, Put,
     AfterSave, Finish
<1>6. ASSUME NEW th \in Threads, SaveStep(th) PROVE PcTypes'
  BY <1>6 DEF SaveStep, Save, SaveOpens, SaveMeta, SaveRange, SaveLine, SaveDone, SaveFails
<1>7. ASSUME NEW th \in Threads, Consolidate(th) PROVE PcTypes'
  BY <1>7 DEF Consolidate, ConsolidateEnds, PickBatch, SummaryFails, Summarised,
     AfterRounds, Archive
<1>8. CASE Restart
  BY <1>8 DEF Restart, StoreCrash
<1>9. CASE UNCHANGED vars
  BY <1>9 DEF vars
<1> QED BY <1>1, <1>2, <1>3, <1>4, <1>5, <1>6, <1>7, <1>8, <1>9, Steps

\* ... the turns,
LEMMA NextTurnTypes ==
    ASSUME TypeOK, Places, [Next]_vars
    PROVE  TurnTypes'
<1>0. PlaceTypes /\ StoreTypes /\ Places
  BY TypeParts
<1> USE <1>0, ThreadFacts DEF Places, PlaceTypes, Goto, At, turnVars, memVars, cmdVars,
    storeVars, TurnTypes, TurnOK
<1>1. CASE UserStep
  <2>1. CASE BeginTurn
    BY <2>1 DEF BeginTurn
  <2>2. CASE BeginNew \/ SendStop \/ HandleStop
    BY <2>2 DEF BeginNew, SendStop, HandleStop
  <2> QED BY <1>1, <2>1, <2>2 DEF UserStep
<1>2. CASE StreamStep
  <2>1. CASE StreamOpens
    BY <2>1, OpensFacts
  <2>2. CASE StreamFails
    BY <2>2 DEF StreamFails
  <2>3. CASE ReadEnds
    BY <2>3 DEF ReadEnds
  <2> QED BY <1>2, <2>1, <2>2, <2>3 DEF StreamStep
<1>3. CASE FetchStep
  BY <1>3 DEF FetchStep, FetchSession, NewFetches, Fetch
<1>4. CASE NewStep
  BY <1>4 DEF NewStep, NewArchives, NewArchiveFails, NewArchived, NewClears, NewSucceeds,
     NewSaveFails, Forget, Archive
<1>5. ASSUME NEW t \in Turns, GoStep(t) PROVE TurnTypes'
  <2>1. CASE StreamEnds(t)
    BY <2>1 DEF StreamEnds
  <2>2. CASE StreamBreaks(t)
    BY <2>2 DEF StreamBreaks
  <2>3. CASE Collect(t)
    BY <2>3 DEF Collect
  <2>4. CASE AddReads(t)
    BY <2>4, SessType DEF AddReads
  <2>5. CASE AddWrites(t)
    BY <2>5 DEF AddWrites, Put
  <2>6. CASE AfterSave(t)
    BY <2>6 DEF AfterSave
  <2>7. CASE Finish(t)
    BY <2>7 DEF Finish
  <2> QED BY <1>5, <2>1, <2>2, <2>3, <2>4, <2>5, <2>6, <2>7 DEF GoStep
<1>6. ASSUME NEW th \in Threads, SaveStep(th) PROVE TurnTypes'
  BY <1>6 DEF SaveStep, Save, SaveOpens, SaveMeta, SaveRange, SaveLine, SaveDone, SaveFails
<1>7. ASSUME NEW th \in Threads, Consolidate(th) PROVE TurnTypes'
  BY <1>7 DEF Consolidate, ConsolidateEnds, PickBatch, SummaryFails, Summarised,
     AfterRounds, Archive
<1>8. CASE Restart
  BY <1>8 DEF Restart, StoreCrash
<1>9. CASE UNCHANGED vars
  BY <1>9 DEF vars
<1> QED BY <1>1, <1>2, <1>3, <1>4, <1>5, <1>6, <1>7, <1>8, <1>9, Steps

\* ... the consolidator,
LEMMA NextMemTypes ==
    ASSUME TypeOK, Places, [Next]_vars
    PROVE  MemTypes'
<1>0. PlaceTypes /\ StoreTypes /\ Places
  BY TypeParts
<1> USE <1>0, ThreadFacts DEF Places, PlaceTypes, Goto, At, turnVars, memVars, cmdVars,
    storeVars, MemTypes
<1>1. CASE UserStep
  BY <1>1 DEF UserStep, BeginTurn, BeginNew, SendStop, HandleStop
<1>2. CASE StreamStep
  <2>1. CASE StreamOpens
    BY <2>1, OpensFacts
  <2>2. CASE StreamFails
    BY <2>2 DEF StreamFails
  <2>3. CASE ReadEnds
    BY <2>3 DEF ReadEnds
  <2> QED BY <1>2, <2>1, <2>2, <2>3 DEF StreamStep
<1>3. CASE FetchStep
  BY <1>3 DEF FetchStep, FetchSession, NewFetches, Fetch
<1>4. CASE NewStep
  <2>1. CASE NewArchives
    BY <2>1, RestFacts DEF NewArchives
  <2>2. CASE NewArchiveFails
    BY <2>2 DEF NewArchiveFails
  <2>3. CASE NewArchived
    <3>1. archived' \subseteq Message
      BY <2>3, SessType DEF NewArchived, Archive, Elems, At
    <3> QED BY <2>3, <3>1 DEF NewArchived
  <2>4. CASE NewClears
    BY <2>4, NewClearsFacts DEF NewClears
  <2>5. CASE NewSucceeds
    BY <2>5 DEF NewSucceeds, Forget
  <2>6. CASE NewSaveFails
    BY <2>6 DEF NewSaveFails
  <2> QED BY <1>4, <2>1, <2>2, <2>3, <2>4, <2>5, <2>6 DEF NewStep
<1>5. ASSUME NEW t \in Turns, GoStep(t) PROVE MemTypes'
  <2>1. CASE StreamEnds(t)
    BY <2>1 DEF StreamEnds
  <2>2. CASE StreamBreaks(t)
    BY <2>2 DEF StreamBreaks
  <2>3. CASE Collect(t)
    BY <2>3 DEF Collect
  <2>4. CASE AddReads(t)
    BY <2>4, SessType DEF AddReads
  <2>5. CASE AddWrites(t)
    BY <2>5, WriteFacts
  <2>6. CASE AfterSave(t)
    BY <2>6 DEF AfterSave
  <2>7. CASE Finish(t)
    BY <2>7 DEF Finish
  <2> QED BY <1>5, <2>1, <2>2, <2>3, <2>4, <2>5, <2>6, <2>7 DEF GoStep
<1>6. ASSUME NEW th \in Threads, SaveStep(th) PROVE MemTypes'
  BY <1>6 DEF SaveStep, Save, SaveOpens, SaveMeta, SaveRange, SaveLine, SaveDone, SaveFails
<1>7. ASSUME NEW th \in Threads, Consolidate(th) PROVE MemTypes'
  <2>1. CASE ConsolidateEnds(th)
    BY <2>1 DEF ConsolidateEnds, AfterRounds
  <2>2. CASE PickBatch(th)
    <3>1. PICK b \in Nat : span' = [span EXCEPT ![th] = b]
      BY <2>2, BatchFacts
    <3> QED BY <2>2, <3>1 DEF PickBatch
  <2>3. CASE SummaryFails(th)
    BY <2>3 DEF SummaryFails, AfterRounds
  <2>4. CASE Summarised(th)
    <3>1. archived' \subseteq Message
      BY <2>4, SessType DEF Summarised, Archive, Elems, At
    <3> QED BY <2>4, <3>1 DEF Summarised
  <2> QED BY <1>7, <2>1, <2>2, <2>3, <2>4 DEF Consolidate
<1>8. CASE Restart
  BY <1>8 DEF Restart, StoreCrash
<1>9. CASE UNCHANGED vars
  BY <1>9 DEF vars
<1> QED BY <1>1, <1>2, <1>3, <1>4, <1>5, <1>6, <1>7, <1>8, <1>9, Steps

\* ... the counters,
LEMMA NextBoundTypes ==
    ASSUME TypeOK, Places, [Next]_vars
    PROVE  BoundTypes'
<1>0. PlaceTypes /\ StoreTypes /\ Places
  BY TypeParts
<1> USE <1>0, BoundFacts DEF Places, PlaceTypes, Goto, At, turnVars, memVars, cmdVars,
    storeVars, BoundTypes
<1>1. CASE UserStep
  <2>1. CASE BeginTurn
    BY <2>1 DEF BeginTurn
  <2>2. CASE BeginNew
    <3>1. news' = news + 1 /\ news < MaxNews /\ UNCHANGED <<stopSent, stops, crashes>>
      BY <2>2 DEF BeginNew
    <3> QED BY <3>1
  <2>3. CASE SendStop
    <3>1. stops' = stops + 1
      BY <2>3 DEF SendStop
    <3>2. stops < MaxStops
      BY <2>3 DEF SendStop
    <3>3. UNCHANGED <<news, crashes>>
      BY <2>3 DEF SendStop
    <3>4. stopSent' \in BOOLEAN
      BY <2>3 DEF SendStop
    <3>5. stops' \in 0 .. MaxStops
      BY <3>1, <3>2
    <3> QED BY <3>3, <3>4, <3>5
  <2>4. CASE HandleStop
    BY <2>4 DEF HandleStop
  <2> QED BY <1>1, <2>1, <2>2, <2>3, <2>4 DEF UserStep
<1>2. CASE StreamStep
  BY <1>2 DEF StreamStep, StreamFails, StreamOpens, ReadEnds
<1>3. CASE FetchStep
  BY <1>3 DEF FetchStep, FetchSession, NewFetches, Fetch
<1>4. CASE NewStep
  <2>1. CASE NewArchives
    BY <2>1, RestFacts DEF NewArchives
  <2>2. CASE NewArchiveFails
    BY <2>2 DEF NewArchiveFails
  <2>3. CASE NewArchived
    BY <2>3, NewArchivedFacts DEF NewArchived, Archive, MarkMoves
  <2>4. CASE NewClears
    BY <2>4, NewClearsFacts DEF NewClears
  <2>5. CASE NewSucceeds
    BY <2>5 DEF NewSucceeds, Forget
  <2>6. CASE NewSaveFails
    BY <2>6 DEF NewSaveFails
  <2> QED BY <1>4, <2>1, <2>2, <2>3, <2>4, <2>5, <2>6 DEF NewStep
<1>5. ASSUME NEW t \in Turns, GoStep(t) PROVE BoundTypes'
  <2>1. CASE StreamEnds(t)
    BY <2>1 DEF StreamEnds
  <2>2. CASE StreamBreaks(t)
    BY <2>2 DEF StreamBreaks
  <2>3. CASE Collect(t)
    BY <2>3 DEF Collect
  <2>4. CASE AddReads(t)
    BY <2>4, SessType DEF AddReads
  <2>5. CASE AddWrites(t)
    BY <2>5, WriteFacts
  <2>6. CASE AfterSave(t)
    BY <2>6 DEF AfterSave
  <2>7. CASE Finish(t)
    BY <2>7 DEF Finish
  <2> QED BY <1>5, <2>1, <2>2, <2>3, <2>4, <2>5, <2>6, <2>7 DEF GoStep
<1>6. ASSUME NEW th \in Threads, SaveStep(th) PROVE BoundTypes'
  BY <1>6 DEF SaveStep, Save, SaveOpens, SaveMeta, SaveRange, SaveLine, SaveDone, SaveFails
<1>7. ASSUME NEW th \in Threads, Consolidate(th) PROVE BoundTypes'
  BY <1>7 DEF Consolidate, ConsolidateEnds, PickBatch, SummaryFails, Summarised,
     AfterRounds, Archive
<1>8. CASE Restart
  <2>1. crashes' = crashes + 1 /\ crashes < MaxCrashes /\ UNCHANGED <<news, stops>>
    BY <1>8 DEF Restart
  <2>2. stopSent' \in BOOLEAN
    BY <1>8 DEF Restart
  <2>3. crashes' \in 0 .. MaxCrashes
    BY <2>1
  <2> QED BY <2>1, <2>2, <2>3
<1>9. CASE UNCHANGED vars
  BY <1>9 DEF vars
<1> QED BY <1>1, <1>2, <1>3, <1>4, <1>5, <1>6, <1>7, <1>8, <1>9, Steps

\* ... and the store.
LEMMA NextStoreTypes ==
    ASSUME TypeOK, Places, [Next]_vars
    PROVE  StoreTypes'
<1>0. PlaceTypes /\ StoreTypes /\ Places
  BY TypeParts
<1> USE <1>0, ThreadFacts DEF Places, PlaceTypes, Goto, At, turnVars, memVars, cmdVars,
    storeVars, StoreTypes
<1>1. CASE UserStep
  BY <1>1 DEF UserStep, BeginTurn, BeginNew, SendStop, HandleStop
<1>2. CASE StreamStep
  <2>1. CASE StreamOpens
    BY <2>1, OpensFacts
  <2>2. CASE StreamFails
    BY <2>2 DEF StreamFails
  <2>3. CASE ReadEnds
    BY <2>3 DEF ReadEnds
  <2> QED BY <1>2, <2>1, <2>2, <2>3 DEF StreamStep
<1>3. CASE FetchStep
  <2>1. CASE FetchSession
    BY <2>1, FetchFacts, SMTT(30) DEF FetchSession
  <2>2. CASE NewFetches
    BY <2>2, FetchFacts, SMTT(30) DEF NewFetches
  <2> QED BY <1>3, <2>1, <2>2 DEF FetchStep
<1>4. CASE NewStep
  <2>1. CASE NewArchives
    BY <2>1, RestFacts DEF NewArchives
  <2>2. CASE NewArchiveFails
    BY <2>2 DEF NewArchiveFails
  <2>3. CASE NewArchived
    BY <2>3, NewArchivedFacts DEF NewArchived, Archive, MarkMoves
  <2>4. CASE NewClears
    BY <2>4, NewClearsFacts DEF NewClears
  <2>5. CASE NewSucceeds
    BY <2>5 DEF NewSucceeds, Forget
  <2>6. CASE NewSaveFails
    BY <2>6 DEF NewSaveFails
  <2> QED BY <1>4, <2>1, <2>2, <2>3, <2>4, <2>5, <2>6 DEF NewStep
<1>5. ASSUME NEW t \in Turns, GoStep(t) PROVE StoreTypes'
  <2>1. CASE StreamEnds(t)
    BY <2>1 DEF StreamEnds
  <2>2. CASE StreamBreaks(t)
    BY <2>2 DEF StreamBreaks
  <2>3. CASE Collect(t)
    BY <2>3 DEF Collect
  <2>4. CASE AddReads(t)
    BY <2>4, SessType DEF AddReads
  <2>5. CASE AddWrites(t)
    <3>1. heap' \in Seq(Session) /\ Len(heap') = Len(heap)
      BY <2>5, WriteFacts
    <3>2. cache' = cache /\ file' = file /\ obj' = obj /\ buf' = [buf EXCEPT ![t] = <<>>]
      BY <2>5 DEF AddWrites, Put
    <3> QED BY <3>1, <3>2
  <2>6. CASE AfterSave(t)
    BY <2>6 DEF AfterSave
  <2>7. CASE Finish(t)
    BY <2>7 DEF Finish
  <2> QED BY <1>5, <2>1, <2>2, <2>3, <2>4, <2>5, <2>6, <2>7 DEF GoStep
<1>6. ASSUME NEW th \in Threads, SaveStep(th) PROVE StoreTypes'
  <2>1. CASE SaveOpens(th)
    BY <2>1 DEF SaveOpens, File, NoFile
  <2>2. CASE SaveMeta(th)
    <3>1. heap[obj[th]].lc \in Nat
      BY <2>2, SessType DEF SaveMeta, Sess
    <3> QED BY <2>2, <3>1 DEF SaveMeta, File
  <2>3. CASE SaveRange(th)
    <3>1. heap[obj[th]].msgs \in Seq(Message)
      BY <2>3, SessType DEF SaveRange, Sess
    <3> QED BY <2>3, <3>1 DEF SaveRange
  <2>4. CASE SaveLine(th)
    <3>1. Head(buf[th]) \in Message /\ Tail(buf[th]) \in Seq(Message)
      BY <2>4 DEF SaveLine
    <3>2. file' \in File
      BY <2>4, <3>1, FileLine DEF SaveLine
    <3> QED BY <2>4, <3>1, <3>2 DEF SaveLine
  <2>5. CASE SaveDone(th)
    BY <2>5 DEF SaveDone
  <2>6. CASE SaveFails(th)
    BY <2>6 DEF SaveFails
  <2> QED BY <1>6, <2>1, <2>2, <2>3, <2>4, <2>5, <2>6 DEF SaveStep, Save
<1>7. ASSUME NEW th \in Threads, Consolidate(th) PROVE StoreTypes'
  <2>1. CASE ConsolidateEnds(th)
    BY <2>1 DEF ConsolidateEnds, AfterRounds
  <2>2. CASE PickBatch(th)
    <3>1. PICK q \in Seq(Message) : buf' = [buf EXCEPT ![th] = q]
      BY <2>2, BatchFacts
    <3> QED BY <2>2, <3>1 DEF PickBatch
  <2>3. CASE SummaryFails(th)
    BY <2>3 DEF SummaryFails, AfterRounds
  <2>4. CASE Summarised(th)
    <3>1. heap' \in Seq(Session) /\ Len(heap') = Len(heap)
      BY <2>4, SummarisedFacts DEF MarkMoves
    <3>2. cache' = cache /\ file' = file /\ obj' = obj /\ buf' = [buf EXCEPT ![th] = <<>>]
      BY <2>4 DEF Summarised, Archive
    <3> QED BY <3>1, <3>2
  <2> QED BY <1>7, <2>1, <2>2, <2>3, <2>4 DEF Consolidate
<1>8. CASE Restart
  BY <1>8 DEF Restart, StoreCrash
<1>9. CASE UNCHANGED vars
  BY <1>9 DEF vars
<1> QED BY <1>1, <1>2, <1>3, <1>4, <1>5, <1>6, <1>7, <1>8, <1>9, Steps

\* Every step keeps Places: ObjOK,
LEMMA NextObjOK ==
    ASSUME TypeOK, Places, [Next]_vars
    PROVE  ObjOK'
<1>0. PlaceTypes /\ StoreTypes /\ Places
  BY TypeParts
<1> USE <1>0, ThreadFacts DEF Places, PlaceTypes, Goto, At, turnVars, memVars, cmdVars,
    storeVars, PcTypes, WorkerPcs, TurnPcs, SavePcs, ObjOK, StoreTypes
<1>1. CASE UserStep
  BY <1>1 DEF UserStep, BeginTurn, BeginNew, SendStop, HandleStop
<1>2. CASE StreamStep
  <2>1. CASE StreamOpens
    BY <2>1, OpensFacts
  <2>2. CASE StreamFails
    BY <2>2 DEF StreamFails
  <2>3. CASE ReadEnds
    BY <2>3 DEF ReadEnds
  <2> QED BY <1>2, <2>1, <2>2, <2>3 DEF StreamStep
<1>3. CASE FetchStep
  <2>1. Fetch(Worker) /\ \E l \in {"consolidate", "archive"} : Goto(Worker, l)
    BY <1>3 DEF FetchStep, FetchSession, NewFetches
  <2>2. cache' # 0 /\ obj' = [obj EXCEPT ![Worker] = cache']
    <3>1. heap' \in Seq(Session)
      BY <2>1, FetchFacts
    <3> QED BY <2>1, <3>1, FetchFacts
  <2> QED BY <2>1, <2>2
<1>4. CASE NewStep
  BY <1>4 DEF NewStep, NewArchives, NewArchiveFails, NewArchived, NewClears, NewSucceeds,
     NewSaveFails, Forget, Archive
<1>5. ASSUME NEW t \in Turns, GoStep(t) PROVE ObjOK'
  <2>1. CASE Finish(t)
    BY <2>1 DEF Finish
  <2>2. CASE ~Finish(t)
    BY <1>5, <2>2 DEF GoStep, StreamEnds, StreamBreaks, Collect, AddReads, AddWrites, AfterSave
  <2> QED BY <2>1, <2>2
<1>6. ASSUME NEW th \in Threads, SaveStep(th) PROVE ObjOK'
  BY <1>6 DEF SaveStep, Save, SaveOpens, SaveMeta, SaveRange, SaveLine, SaveDone, SaveFails
<1>7. ASSUME NEW th \in Threads, Consolidate(th) PROVE ObjOK'
  BY <1>7 DEF Consolidate, ConsolidateEnds, PickBatch, SummaryFails, Summarised,
     AfterRounds, Archive
<1>8. CASE Restart
  BY <1>8 DEF Restart, StoreCrash
<1>9. CASE UNCHANGED vars
  BY <1>9 DEF vars
<1> QED BY <1>1, <1>2, <1>3, <1>4, <1>5, <1>6, <1>7, <1>8, <1>9, Steps

\* ... MuOK,
LEMMA NextMuOK ==
    ASSUME TypeOK, Places, [Next]_vars
    PROVE  MuOK'
<1>0. PlaceTypes /\ StoreTypes /\ Places
  BY TypeParts
<1> USE <1>0, ThreadFacts DEF Places, PlaceTypes, Goto, At, turnVars, memVars, cmdVars,
    storeVars, PcTypes, WorkerPcs, TurnPcs, SavePcs, MuOK, TurnTypes
<1>1. CASE UserStep
  BY <1>1 DEF UserStep, BeginTurn, BeginNew, SendStop, HandleStop
<1>2. CASE StreamStep
  <2>1. CASE StreamOpens
    BY <2>1, OpensFacts
  <2>2. CASE StreamFails
    BY <2>2 DEF StreamFails
  <2>3. CASE ReadEnds
    BY <2>3 DEF ReadEnds
  <2> QED BY <1>2, <2>1, <2>2, <2>3 DEF StreamStep
<1>3. CASE FetchStep
  BY <1>3 DEF FetchStep, FetchSession, NewFetches, Fetch
<1>4. CASE NewStep
  BY <1>4 DEF NewStep, NewArchives, NewArchiveFails, NewArchived, NewClears, NewSucceeds,
     NewSaveFails, Forget, Archive
<1>5. ASSUME NEW t \in Turns, GoStep(t) PROVE MuOK'
  BY <1>5 DEF GoStep, StreamEnds, StreamBreaks, Collect, AddReads, AddWrites, Put,
     AfterSave, Finish
<1>6. ASSUME NEW th \in Threads, SaveStep(th) PROVE MuOK'
  BY <1>6 DEF SaveStep, Save, SaveOpens, SaveMeta, SaveRange, SaveLine, SaveDone, SaveFails
<1>7. ASSUME NEW th \in Threads, Consolidate(th) PROVE MuOK'
  BY <1>7 DEF Consolidate, ConsolidateEnds, PickBatch, SummaryFails, Summarised,
     AfterRounds, Archive
<1>8. CASE Restart
  BY <1>8 DEF Restart, StoreCrash
<1>9. CASE UNCHANGED vars
  BY <1>9 DEF vars
<1> QED BY <1>1, <1>2, <1>3, <1>4, <1>5, <1>6, <1>7, <1>8, <1>9, Steps

\* ... LockOK,
LEMMA NextLockOK ==
    ASSUME TypeOK, Places, [Next]_vars
    PROVE  LockOK'
<1>0. PlaceTypes /\ StoreTypes /\ Places
  BY TypeParts
<1> USE <1>0, ThreadFacts DEF Places, PlaceTypes, Goto, At, turnVars, memVars, cmdVars,
    storeVars, PcTypes, WorkerPcs, TurnPcs, SavePcs, LockOK, TurnTypes
<1>1. CASE UserStep
  BY <1>1 DEF UserStep, BeginTurn, BeginNew, SendStop, HandleStop
<1>2. CASE StreamStep
  <2>1. CASE StreamOpens
    BY <2>1, OpensFacts
  <2>2. CASE StreamFails
    BY <2>2 DEF StreamFails
  <2>3. CASE ReadEnds
    BY <2>3 DEF ReadEnds
  <2> QED BY <1>2, <2>1, <2>2, <2>3 DEF StreamStep
<1>3. CASE FetchStep
  BY <1>3 DEF FetchStep, FetchSession, NewFetches, Fetch
<1>4. CASE NewStep
  BY <1>4 DEF NewStep, NewArchives, NewArchiveFails, NewArchived, NewClears, NewSucceeds,
     NewSaveFails, Forget, Archive
<1>5. ASSUME NEW t \in Turns, GoStep(t) PROVE LockOK'
  BY <1>5 DEF GoStep, StreamEnds, StreamBreaks, Collect, AddReads, AddWrites, Put,
     AfterSave, Finish
<1>6. ASSUME NEW th \in Threads, SaveStep(th) PROVE LockOK'
  BY <1>6 DEF SaveStep, Save, SaveOpens, SaveMeta, SaveRange, SaveLine, SaveDone, SaveFails
<1>7. ASSUME NEW th \in Threads, Consolidate(th) PROVE LockOK'
  BY <1>7 DEF Consolidate, ConsolidateEnds, PickBatch, SummaryFails, Summarised,
     AfterRounds, Archive
<1>8. CASE Restart
  BY <1>8 DEF Restart, StoreCrash
<1>9. CASE UNCHANGED vars
  BY <1>9 DEF vars
<1> QED BY <1>1, <1>2, <1>3, <1>4, <1>5, <1>6, <1>7, <1>8, <1>9, Steps

\* ... TurnOK,
LEMMA NextTurnOK ==
    ASSUME TypeOK, Places, [Next]_vars
    PROVE  TurnOK'
<1>0. PlaceTypes /\ StoreTypes /\ Places
  BY TypeParts
<1> USE <1>0, ThreadFacts DEF Places, PlaceTypes, Goto, At, turnVars, memVars, cmdVars,
    storeVars, PcTypes, WorkerPcs, TurnPcs, SavePcs, TurnOK, TurnTypes, Preparing, LockOK
<1>1. CASE UserStep
  <2>1. CASE BeginTurn
    <3>1. turn \in Nat /\ turn' = turn + 1 /\ pc' = [pc EXCEPT ![Worker] = "fetch"]
          /\ pipe' = pipe /\ turn + 1 \in Turns
      BY <2>1 DEF BeginTurn, Turns
    <3> QED BY <3>1
  <2>2. CASE BeginNew
    BY <2>2 DEF BeginNew
  <2>3. CASE SendStop
    BY <2>3 DEF SendStop
  <2>4. CASE HandleStop
    BY <2>4 DEF HandleStop
  <2> QED BY <1>1, <2>1, <2>2, <2>3, <2>4 DEF UserStep
<1>2. CASE StreamStep
  <2>1. CASE StreamOpens
    BY <2>1, OpensFacts
  <2>2. CASE StreamFails
    BY <2>2 DEF StreamFails
  <2>3. CASE ReadEnds
    BY <2>3 DEF ReadEnds
  <2> QED BY <1>2, <2>1, <2>2, <2>3 DEF StreamStep
<1>3. CASE FetchStep
  BY <1>3 DEF FetchStep, FetchSession, NewFetches, Fetch
<1>4. CASE NewStep
  BY <1>4 DEF NewStep, NewArchives, NewArchiveFails, NewArchived, NewClears, NewSucceeds,
     NewSaveFails, Forget, Archive
<1>5. ASSUME NEW t \in Turns, GoStep(t) PROVE TurnOK'
  <2>1. /\ pc[t] # "none" /\ t <= turn /\ UNCHANGED <<turn, lock>>
        /\ \E l \in TurnPcs \ {"none"} : Goto(t, l)
    BY <1>5, SMTT(30) DEF GoStep, StreamEnds, StreamBreaks, Collect, AddReads, AddWrites,
       AfterSave, Finish
  <2>2. \A u \in Turns \ {t} : pipe'[u] = pipe[u]
    BY <1>5, SMTT(30) DEF GoStep, StreamEnds, StreamBreaks, Collect, AddReads, AddWrites,
       AfterSave, Finish
  <2> QED BY <2>1, <2>2
<1>6. ASSUME NEW th \in Threads, SaveStep(th) PROVE TurnOK'
  BY <1>6 DEF SaveStep, Save, SaveOpens, SaveMeta, SaveRange, SaveLine, SaveDone, SaveFails
<1>7. ASSUME NEW th \in Threads, Consolidate(th) PROVE TurnOK'
  BY <1>7 DEF Consolidate, ConsolidateEnds, PickBatch, SummaryFails, Summarised,
     AfterRounds, Archive
<1>8. CASE Restart
  BY <1>8 DEF Restart, StoreCrash
<1>9. CASE UNCHANGED vars
  BY <1>9 DEF vars
<1> QED BY <1>1, <1>2, <1>3, <1>4, <1>5, <1>6, <1>7, <1>8, <1>9, Steps

\* ... and BufOK.
LEMMA NextBufOK ==
    ASSUME TypeOK, Places, [Next]_vars
    PROVE  BufOK'
<1>0. PlaceTypes /\ StoreTypes /\ Places
  BY TypeParts
<1> USE <1>0, ThreadFacts DEF Places, PlaceTypes, Goto, At, turnVars, memVars, cmdVars,
    storeVars, PcTypes, WorkerPcs, TurnPcs, SavePcs, BufOK, StoreTypes
<1>1. CASE UserStep
  BY <1>1 DEF UserStep, BeginTurn, BeginNew, SendStop, HandleStop
<1>2. CASE StreamStep
  <2>1. CASE StreamOpens
    BY <2>1, OpensFacts
  <2>2. CASE StreamFails
    BY <2>2 DEF StreamFails
  <2>3. CASE ReadEnds
    BY <2>3 DEF ReadEnds
  <2> QED BY <1>2, <2>1, <2>2, <2>3 DEF StreamStep
<1>3. CASE FetchStep
  BY <1>3 DEF FetchStep, FetchSession, NewFetches, Fetch
<1>4. CASE NewStep
  BY <1>4 DEF NewStep, NewArchives, NewArchiveFails, NewArchived, NewClears, NewSucceeds,
     NewSaveFails, Forget, Archive
<1>5. ASSUME NEW t \in Turns, GoStep(t) PROVE BufOK'
  BY <1>5 DEF GoStep, StreamEnds, StreamBreaks, Collect, AddReads, AddWrites, Put,
     AfterSave, Finish
<1>6. ASSUME NEW th \in Threads, SaveStep(th) PROVE BufOK'
  BY <1>6 DEF SaveStep, Save, SaveOpens, SaveMeta, SaveRange, SaveLine, SaveDone, SaveFails
<1>7. ASSUME NEW th \in Threads, Consolidate(th) PROVE BufOK'
  <2>1. CASE ConsolidateEnds(th)
    BY <2>1 DEF ConsolidateEnds, AfterRounds
  <2>2. CASE PickBatch(th)
    BY <2>2, BatchFacts DEF PickBatch
  <2>3. CASE SummaryFails(th)
    BY <2>3 DEF SummaryFails, AfterRounds
  <2>4. CASE Summarised(th)
    BY <2>4, SummarisedFacts DEF Summarised, Archive, MarkMoves
  <2> QED BY <1>7, <2>1, <2>2, <2>3, <2>4 DEF Consolidate
<1>8. CASE Restart
  BY <1>8 DEF Restart, StoreCrash
<1>9. CASE UNCHANGED vars
  BY <1>9 DEF vars
<1> QED BY <1>1, <1>2, <1>3, <1>4, <1>5, <1>6, <1>7, <1>8, <1>9, Steps

\* Types and places hold always, whatever breaks, fails or overlaps.
LEMMA PlacesInvariant == Spec => [](TypeOK /\ Places)
<1>1. Init => TypeOK /\ Places
  <2> SUFFICES ASSUME Init PROVE TypeOK /\ Places
    OBVIOUS
  <2>1. StoreTypes
    BY ThreadFacts DEF Init, StoreInit, StoreTypes, File, NoFile
  <2>2. PlaceTypes
    <3>1. PcTypes
      BY ThreadFacts DEF Init, PcTypes, WorkerPcs, TurnPcs
    <3>2. TurnTypes /\ MemTypes
      BY ThreadFacts DEF Init, StoreInit, TurnTypes, MemTypes
    <3>3. BoundTypes
      <4>1. stopSent \in BOOLEAN
        BY DEF Init
      <4>2. news = 0 /\ stops = 0 /\ crashes = 0
        BY DEF Init
      <4>3. news \in 0..MaxNews /\ stops \in 0..MaxStops /\ crashes \in 0..MaxCrashes
        BY <4>2, BoundFacts
      <4> QED BY <4>1, <4>3 DEF BoundTypes
    <3> QED BY <3>1, <3>2, <3>3 DEF PlaceTypes
  <2>3. Places
    BY ThreadFacts DEF Init, StoreInit, Places, ObjOK, MuOK, LockOK, TurnOK, BufOK, Preparing
  <2> QED BY <2>1, <2>2, <2>3, TypeParts
<1>2. TypeOK /\ Places /\ [Next]_vars => (TypeOK /\ Places)'
  <2> SUFFICES ASSUME TypeOK, Places, [Next]_vars PROVE (TypeOK /\ Places)'
    OBVIOUS
  <2>1. TypeOK'
    <3>1. StoreTypes' /\ PlaceTypes'
      BY NextStoreTypes, NextPcTypes, NextTurnTypes, NextMemTypes, NextBoundTypes DEF PlaceTypes
    <3> QED BY <3>1 DEF TypeOK, StoreTypes, PlaceTypes, PcTypes, TurnTypes, MemTypes, BoundTypes
  <2>2. Places'
    BY NextObjOK, NextMuOK, NextLockOK, NextTurnOK, NextBufOK DEF Places
  <2> QED BY <2>1, <2>2
<1> QED BY <1>1, <1>2, PTL DEF Spec

\* The state always has its type (agent.go, memory.go, manager.go: every slot a thread
\* uses was set), whatever breaks, fails or overlaps.
THEOREM TurnTypesCorrect == Spec => []TypeOK
  BY PlacesInvariant, PTL

-----------------------------------------------------------------------------
(* What activeTasks lists.                                                 *)

\* The turn that is listed runs or is being prepared.
ListedInv == active # 0 => Running(active) \/ (active = turn /\ Preparing)

\* Every step keeps ListedInv: whoever ends a turn removes the entry.
LEMMA NextListed ==
    ASSUME TypeOK, Places, ListedInv, [Next]_vars
    PROVE  ListedInv'
<1>0. PlaceTypes /\ Places
  BY TypeParts
<1> USE <1>0, ThreadFacts DEF Places, PlaceTypes, PcTypes, TurnTypes, TurnOK, LockOK,
    ListedInv, Running, Preparing, Goto, At, turnVars, memVars, cmdVars, storeVars, SavePcs
<1>1. CASE UserStep
  BY <1>1 DEF UserStep, BeginTurn, BeginNew, SendStop, HandleStop
<1>2. CASE StreamStep
  <2>1. CASE StreamOpens
    BY <2>1, OpensFacts
  <2>2. CASE StreamFails
    BY <2>2 DEF StreamFails
  <2>3. CASE ReadEnds
    BY <2>3 DEF ReadEnds
  <2> QED BY <1>2, <2>1, <2>2, <2>3 DEF StreamStep
<1>3. CASE FetchStep
  BY <1>3 DEF FetchStep, FetchSession, NewFetches, Fetch
<1>4. CASE NewStep
  BY <1>4 DEF NewStep, NewArchives, NewArchiveFails, NewArchived, NewClears, NewSucceeds,
     NewSaveFails, Forget, Archive
<1>5. ASSUME NEW t \in Turns, GoStep(t) PROVE ListedInv'
  <2>1. CASE StreamEnds(t)
    BY <2>1 DEF StreamEnds
  <2>2. CASE StreamBreaks(t)
    BY <2>2 DEF StreamBreaks
  <2>3. CASE Collect(t)
    BY <2>3 DEF Collect
  <2>4. CASE AddReads(t)
    BY <2>4, SessType DEF AddReads
  <2>5. CASE AddWrites(t)
    BY <2>5, WriteFacts
  <2>6. CASE AfterSave(t)
    BY <2>6 DEF AfterSave
  <2>7. CASE Finish(t)
    BY <2>7 DEF Finish
  <2> QED BY <1>5, <2>1, <2>2, <2>3, <2>4, <2>5, <2>6, <2>7 DEF GoStep
<1>6. ASSUME NEW th \in Threads, SaveStep(th) PROVE ListedInv'
  BY <1>6 DEF SaveStep, Save, SaveOpens, SaveMeta, SaveRange, SaveLine, SaveDone, SaveFails
<1>7. ASSUME NEW th \in Threads, Consolidate(th) PROVE ListedInv'
  <2>1. CASE ConsolidateEnds(th)
    BY <2>1 DEF ConsolidateEnds, AfterRounds
  <2>2. CASE PickBatch(th)
    BY <2>2, BatchFacts DEF PickBatch
  <2>3. CASE SummaryFails(th)
    BY <2>3 DEF SummaryFails, AfterRounds
  <2>4. CASE Summarised(th)
    BY <2>4, SummarisedFacts DEF Summarised, Archive, MarkMoves
  <2> QED BY <1>7, <2>1, <2>2, <2>3, <2>4 DEF Consolidate
<1>8. CASE Restart
  BY <1>8 DEF Restart, StoreCrash
<1>9. CASE UNCHANGED vars
  BY <1>9 DEF vars
<1> QED BY <1>1, <1>2, <1>3, <1>4, <1>5, <1>6, <1>7, <1>8, <1>9, Steps

\* Whatever breaks, fails or overlaps, activeTasks never lists a turn that is over
\* (agent.go:336-384).
THEOREM ListedIsRunning == Spec => []ListedTurnRuns
<1>1. Init => ListedInv
  BY DEF Init, ListedInv
<1>2. TypeOK /\ Places /\ ListedInv /\ [Next]_vars => ListedInv'
  BY NextListed
<1>3. ListedInv => ListedTurnRuns
  BY DEF ListedInv, ListedTurnRuns, Preparing
<1> QED BY <1>1, <1>2, <1>3, PlacesInvariant, PTL DEF Spec

-----------------------------------------------------------------------------
(* Turns are serial while streams do not break.                            *)

\* A turn that runs is the worker's last, and the worker is still reading its pipe.
OneRuns == \A t \in Turns : Running(t) => turn = t /\ pc[Worker] = "reading" /\ pipe[t] = "open"
\* The entry is the turn's from the moment it is prepared until it is cancelled.
IsListed ==
    /\ Preparing => active = turn
    /\ \A t \in Turns : At(t, "stream") /\ t \notin cancelled => active = t
SerialInv == OneRuns /\ IsListed

\* A step of a turn or of Save moves the thread that takes it and no other.
LEMMA GoMoves ==
    ASSUME TypeOK, NEW t \in Turns, GoStep(t)
    PROVE  /\ Running(t) /\ pc'[t] # "summary"
           /\ \A th \in Threads \ {t} : pc'[th] = pc[th]
<1> USE TypeParts, ThreadFacts DEF PlaceTypes, PcTypes, Goto, At, Running
<1>1. CASE StreamEnds(t) \/ StreamBreaks(t)
  BY <1>1 DEF StreamEnds, StreamBreaks
<1>2. CASE Collect(t)
  BY <1>2 DEF Collect
<1>3. CASE AddReads(t)
  BY <1>3 DEF AddReads
<1>4. CASE AddWrites(t)
  BY <1>4 DEF AddWrites
<1>5. CASE AfterSave(t)
  BY <1>5 DEF AfterSave
<1>6. CASE Finish(t)
  BY <1>6 DEF Finish
<1> QED BY <1>1, <1>2, <1>3, <1>4, <1>5, <1>6 DEF GoStep

LEMMA SaveMoves ==
    ASSUME TypeOK, NEW th \in Threads, SaveStep(th)
    PROVE  /\ pc[th] \in SavePcs /\ pc'[th] \notin {"summary", "clear"}
           /\ \A u \in Threads \ {th} : pc'[u] = pc[u]
<1> USE TypeParts, ThreadFacts DEF PlaceTypes, PcTypes, Goto, At, SavePcs
<1>1. CASE SaveOpens(th)
  BY <1>1 DEF SaveOpens
<1>2. CASE SaveMeta(th) \/ SaveRange(th)
  BY <1>2 DEF SaveMeta, SaveRange
<1>3. CASE SaveLine(th) \/ SaveDone(th)
  BY <1>3 DEF SaveLine, SaveDone
<1>4. CASE SaveFails(th)
  BY <1>4 DEF SaveFails
<1> QED BY <1>1, <1>2, <1>3, <1>4 DEF SaveStep, Save

\* Every step keeps OneRuns while streams do not break.
LEMMA NextOneRuns ==
    ASSUME TypeOK, Places, SerialInv, ~StreamsBreak, [Next]_vars
    PROVE  OneRuns'
<1>0. PlaceTypes /\ Places
  BY TypeParts
<1> USE <1>0, ThreadFacts DEF Places, PlaceTypes, PcTypes, TurnTypes, TurnOK, LockOK,
    SerialInv, Running, Preparing, Goto, At, turnVars, memVars, cmdVars, storeVars, SavePcs,
    OneRuns
<1>1. CASE UserStep
  BY <1>1 DEF UserStep, BeginTurn, BeginNew, SendStop, HandleStop
<1>2. CASE StreamStep
  <2>1. CASE StreamOpens
    BY <2>1, OpensFacts
  <2>2. CASE StreamFails
    BY <2>2 DEF StreamFails
  <2>3. CASE ReadEnds
    BY <2>3 DEF ReadEnds
  <2> QED BY <1>2, <2>1, <2>2, <2>3 DEF StreamStep
<1>3. CASE FetchStep
  BY <1>3 DEF FetchStep, FetchSession, NewFetches, Fetch
<1>4. CASE NewStep
  BY <1>4 DEF NewStep, NewArchives, NewArchiveFails, NewArchived, NewClears, NewSucceeds,
     NewSaveFails, Forget, Archive
<1>5. ASSUME NEW t \in Turns, GoStep(t) PROVE OneRuns'
  <2>1. CASE StreamEnds(t)
    BY <2>1 DEF StreamEnds
  <2>2. CASE StreamBreaks(t)
    BY <2>2 DEF StreamBreaks
  <2>3. CASE Collect(t)
    BY <2>3 DEF Collect
  <2>4. CASE AddReads(t)
    BY <2>4, SessType DEF AddReads
  <2>5. CASE AddWrites(t)
    BY <2>5, WriteFacts
  <2>6. CASE AfterSave(t)
    BY <2>6 DEF AfterSave
  <2>7. CASE Finish(t)
    BY <2>7 DEF Finish
  <2> QED BY <1>5, <2>1, <2>2, <2>3, <2>4, <2>5, <2>6, <2>7 DEF GoStep
<1>6. ASSUME NEW th \in Threads, SaveStep(th) PROVE OneRuns'
  BY <1>6 DEF SaveStep, Save, SaveOpens, SaveMeta, SaveRange, SaveLine, SaveDone, SaveFails
<1>7. ASSUME NEW th \in Threads, Consolidate(th) PROVE OneRuns'
  <2>1. CASE ConsolidateEnds(th)
    BY <2>1 DEF ConsolidateEnds, AfterRounds
  <2>2. CASE PickBatch(th)
    BY <2>2, BatchFacts DEF PickBatch
  <2>3. CASE SummaryFails(th)
    BY <2>3 DEF SummaryFails, AfterRounds
  <2>4. CASE Summarised(th)
    BY <2>4, SummarisedFacts DEF Summarised, Archive, MarkMoves
  <2> QED BY <1>7, <2>1, <2>2, <2>3, <2>4 DEF Consolidate
<1>8. CASE Restart
  BY <1>8 DEF Restart, StoreCrash
<1>9. CASE UNCHANGED vars
  BY <1>9 DEF vars
<1> QED BY <1>1, <1>2, <1>3, <1>4, <1>5, <1>6, <1>7, <1>8, <1>9, Steps

\* Every step keeps IsListed while streams do not break.
LEMMA NextIsListed ==
    ASSUME TypeOK, Places, SerialInv, ~StreamsBreak, [Next]_vars
    PROVE  IsListed'
<1>0. PlaceTypes /\ Places
  BY TypeParts
<1> USE <1>0, ThreadFacts DEF Places, PlaceTypes, PcTypes, TurnTypes, TurnOK, LockOK,
    SerialInv, Running, Preparing, Goto, At, turnVars, memVars, cmdVars, storeVars, SavePcs,
    OneRuns, IsListed
<1>1. CASE UserStep
  BY <1>1 DEF UserStep, BeginTurn, BeginNew, SendStop, HandleStop
<1>2. CASE StreamStep
  <2>1. CASE StreamOpens
    BY <2>1, OpensFacts
  <2>2. CASE StreamFails
    BY <2>2 DEF StreamFails
  <2>3. CASE ReadEnds
    BY <2>3 DEF ReadEnds
  <2> QED BY <1>2, <2>1, <2>2, <2>3 DEF StreamStep
<1>3. CASE FetchStep
  BY <1>3 DEF FetchStep, FetchSession, NewFetches, Fetch
<1>4. CASE NewStep
  BY <1>4 DEF NewStep, NewArchives, NewArchiveFails, NewArchived, NewClears, NewSucceeds,
     NewSaveFails, Forget, Archive
<1>5. ASSUME NEW t \in Turns, GoStep(t) PROVE IsListed'
  <2>1. CASE StreamEnds(t)
    BY <2>1 DEF StreamEnds
  <2>2. CASE StreamBreaks(t)
    BY <2>2 DEF StreamBreaks
  <2>3. CASE Collect(t)
    BY <2>3 DEF Collect
  <2>4. CASE AddReads(t)
    BY <2>4, SessType DEF AddReads
  <2>5. CASE AddWrites(t)
    BY <2>5, WriteFacts, SMTT(30)
  <2>6. CASE AfterSave(t)
    BY <2>6 DEF AfterSave
  <2>7. CASE Finish(t)
    BY <2>7 DEF Finish
  <2> QED BY <1>5, <2>1, <2>2, <2>3, <2>4, <2>5, <2>6, <2>7 DEF GoStep
<1>6. ASSUME NEW th \in Threads, SaveStep(th) PROVE IsListed'
  BY <1>6 DEF SaveStep, Save, SaveOpens, SaveMeta, SaveRange, SaveLine, SaveDone, SaveFails
<1>7. ASSUME NEW th \in Threads, Consolidate(th) PROVE IsListed'
  <2>1. CASE ConsolidateEnds(th)
    BY <2>1 DEF ConsolidateEnds, AfterRounds
  <2>2. CASE PickBatch(th)
    BY <2>2, BatchFacts DEF PickBatch
  <2>3. CASE SummaryFails(th)
    BY <2>3 DEF SummaryFails, AfterRounds
  <2>4. CASE Summarised(th)
    BY <2>4, SummarisedFacts DEF Summarised, Archive, MarkMoves
  <2> QED BY <1>7, <2>1, <2>2, <2>3, <2>4 DEF Consolidate
<1>8. CASE Restart
  BY <1>8 DEF Restart, StoreCrash
<1>9. CASE UNCHANGED vars
  BY <1>9 DEF vars
<1> QED BY <1>1, <1>2, <1>3, <1>4, <1>5, <1>6, <1>7, <1>8, <1>9, Steps

\* SerialInv holds always while streams do not break.
LEMMA SerialInvariant ==
    ASSUME ~StreamsBreak
    PROVE  Spec => []SerialInv
<1>1. Init => SerialInv
  BY ThreadFacts DEF Init, SerialInv, OneRuns, IsListed, Running, Preparing, At
<1>2. TypeOK /\ Places /\ SerialInv /\ [Next]_vars => SerialInv'
  BY NextOneRuns, NextIsListed DEF SerialInv
<1> QED BY <1>1, <1>2, PlacesInvariant, PTL DEF Spec

\* The turns of a session are serial, through crashes, disk faults, /new and /stop.
THEOREM TurnsAreSerial ==
    ASSUME ~StreamsBreak
    PROVE  Spec => []OneTurnAtATime
<1>1. SerialInv => OneTurnAtATime
  BY DEF SerialInv, OneRuns, OneTurnAtATime, At
<1> QED BY <1>1, SerialInvariant, PTL

\* ... and the one that streams can be cancelled (agent.go:336-340).
THEOREM StreamingIsListed ==
    ASSUME ~StreamsBreak
    PROVE  Spec => []StreamingTurnIsListed
<1>1. SerialInv => StreamingTurnIsListed
  BY DEF SerialInv, IsListed, StreamingTurnIsListed
<1> QED BY <1>1, SerialInvariant, PTL

-----------------------------------------------------------------------------
(* What /new clears stays cleared.                                         *)

\* Thread th is between a GetOrCreate and the end of its operation.
Working(th) == pc[th] \notin {"idle", "fetch", "newFetch", "none", "over"}
\* All messages of q belong to turns after turn n.
After(q, n) == \A i \in DOMAIN q : q[i].turn > n

\* While turns are serial every thread works on the cached object.
Cached == \A th \in Threads : Working(th) => obj[th] = cache

\* The last successful /new was before the turn at hand.
FreshTurn == fresh <= turn /\ (Preparing \/ pc[Worker] = "reading" => fresh < turn)

\* What /new saves is empty.
Clearing ==
    /\ pc[Worker] \in SavePcs \cup {"saved"} => heap[cache].msgs = <<>> /\ heap[cache].lc = 0
    /\ pc[Worker] \in {"meta", "range", "lines", "saved"} => file.msgs = <<>>
    /\ pc[Worker] \in {"range", "lines", "saved"} => file.lc = 0
    /\ pc[Worker] = "lines" => buf[Worker] = <<>>

\* Wherever messages of the session are, they are later than the last /new.
AllLater ==
    /\ After(file.msgs, fresh)
    /\ cache # 0 => After(heap[cache].msgs, fresh)
    /\ \A th \in Threads : After(buf[th], fresh)

FreshInv == Cached /\ FreshTurn /\ Clearing /\ AllLater

\* After, and what is done to a sequence.
LEMMA AfterFacts ==
    ASSUME NEW q \in Seq(Message), NEW n \in Nat, After(q, n)
    PROVE  /\ \A m \in Message : m.turn > n => After(Append(q, m), n)
           /\ q # <<>> => After(Tail(q), n) /\ Head(q) \in Message /\ Head(q).turn > n
           /\ \A i, j \in Nat : j <= Len(q) => After(SubSeq(q, i + 1, j), n)
<1>1. ASSUME NEW m \in Message, m.turn > n PROVE After(Append(q, m), n)
  BY <1>1 DEF After
<1>2. ASSUME q # <<>> PROVE After(Tail(q), n) /\ Head(q) \in Message /\ Head(q).turn > n
  BY <1>2 DEF After
<1>3. ASSUME NEW i \in Nat, NEW j \in Nat, j <= Len(q) PROVE After(SubSeq(q, i + 1, j), n)
  BY <1>3, SliceType DEF After
<1> QED BY <1>1, <1>2, <1>3

\* An empty sequence is after everything.
LEMMA AfterEmpty == \A n : After(<<>>, n)
  BY DEF After

\* Every step keeps the parts of FreshInv: Cached,
LEMMA NextCached ==
    ASSUME TypeOK, Places, SerialInv, FreshInv, [Next]_vars
    PROVE  Cached'
<1>0. PlaceTypes /\ StoreTypes /\ Places /\ OneRuns
  BY TypeParts DEF SerialInv
<1> USE <1>0, ThreadFacts DEF PlaceTypes, PcTypes, TurnTypes, Working, Goto, At, turnVars,
    memVars, cmdVars, storeVars, SavePcs, OneRuns, Running, FreshInv, Cached, StoreTypes
<1>1. CASE UserStep
  BY <1>1 DEF UserStep, BeginTurn, BeginNew, SendStop, HandleStop
<1>2. CASE StreamStep
  <2>1. CASE StreamOpens
    <3>1. /\ pc[Worker] = "prompt" /\ obj'[turn] = obj[Worker] /\ turn \in Turns /\ cache' = cache
          /\ \A th \in Threads \ {turn} : obj'[th] = obj[th]
          /\ \A th \in Threads \ {Worker, turn} : pc'[th] = pc[th]
      BY <2>1, OpensFacts
    <3> QED BY <3>1
  <2>2. CASE StreamFails
    BY <2>2 DEF StreamFails
  <2>3. CASE ReadEnds
    BY <2>3 DEF ReadEnds
  <2> QED BY <1>2, <2>1, <2>2, <2>3 DEF StreamStep
<1>3. CASE FetchStep
  <2>1. Fetch(Worker) /\ pc[Worker] # "reading" /\ \E l \in {"consolidate", "archive"} : Goto(Worker, l)
    BY <1>3 DEF FetchStep, FetchSession, NewFetches
  <2>2. obj' = [obj EXCEPT ![Worker] = cache']
    BY <2>1, FetchFacts
  <2> QED BY <2>1, <2>2
<1>4. CASE NewStep
  <2>1. CASE NewArchives
    BY <2>1, RestFacts DEF NewArchives
  <2>2. CASE NewArchiveFails
    BY <2>2 DEF NewArchiveFails
  <2>3. CASE NewArchived
    BY <2>3, NewArchivedFacts DEF NewArchived, Archive, MarkMoves
  <2>4. CASE NewClears
    BY <2>4, NewClearsFacts DEF NewClears
  <2>5. CASE NewSucceeds
    BY <2>5 DEF NewSucceeds, Forget
  <2>6. CASE NewSaveFails
    BY <2>6 DEF NewSaveFails
  <2> QED BY <1>4, <2>1, <2>2, <2>3, <2>4, <2>5, <2>6 DEF NewStep
<1>5. ASSUME NEW t \in Turns, GoStep(t) PROVE Cached'
  <2>1. CASE StreamEnds(t)
    BY <2>1 DEF StreamEnds
  <2>2. CASE StreamBreaks(t)
    BY <2>2 DEF StreamBreaks
  <2>3. CASE Collect(t)
    BY <2>3 DEF Collect
  <2>4. CASE AddReads(t)
    BY <2>4 DEF AddReads
  <2>5. CASE AddWrites(t)
    BY <2>5 DEF AddWrites
  <2>6. CASE AfterSave(t)
    BY <2>6 DEF AfterSave
  <2>7. CASE Finish(t)
    BY <2>7 DEF Finish
  <2> QED BY <1>5, <2>1, <2>2, <2>3, <2>4, <2>5, <2>6, <2>7 DEF GoStep
<1>6. ASSUME NEW th \in Threads, SaveStep(th) PROVE Cached'
  <2>1. CASE SaveOpens(th)
    BY <2>1 DEF SaveOpens
  <2>2. CASE SaveMeta(th)
    BY <2>2 DEF SaveMeta
  <2>3. CASE SaveRange(th)
    BY <2>3 DEF SaveRange
  <2>4. CASE SaveLine(th)
    BY <2>4 DEF SaveLine
  <2>5. CASE SaveDone(th)
    BY <2>5 DEF SaveDone
  <2>6. CASE SaveFails(th)
    BY <2>6 DEF SaveFails
  <2> QED BY <1>6, <2>1, <2>2, <2>3, <2>4, <2>5, <2>6 DEF SaveStep, Save
<1>7. ASSUME NEW th \in Threads, Consolidate(th) PROVE Cached'
  <2>1. CASE ConsolidateEnds(th)
    BY <2>1 DEF ConsolidateEnds, AfterRounds
  <2>2. CASE PickBatch(th)
    BY <2>2 DEF PickBatch
  <2>3. CASE SummaryFails(th)
    BY <2>3 DEF SummaryFails, AfterRounds
  <2>4. CASE Summarised(th)
    BY <2>4 DEF Summarised
  <2> QED BY <1>7, <2>1, <2>2, <2>3, <2>4 DEF Consolidate
<1>8. CASE Restart
  BY <1>8 DEF Restart, StoreCrash
<1>9. CASE UNCHANGED vars
  BY <1>9 DEF vars
<1> QED BY <1>1, <1>2, <1>3, <1>4, <1>5, <1>6, <1>7, <1>8, <1>9, Steps

\* ... FreshTurn,
LEMMA NextFreshTurn ==
    ASSUME TypeOK, Places, SerialInv, FreshInv, [Next]_vars
    PROVE  FreshTurn'
<1>0. PlaceTypes /\ StoreTypes /\ Places /\ OneRuns
  BY TypeParts DEF SerialInv
<1> USE <1>0, ThreadFacts DEF PlaceTypes, PcTypes, TurnTypes, Working, Goto, At, turnVars,
    memVars, cmdVars, storeVars, SavePcs, FreshInv, FreshTurn, Preparing, Places, LockOK,
    TurnOK
<1>1. CASE UserStep
  <2>1. CASE BeginTurn
    BY <2>1 DEF BeginTurn
  <2>2. CASE BeginNew
    BY <2>2 DEF BeginNew
  <2>3. CASE SendStop
    BY <2>3 DEF SendStop
  <2>4. CASE HandleStop
    BY <2>4 DEF HandleStop
  <2> QED BY <1>1, <2>1, <2>2, <2>3, <2>4 DEF UserStep
<1>2. CASE StreamStep
  <2>1. CASE StreamOpens
    BY <2>1, OpensFacts
  <2>2. CASE StreamFails
    BY <2>2 DEF StreamFails
  <2>3. CASE ReadEnds
    BY <2>3 DEF ReadEnds
  <2> QED BY <1>2, <2>1, <2>2, <2>3 DEF StreamStep
<1>3. CASE FetchStep
  BY <1>3 DEF FetchStep, FetchSession, NewFetches, Fetch
<1>4. CASE NewStep
  <2>1. CASE NewArchives
    BY <2>1, RestFacts DEF NewArchives
  <2>2. CASE NewArchiveFails
    BY <2>2 DEF NewArchiveFails
  <2>3. CASE NewArchived
    BY <2>3, NewArchivedFacts DEF NewArchived, Archive, MarkMoves
  <2>4. CASE NewClears
    BY <2>4, NewClearsFacts DEF NewClears
  <2>5. CASE NewSucceeds
    BY <2>5 DEF NewSucceeds, Forget
  <2>6. CASE NewSaveFails
    BY <2>6 DEF NewSaveFails
  <2> QED BY <1>4, <2>1, <2>2, <2>3, <2>4, <2>5, <2>6 DEF NewStep
<1>5. ASSUME NEW t \in Turns, GoStep(t) PROVE FreshTurn'
  <2>1. UNCHANGED <<fresh, turn, lock>> /\ \E l \in TurnPcs : Goto(t, l)
    BY <1>5, SMTT(30) DEF GoStep, StreamEnds, StreamBreaks, Collect, AddReads, AddWrites,
       AfterSave, Finish, TurnPcs
  <2> QED BY <2>1
<1>6. ASSUME NEW th \in Threads, SaveStep(th) PROVE FreshTurn'
  BY <1>6 DEF SaveStep, Save, SaveOpens, SaveMeta, SaveRange, SaveLine, SaveDone, SaveFails
<1>7. ASSUME NEW th \in Threads, Consolidate(th) PROVE FreshTurn'
  <2>1. CASE ConsolidateEnds(th)
    BY <2>1 DEF ConsolidateEnds, AfterRounds
  <2>2. CASE PickBatch(th)
    BY <2>2 DEF PickBatch
  <2>3. CASE SummaryFails(th)
    BY <2>3 DEF SummaryFails, AfterRounds
  <2>4. CASE Summarised(th)
    BY <2>4 DEF Summarised
  <2> QED BY <1>7, <2>1, <2>2, <2>3, <2>4 DEF Consolidate
<1>8. CASE Restart
  BY <1>8 DEF Restart, StoreCrash
<1>9. CASE UNCHANGED vars
  BY <1>9 DEF vars
<1> QED BY <1>1, <1>2, <1>3, <1>4, <1>5, <1>6, <1>7, <1>8, <1>9, Steps

\* ... Clearing,
LEMMA NextClearing ==
    ASSUME TypeOK, Places, SerialInv, FreshInv, [Next]_vars
    PROVE  Clearing'
<1>0. PlaceTypes /\ StoreTypes /\ Places /\ OneRuns
  BY TypeParts DEF SerialInv
<1>go. ASSUME NEW t \in Turns, GoStep(t)
       PROVE  pc[t] \notin {"none", "over"} /\ pc'[Worker] = pc[Worker]
  BY <1>go, GoMoves, ThreadFacts DEF Running
<1>save. ASSUME NEW th \in Threads, SaveStep(th)
         PROVE  /\ pc[th] \in SavePcs /\ pc[th] \notin {"none", "over"}
                /\ th # Worker => pc'[Worker] = pc[Worker]
  BY <1>save, SaveMoves, ThreadFacts DEF SavePcs
<1>own. pc[Worker] \in SavePcs =>
            obj[Worker] = cache /\ cache # 0 /\ cache \in 1 .. Len(heap)
  <2>1. cache \in Nat /\ cache <= Len(heap) /\ Len(heap) \in Nat
    BY <1>0 DEF StoreTypes
  <2>2. pc[Worker] \in SavePcs => obj[Worker] = cache /\ obj[Worker] # 0
    BY <1>0, ThreadFacts DEF FreshInv, Cached, Working, Places, ObjOK, SavePcs
  <2> QED BY <2>1, <2>2
<1> USE <1>0, ThreadFacts DEF PlaceTypes, PcTypes, TurnTypes, Working, Goto, At, turnVars,
    memVars, cmdVars, storeVars, SavePcs, FreshInv, Clearing, OneRuns, Running, StoreTypes
<1>1. CASE UserStep
  <2>1. CASE BeginTurn
    BY <2>1 DEF BeginTurn
  <2>2. CASE BeginNew
    BY <2>2 DEF BeginNew
  <2>3. CASE SendStop
    BY <2>3 DEF SendStop
  <2>4. CASE HandleStop
    BY <2>4 DEF HandleStop
  <2> QED BY <1>1, <2>1, <2>2, <2>3, <2>4 DEF UserStep
<1>2. CASE StreamStep
  <2>1. CASE StreamOpens
    BY <2>1, OpensFacts
  <2>2. CASE StreamFails
    BY <2>2 DEF StreamFails
  <2>3. CASE ReadEnds
    BY <2>3 DEF ReadEnds
  <2> QED BY <1>2, <2>1, <2>2, <2>3 DEF StreamStep
<1>3. CASE FetchStep
  <2>1. pc'[Worker] \notin SavePcs \cup {"saved"}
    BY <1>3 DEF FetchStep, FetchSession, NewFetches
  <2> QED BY <2>1
<1>4. CASE NewStep
  <2>1. CASE NewArchives
    <3>1. pc'[Worker] \notin SavePcs \cup {"saved"}
      BY <2>1 DEF NewArchives
    <3> QED BY <3>1
  <2>2. CASE NewArchiveFails
    <3>1. pc'[Worker] \notin SavePcs \cup {"saved"}
      BY <2>2 DEF NewArchiveFails
    <3> QED BY <3>1
  <2>3. CASE NewArchived
    <3>1. pc'[Worker] \notin SavePcs \cup {"saved"}
      BY <2>3 DEF NewArchived
    <3> QED BY <3>1
  <2>4. CASE NewClears
    <3>1. obj[Worker] = cache
      BY <2>4 DEF NewClears, Cached
    <3>2. heap'[cache] = [msgs |-> <<>>, lc |-> 0] /\ cache' = cache /\ pc'[Worker] = "save"
      BY <2>4, <3>1, NewClearsFacts DEF NewClears
    <3>3. heap'[cache].msgs = <<>> /\ heap'[cache].lc = 0
      BY <3>2
    <3> QED BY <3>2, <3>3
  <2>5. CASE NewSucceeds
    <3>1. pc'[Worker] \notin SavePcs \cup {"saved"}
      BY <2>5 DEF NewSucceeds
    <3> QED BY <3>1
  <2>6. CASE NewSaveFails
    <3>1. pc'[Worker] \notin SavePcs \cup {"saved"}
      BY <2>6 DEF NewSaveFails
    <3> QED BY <3>1
  <2> QED BY <1>4, <2>1, <2>2, <2>3, <2>4, <2>5, <2>6 DEF NewStep
<1>5. ASSUME NEW t \in Turns, GoStep(t) PROVE Clearing'
  <2>1. pc[t] \notin {"none", "over"} /\ pc'[Worker] = pc[Worker]
    BY <1>5, <1>go
  <2>2. pc[Worker] = "reading"
    BY <2>1
  <2> QED BY <2>1, <2>2
<1>6. ASSUME NEW th \in Threads, SaveStep(th) PROVE Clearing'
  <2>1. CASE th # Worker
    <3>1. pc[th] \notin {"none", "over"} /\ pc'[Worker] = pc[Worker]
      BY <1>6, <2>1, <1>save
    <3>2. pc[Worker] = "reading"
      BY <2>1, <3>1
    <3> QED BY <3>1, <3>2
  <2>2. CASE th = Worker
    <3>0. pc[Worker] \in SavePcs
      <4>1. pc[th] \in SavePcs
        BY <1>6, <1>save
      <4> QED BY <2>2, <4>1
    <3>1. obj[Worker] = cache /\ cache # 0 /\ cache \in 1 .. Len(heap)
      BY <3>0, <1>own
    <3>2. CASE SaveOpens(Worker)
      BY <3>2 DEF SaveOpens, NoFile
    <3>3. CASE SaveMeta(Worker)
      BY <3>1, <3>3 DEF SaveMeta
    <3>4. CASE SaveRange(Worker)
      BY <3>1, <3>4 DEF SaveRange
    <3>5. CASE SaveLine(Worker)
      BY <3>5 DEF SaveLine
    <3>6. CASE SaveDone(Worker)
      BY <3>1, <3>6 DEF SaveDone
    <3>7. CASE SaveFails(Worker)
      BY <3>7 DEF SaveFails
    <3> QED BY <1>6, <2>2, <3>2, <3>3, <3>4, <3>5, <3>6, <3>7 DEF SaveStep, Save
  <2> QED BY <2>1, <2>2
<1>7. ASSUME NEW th \in Threads, Consolidate(th) PROVE Clearing'
  <2>1. CASE th # Worker
    <3>1. pc[th] \notin {"none", "over"} /\ pc'[Worker] = pc[Worker]
      BY <1>7, <2>1, SMTT(30) DEF Consolidate, ConsolidateEnds, PickBatch, SummaryFails,
         Summarised
    <3>2. pc[Worker] = "reading"
      BY <2>1, <3>1
    <3> QED BY <3>1, <3>2
  <2>2. CASE th = Worker
    <3>1. pc'[Worker] \notin SavePcs \cup {"saved"}
      BY <1>7, <2>2, SMTT(30) DEF Consolidate, ConsolidateEnds, PickBatch, SummaryFails,
         Summarised, AfterRounds
    <3> QED BY <3>1
  <2> QED BY <2>1, <2>2
<1>8. CASE Restart
  <2>1. pc'[Worker] \notin SavePcs \cup {"saved"}
    BY <1>8 DEF Restart, StoreCrash
  <2> QED BY <2>1
<1>9. CASE UNCHANGED vars
  BY <1>9 DEF vars
<1> QED BY <1>1, <1>2, <1>3, <1>4, <1>5, <1>6, <1>7, <1>8, <1>9, Steps

\* ... and AllLater.
LEMMA NextAllLater ==
    ASSUME TypeOK, Places, SerialInv, FreshInv, [Next]_vars
    PROVE  AllLater'
<1>0. PlaceTypes /\ StoreTypes /\ Places /\ OneRuns
  BY TypeParts DEF SerialInv
<1> USE <1>0, ThreadFacts, AfterEmpty DEF PlaceTypes, PcTypes, TurnTypes, StoreTypes, Goto,
    At, turnVars, memVars, cmdVars, storeVars, FreshInv, AllLater
<1>1. CASE UserStep
  <2>1. UNCHANGED <<file, heap, cache, buf, fresh>>
    BY <1>1 DEF UserStep, BeginTurn, BeginNew, SendStop, HandleStop
  <2> QED BY <2>1
<1>2. CASE StreamStep
  <2>1. CASE StreamOpens
    <3>1. UNCHANGED <<file, heap, cache, buf, fresh>>
      BY <2>1 DEF StreamOpens
    <3> QED BY <3>1
  <2>2. CASE StreamFails
    BY <2>2 DEF StreamFails
  <2>3. CASE ReadEnds
    BY <2>3 DEF ReadEnds
  <2> QED BY <1>2, <2>1, <2>2, <2>3 DEF StreamStep
<1>3. CASE FetchStep
  <2>1. Fetch(Worker) /\ UNCHANGED <<fresh, file, buf>>
    BY <1>3 DEF FetchStep, FetchSession, NewFetches, Fetch
  <2>2. After(Loaded(file).msgs, fresh)
    BY DEF Loaded
  <2>3. After(heap'[cache'].msgs, fresh)
    BY <2>1, <2>2, FetchFacts
  <2> QED BY <2>1, <2>3
<1>4. CASE NewStep
  <2>1. CASE NewArchives
    <3>1. obj[Worker] = cache /\ cache # 0 /\ fresh \in Nat
      BY <2>1 DEF NewArchives, Cached, Working, Places, ObjOK
    <3>2. Sess(Worker) = heap[cache] /\ Sess(Worker).msgs \in Seq(Message) /\ Sess(Worker).lc \in Nat
      BY <2>1, <3>1, SessType DEF NewArchives
    <3>3. After(SubSeq(Sess(Worker).msgs, Sess(Worker).lc + 1, Len(Sess(Worker).msgs)), fresh)
      BY <3>1, <3>2, AfterFacts
    <3> QED BY <2>1, <3>3 DEF NewArchives
  <2>2. CASE NewArchiveFails
    BY <2>2 DEF NewArchiveFails
  <2>3. CASE NewArchived
    <3>1. obj[Worker] = cache
      BY <2>3 DEF NewArchived, Cached, Working
    <3>2. heap'[cache].msgs = heap[cache].msgs
      BY <2>3, <3>1, NewArchivedFacts DEF MarkMoves
    <3> QED BY <2>3, <3>2 DEF NewArchived, Archive
  <2>4. CASE NewClears
    <3>1. obj[Worker] = cache
      BY <2>4 DEF NewClears, Cached, Working
    <3>2. heap'[cache].msgs = <<>>
      BY <2>4, <3>1, NewClearsFacts
    <3> QED BY <2>4, <3>2 DEF NewClears
  <2>5. CASE NewSucceeds
    <3>1. file.msgs = <<>>
      BY <2>5 DEF NewSucceeds, Clearing
    <3>2. \A th \in Threads : buf[th] = <<>>
      BY <2>5 DEF NewSucceeds, OneRuns, Running, Places, BufOK
    <3> QED BY <2>5, <3>1, <3>2 DEF NewSucceeds, Forget
  <2>6. CASE NewSaveFails
    BY <2>6 DEF NewSaveFails
  <2> QED BY <1>4, <2>1, <2>2, <2>3, <2>4, <2>5, <2>6 DEF NewStep
<1>5. ASSUME NEW t \in Turns, GoStep(t) PROVE AllLater'
  <2>1. CASE StreamEnds(t)
    BY <2>1 DEF StreamEnds
  <2>2. CASE StreamBreaks(t)
    BY <2>2 DEF StreamBreaks
  <2>3. CASE Collect(t)
    BY <2>3 DEF Collect
  <2>4. CASE AddReads(t)
    <3>1. obj[t] = cache /\ cache # 0
      BY <2>4 DEF AddReads, Cached, Working, Places, ObjOK
    <3>2. UNCHANGED <<fresh, file, heap, cache>> /\ buf' = [buf EXCEPT ![t] = heap[cache].msgs]
      BY <2>4, <3>1 DEF AddReads, Sess
    <3> QED BY <3>1, <3>2
  <2>5. CASE AddWrites(t)
    <3>1. obj[t] = cache /\ fresh < t /\ fresh \in Nat
      BY <2>5 DEF AddWrites, Cached, Working, OneRuns, Running, FreshTurn
    <3>2. PICK m \in Message : m.turn = t /\ heap'[cache].msgs = Append(buf[t], m)
      BY <2>5, <3>1, WriteFacts DEF UserMsg, ReplyMsg
    <3>3. After(heap'[cache].msgs, fresh)
      BY <3>1, <3>2, AfterFacts
    <3>4. UNCHANGED <<fresh, file, cache>> /\ buf' = [buf EXCEPT ![t] = <<>>]
      BY <2>5 DEF AddWrites, Put
    <3> QED BY <3>3, <3>4
  <2>6. CASE AfterSave(t)
    BY <2>6 DEF AfterSave
  <2>7. CASE Finish(t)
    BY <2>7 DEF Finish
  <2> QED BY <1>5, <2>1, <2>2, <2>3, <2>4, <2>5, <2>6, <2>7 DEF GoStep
<1>6. ASSUME NEW th \in Threads, SaveStep(th) PROVE AllLater'
  <2>1. CASE SaveOpens(th)
    BY <1>6, <2>1 DEF SaveOpens, NoFile, SaveStep
  <2>2. CASE SaveMeta(th)
    <3>1. file'.msgs = <<>> /\ UNCHANGED <<heap, cache, buf, fresh>>
      BY <1>6, <2>2 DEF SaveMeta, SaveStep
    <3> QED BY <3>1
  <2>3. CASE SaveRange(th)
    <3>1. obj[th] = cache /\ cache # 0
      BY <2>3 DEF SaveRange, Cached, Working, Places, ObjOK
    <3>2. UNCHANGED <<fresh, file, heap, cache>> /\ buf' = [buf EXCEPT ![th] = heap[cache].msgs]
      BY <1>6, <2>3, <3>1 DEF SaveRange, SaveStep
    <3> QED BY <3>1, <3>2
  <2>4. CASE SaveLine(th)
    <3>1. fresh \in Nat /\ file.msgs \in Seq(Message) /\ buf[th] # <<>>
      BY <2>4 DEF SaveLine, File
    <3>2. Head(buf[th]) \in Message /\ Head(buf[th]).turn > fresh /\ After(Tail(buf[th]), fresh)
      BY <3>1, AfterFacts
    <3>3. file'.msgs = Append(file.msgs, Head(buf[th]))
      BY <2>4, <3>2, FileLine DEF SaveLine
    <3>4. After(file'.msgs, fresh)
      BY <3>1, <3>2, <3>3, AfterFacts
    <3>5. UNCHANGED <<fresh, heap, cache>> /\ buf' = [buf EXCEPT ![th] = Tail(buf[th])]
      BY <1>6, <2>4 DEF SaveLine, SaveStep
    <3> QED BY <3>2, <3>4, <3>5
  <2>5. CASE SaveDone(th)
    <3>1. obj[th] = cache
      BY <2>5 DEF SaveDone, Cached, Working
    <3> QED BY <1>6, <2>5, <3>1 DEF SaveDone, SaveStep
  <2>6. CASE SaveFails(th)
    BY <1>6, <2>6 DEF SaveFails, SaveStep
  <2> QED BY <1>6, <2>1, <2>2, <2>3, <2>4, <2>5, <2>6 DEF SaveStep, Save
<1>7. ASSUME NEW th \in Threads, Consolidate(th) PROVE AllLater'
  <2>1. CASE ConsolidateEnds(th)
    BY <2>1 DEF ConsolidateEnds, AfterRounds
  <2>2. CASE PickBatch(th)
    <3>1. obj[th] = cache /\ cache # 0 /\ fresh \in Nat
      BY <2>2 DEF PickBatch, Cached, Working, Places, ObjOK
    <3>2. Sess(th) = heap[cache] /\ Sess(th).msgs \in Seq(Message) /\ Sess(th).lc \in Nat
      BY <2>2, <3>1, SessType DEF PickBatch
    <3>3. PICK b \in Nat : /\ b <= Len(Sess(th).msgs)
                           /\ buf' = [buf EXCEPT ![th] = SubSeq(Sess(th).msgs, Sess(th).lc + 1, b)]
      BY <2>2, BatchFacts
    <3>4. After(SubSeq(Sess(th).msgs, Sess(th).lc + 1, b), fresh)
      BY <3>1, <3>2, <3>3, AfterFacts
    <3> QED BY <2>2, <3>3, <3>4 DEF PickBatch
  <2>3. CASE SummaryFails(th)
    BY <2>3 DEF SummaryFails, AfterRounds
  <2>4. CASE Summarised(th)
    <3>1. obj[th] = cache
      BY <2>4 DEF Summarised, Cached, Working
    <3>2. heap'[cache].msgs = heap[cache].msgs
      BY <2>4, <3>1, SummarisedFacts DEF MarkMoves
    <3> QED BY <2>4, <3>2 DEF Summarised, Archive
  <2> QED BY <1>7, <2>1, <2>2, <2>3, <2>4 DEF Consolidate
<1>8. CASE Restart
  <2>1. cache' = 0 /\ buf' = [th \in Threads |-> <<>>] /\ UNCHANGED <<file, fresh>>
    BY <1>8 DEF Restart, StoreCrash
  <2> QED BY <2>1
<1>9. CASE UNCHANGED vars
  BY <1>9 DEF vars
<1> QED BY <1>1, <1>2, <1>3, <1>4, <1>5, <1>6, <1>7, <1>8, <1>9, Steps

\* FreshInv holds always while streams do not break, through crashes and disk faults.
LEMMA FreshInvariant ==
    ASSUME ~StreamsBreak
    PROVE  Spec => []FreshInv
<1>1. Init => FreshInv
  <2> SUFFICES ASSUME Init PROVE FreshInv
    OBVIOUS
  <2>1. Cached
    BY ThreadFacts DEF Init, Cached, Working
  <2>2. FreshTurn /\ Clearing
    BY ThreadFacts DEF Init, FreshTurn, Clearing, Preparing, SavePcs
  <2>3. AllLater
    BY ThreadFacts, AfterEmpty DEF Init, StoreInit, NoFile, AllLater
  <2> QED BY <2>1, <2>2, <2>3 DEF FreshInv
<1>2. TypeOK /\ Places /\ SerialInv /\ FreshInv /\ [Next]_vars => FreshInv'
  BY NextCached, NextFreshTurn, NextClearing, NextAllLater DEF FreshInv
<1> QED BY <1>1, <1>2, PlacesInvariant, SerialInvariant, PTL DEF Spec

\* What a successful /new cleared never comes back, through crashes and disk faults: no
\* thread holds an older object, slice or file (agent.go:455-480).
THEOREM NewClearsForGood ==
    ASSUME ~StreamsBreak
    PROVE  Spec => []ClearedStaysCleared
<1>1. FreshInv => ClearedStaysCleared
  <2> SUFFICES ASSUME FreshInv PROVE ClearedStaysCleared
    OBVIOUS
  <2>1. After(Current.msgs, fresh)
    BY AfterEmpty DEF FreshInv, AllLater, Current, Loaded
  <2> QED BY <2>1 DEF ClearedStaysCleared, Elems, After
<1> QED BY <1>1, FreshInvariant, PTL

==============================================================================
