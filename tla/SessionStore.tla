---------------------------- MODULE SessionStore ----------------------------
(***************************************************************************)
(* The session manager (internal/session/manager.go) seen from one session *)
(* key: session objects in memory, the cache that holds at most one of     *)
(* them, the JSONL file, and the manager's mutex.  Save writes in place    *)
(* and line by line, so every line is a step of its own and the process    *)
(* can die, or the disk refuse a write, between two lines.                 *)
(*                                                                         *)
(* A thread calls Save by setting its pc to "save"; it finds itself at     *)
(* "saved" or "saveFailed" when the call returns.                          *)
(***************************************************************************)
EXTENDS Integers, Sequences, FiniteSets

CONSTANTS
    MaxTurns,       \* bound of the model: turns; turn t has the thread t
    DiskFaults      \* whether a write to disk may fail

ASSUME MaxTurnsNat == MaxTurns \in Nat \ {0}
ASSUME DiskFaultsBool == DiskFaults \in BOOLEAN

Worker  == 0                    \* the session's worker goroutine
Turns   == 1..MaxTurns          \* the goroutines ChatStream starts
Threads == 0..MaxTurns
Nobody  == -1                   \* a mutex that is free

VARIABLES
    heap,       \* session objects: sequence of [msgs, lc]; lc is LastConsolidated
    cache,      \* SessionManager.cache[key]: index of an object, 0 if none
    file,       \* the JSONL file
    mu,         \* SessionManager.mu: the thread that holds it, or Nobody
    obj,        \* obj[th]: the object thread th holds a pointer to, 0 if none
    buf,        \* buf[th]: the slice thread th read and has not finished with
    pc          \* pc[th]: where thread th is

storeVars == <<heap, cache, file, mu, obj, buf, pc>>

Message == [turn : Turns, role : {"user", "assistant"}]
Session == [msgs : Seq(Message), lc : Nat]

\* A file without metadata line, be it absent or just truncated, has no
\* session in it.
NoFile == [meta |-> FALSE, lc |-> 0, msgs |-> <<>>]
File   == [meta : BOOLEAN, lc : Nat, msgs : Seq(Message)]

\* load, and the fresh session GetOrCreate makes when there is none.
Loaded(f) == IF f.meta THEN [msgs |-> f.msgs, lc |-> f.lc]
                       ELSE [msgs |-> <<>>, lc |-> 0]

\* The session that GetOrCreate would return.
Current == IF cache # 0 THEN heap[cache] ELSE Loaded(file)

SavePcs == {"save", "meta", "range", "lines"}

StoreInit ==
    /\ heap = <<>> /\ cache = 0
    /\ file = NoFile
    /\ mu = Nobody
    /\ obj = [th \in Threads |-> 0]
    /\ buf = [th \in Threads |-> <<>>]

At(th, l) == pc[th] = l
Goto(th, l) == pc' = [pc EXCEPT ![th] = l]

\* GetOrCreate: the cached object, else the one on disk, else a fresh one;
\* either of the latter is cached.
Fetch(th) ==
    /\ mu = Nobody
    /\ \/ /\ cache # 0
          /\ obj' = [obj EXCEPT ![th] = cache]
          /\ UNCHANGED <<heap, cache>>
       \/ /\ cache = 0
          /\ heap' = Append(heap, Loaded(file))
          /\ cache' = Len(heap')
          /\ obj' = [obj EXCEPT ![th] = Len(heap')]
    /\ UNCHANGED <<file, mu, buf>>

-----------------------------------------------------------------------------
(* Save.                                                                   *)

SaveOpens_NoLock(th) ==
    /\ At(th, "save")
    /\ mu' = th
    /\ file' = NoFile
    /\ Goto(th, "meta")
    /\ UNCHANGED <<heap, cache, obj, buf>>

\* Take the mutex; os.Create truncates the file.
SaveOpens(th) ==
    /\ At(th, "save")
    /\ mu = Nobody
    /\ mu' = th
    /\ file' = NoFile
    /\ Goto(th, "meta")
    /\ UNCHANGED <<heap, cache, obj, buf>>

\* The metadata line, with LastConsolidated.
SaveMeta(th) ==
    /\ At(th, "meta")
    /\ file' = [meta |-> TRUE, lc |-> heap[obj[th]].lc, msgs |-> <<>>]
    /\ Goto(th, "range")
    /\ UNCHANGED <<heap, cache, mu, obj, buf>>

\* range s.Messages reads the slice once.
SaveRange(th) ==
    /\ At(th, "range")
    /\ buf' = [buf EXCEPT ![th] = heap[obj[th]].msgs]
    /\ Goto(th, "lines")
    /\ UNCHANGED <<heap, cache, file, mu, obj>>

SaveLine(th) ==
    /\ At(th, "lines")
    /\ buf[th] # <<>>
    /\ file' = [file EXCEPT !.msgs = Append(@, Head(buf[th]))]
    /\ buf' = [buf EXCEPT ![th] = Tail(@)]
    /\ UNCHANGED <<heap, cache, mu, obj, pc>>

\* The object becomes the cached one.
SaveDone(th) ==
    /\ At(th, "lines")
    /\ buf[th] = <<>>
    /\ cache' = obj[th]
    /\ mu' = Nobody
    /\ Goto(th, "saved")
    /\ UNCHANGED <<heap, file, obj, buf>>

\* Creating the file or encoding a line fails: what is written stays, the
\* cache does not change.
SaveFails(th) ==
    /\ DiskFaults
    /\ \/ At(th, "save") /\ mu = Nobody
       \/ At(th, "meta")
       \/ At(th, "lines") /\ buf[th] # <<>>
    /\ mu' = Nobody
    /\ buf' = [buf EXCEPT ![th] = <<>>]
    /\ Goto(th, "saveFailed")
    /\ UNCHANGED <<heap, cache, file, obj>>

Save(th) ==
    \/ SaveOpens(th) \/ SaveMeta(th) \/ SaveRange(th)
    \/ SaveLine(th) \/ SaveDone(th) \/ SaveFails(th)

\* Invalidate.
Forget ==
    /\ mu = Nobody
    /\ cache' = 0
    /\ UNCHANGED <<heap, file, mu, obj, buf>>

StoreCrash_KeepsCache ==
    /\ heap' = <<>>
    /\ mu' = Nobody
    /\ obj' = [th \in Threads |-> 0]
    /\ buf' = [th \in Threads |-> <<>>]
    /\ UNCHANGED <<file, cache>>

\* The process dies: only the file is left.
StoreCrash ==
    /\ heap' = <<>> /\ cache' = 0
    /\ mu' = Nobody
    /\ obj' = [th \in Threads |-> 0]
    /\ buf' = [th \in Threads |-> <<>>]
    /\ UNCHANGED file

=============================================================================
