------------------------------ MODULE FileTools ------------------------------
(***************************************************************************)
(* The tools of internal/tool/tools that read and change files of the      *)
(* workspace: read_file, write_file, edit_file and apply_patch.  Calls of  *)
(* one answer run at the same time (the ToolsNode of eino does not look at *)
(* ConcurrencySafe or Exclusive, and nothing else does), and so do those   *)
(* of other sessions.  Reading a file is a step, writing it two:           *)
(* os.WriteFile truncates and then writes.                                 *)
(*                                                                         *)
(* A text is a nonempty sequence of lines, a line its text without outer   *)
(* white space and its indentation.  A match that begins or ends inside a  *)
(* line is not modelled, nor are an empty old_string, paths that are       *)
(* refused, the wording of results and list_dir, which changes nothing.    *)
(***************************************************************************)
EXTENDS Integers, SequencesExt

CONSTANTS
    InitialFiles, \* [files -> text, or Absent]
    ToolCalls,    \* [ids of calls -> [tool, edits]]: see Tools
    ReadBudget    \* lines of a page of read_file (code: 128 * 1024 characters)

VARIABLES
    disk,         \* [files -> text, or Absent]
    job,          \* [ToolCalls' ids -> [phase, at, pending]]
    pages,        \* [ToolCalls' ids -> Seq of pages read_file has returned]
    over,         \* history: calls that change files, in the order they returned
    clashed,      \* history: files on which two such calls overlapped
    faulted       \* history: files that could not be read or written

fileVars == <<disk, job, pages, over, clashed, faulted>>

\* An edit has file, old, new and all; write_file has one with file and new; the edit of
\* read_file has file, offset and limit.
Tools == {"read_file", "write_file", "edit_file", "apply_patch"}
CallIds == DOMAIN ToolCalls
FileNames == DOMAIN InitialFiles
Absent == <<>>
EmptyText == <<[text |-> "", indent |-> ""]>>

Edits(c) == ToolCalls[c].edits
FilesOf(c) == {Edits(c)[i].file : i \in DOMAIN Edits(c)}
Edit(c) == Edits(c)[job[c].at]
Writer(c) == ToolCalls[c].tool # "read_file"
Underway(c) == job[c].phase \notin {"none", "over"}

\* A text has a line at least, so writing a file never makes it absent.
ASSUME FileToolsAssumption ==
    /\ InitialFiles = [f \in FileNames |-> InitialFiles[f]]
    /\ \A c \in CallIds :
          /\ ToolCalls[c].tool \in Tools
          /\ Edits(c) \in Seq(ToSet(Edits(c))) /\ Edits(c) # <<>>
          /\ ToolCalls[c].tool # "apply_patch" => Len(Edits(c)) = 1
          /\ FilesOf(c) \subseteq FileNames
          /\ Writer(c) => \A i \in DOMAIN Edits(c) : Edits(c)[i].new # Absent

FileTypeOK ==
    /\ DOMAIN disk = FileNames
    /\ \A c \in CallIds :
          /\ job[c].phase \in {"none", "page", "reading", "opening", "filling", "over"}
          /\ job[c].at \in 1 .. Len(Edits(c)) + 1
          /\ job[c].phase \in {"opening", "filling"} <=> job[c].pending # Absent
    /\ clashed \cup faulted \subseteq FileNames
    /\ IsInjective(over) /\ ToSet(over) \subseteq {c \in CallIds : job[c].phase = "over"}

FileInit ==
    /\ disk = InitialFiles
    /\ job = [c \in CallIds |-> [phase |-> "none", at |-> 1, pending |-> Absent]]
    /\ pages = [c \in CallIds |-> <<>>]
    /\ over = <<>> /\ clashed = {} /\ faulted = {}

-----------------------------------------------------------------------------
(* What a call does to a text                                               *)

Windows(text, n) == 1 .. Len(text) - n + 1
Window(text, i, n) == SubSeq(text, i, i + n - 1)
Places(text, old) == {i \in Windows(text, Len(old)) : Window(text, i, Len(old)) = old}
Least(S) == CHOOSE i \in S : \A j \in S : i <= j

\* findWhitespaceMatch: the first window whose lines are equal apart from white space.
FindWhitespaceMatch(text, old) ==
    LET like == {i \in Windows(text, Len(old)) :
                   \A k \in DOMAIN old : text[i + k - 1].text = old[k].text}
    IN  IF like = {} THEN Absent ELSE Window(text, Least(like), Len(old))

Matched(text, old) ==
    IF Places(text, old) # {} THEN old ELSE FindWhitespaceMatch(text, old)

ReplaceFirst(text, old, new) ==
    LET i == Least(Places(text, old))
    IN  SubSeq(text, 1, i - 1) \o new \o SubSeq(text, i + Len(old), Len(text))

\* strings.ReplaceAll and strings.Count take occurrences that do not overlap, from the left.
ReplaceEach(text, old, new) ==
    LET From[i \in 1 .. Len(text) + 1] ==
          IF i > Len(text) THEN <<>>
          ELSE IF i \in Places(text, old) THEN new \o From[i + Len(old)]
          ELSE <<text[i]>> \o From[i + 1]
    IN  From[1]
Repeated(text, old) ==
    \E i, j \in Places(text, old) : j >= i + Len(old)

\* The new text, or Absent when the call reports an error: the file is missing, old is not
\* found, or edit_file finds it several times and is not to replace all.
NewText(tool, text, e) ==
    LET old == Matched(text, e.old) IN
    IF text = Absent \/ old = Absent THEN Absent
    ELSE IF tool = "apply_patch" THEN ReplaceFirst(text, old, e.new)
    ELSE IF Repeated(text, old) /\ ~e.all THEN Absent
    ELSE ReplaceEach(text, old, e.new)

\* A page of read_file.  The hint to go on is given only when the budget ends the page, and
\* names the line after the limit.
Page(text, offset, limit) ==
    LET rest  == Len(text) - offset + 1
        lines == IF limit < rest THEN limit ELSE rest
    IN  IF offset > Len(text) THEN [from |-> offset, shown |-> 0, next |-> 0]
        ELSE IF lines <= ReadBudget THEN [from |-> offset, shown |-> lines, next |-> 0]
        ELSE [from |-> offset, shown |-> ReadBudget, next |-> offset + lines]

-----------------------------------------------------------------------------

BeginCall(c) ==
    /\ job[c].phase = "none"
    /\ job' = [job EXCEPT ![c] =
         CASE ToolCalls[c].tool = "read_file"  -> [@ EXCEPT !.phase = "page"]
           [] ToolCalls[c].tool = "write_file" -> [@ EXCEPT !.phase = "opening",
                                                            !.pending = Edit(c).new]
           [] OTHER                            -> [@ EXCEPT !.phase = "reading"]]
    /\ clashed' = clashed \cup {f \in FilesOf(c) : Writer(c) /\
                     \E d \in CallIds : Writer(d) /\ Underway(d) /\ f \in FilesOf(d)}
    /\ UNCHANGED <<disk, pages, over, faulted>>

\* read_file, and again from the line its hint names; the model may leave it at that.
ReadPage(c) ==
    LET n == Len(pages[c])
        offset == IF n = 0 THEN Edit(c).offset ELSE pages[c][n].next
    IN
    /\ job[c].phase = "page"
    /\ \/ /\ n > 0 => pages[c][n].next # 0
          /\ disk[Edit(c).file] # Absent
          /\ pages' = [pages EXCEPT ![c] =
               Append(@, Page(disk[Edit(c).file], offset, Edit(c).limit))]
          /\ UNCHANGED job
       \/ job' = [job EXCEPT ![c].phase = "over"] /\ UNCHANGED pages
    /\ UNCHANGED <<disk, over, clashed, faulted>>

\* An edit has succeeded or failed: apply_patch goes on with the next either way.
NextEdit(c) ==
    IF job[c].at < Len(Edits(c))
    THEN job' = [job EXCEPT ![c] = [phase |-> "reading", at |-> @.at + 1, pending |-> Absent]]
         /\ UNCHANGED over
    ELSE job' = [job EXCEPT ![c] = [phase |-> "over", at |-> @.at + 1, pending |-> Absent]]
         /\ over' = Append(over, c)

AccessFails(c) == faulted' = faulted \cup {Edit(c).file} /\ NextEdit(c)

EditRead(c, text) ==
    IF text = Absent THEN NextEdit(c)
    ELSE /\ job' = [job EXCEPT ![c].phase = "opening", ![c].pending = text]
         /\ UNCHANGED over

ReadForEdit_Once(c) ==
    LET text == NewText(ToolCalls[c].tool, InitialFiles[Edit(c).file], Edit(c)) IN
    /\ job[c].phase = "reading"
    /\ \/ AccessFails(c) /\ disk[Edit(c).file] # Absent
       \/ EditRead(c, text) /\ UNCHANGED faulted
    /\ UNCHANGED <<disk, pages, clashed>>

\* os.ReadFile: a file that is there may not be read all the same.
ReadForEdit(c) ==
    LET text == NewText(ToolCalls[c].tool, disk[Edit(c).file], Edit(c)) IN
    /\ job[c].phase = "reading"
    /\ \/ AccessFails(c) /\ disk[Edit(c).file] # Absent
       \/ EditRead(c, text) /\ UNCHANGED faulted
    /\ UNCHANGED <<disk, pages, clashed>>

\* os.WriteFile: the file is created or truncated ...
OpenForWrite(c) ==
    /\ job[c].phase = "opening"
    /\ \/ /\ disk' = [disk EXCEPT ![Edit(c).file] = EmptyText]
          /\ job' = [job EXCEPT ![c].phase = "filling"]
          /\ UNCHANGED <<over, faulted>>
       \/ AccessFails(c) /\ UNCHANGED disk
    /\ UNCHANGED <<pages, clashed>>

\* ... and written.  After an error it stays empty, or as far as it was written.
FillFile(c) ==
    /\ job[c].phase = "filling"
    /\ \/ /\ disk' = [disk EXCEPT ![Edit(c).file] = job[c].pending]
          /\ NextEdit(c) /\ UNCHANGED faulted
       \/ AccessFails(c) /\ UNCHANGED disk
    /\ UNCHANGED <<pages, clashed>>

FileNext == \E c \in CallIds :
    BeginCall(c) \/ ReadPage(c) \/ ReadForEdit(c) \/ OpenForWrite(c) \/ FillFile(c)

FileSpec == FileInit /\ [][FileNext]_fileVars

-----------------------------------------------------------------------------
(* Properties                                                               *)

\* An edit of a call as one step, and the call as one step.
EditEffect(c, files, e) ==
    LET text == IF ToolCalls[c].tool = "write_file" THEN e.new
                ELSE NewText(ToolCalls[c].tool, files[e.file], e)
    IN  IF text = Absent THEN files ELSE [files EXCEPT ![e.file] = text]
Effect(files, c) == FoldLeft(LAMBDA fs, e : EditEffect(c, fs, e), files, Edits(c))

\* A file on which no two calls overlapped, and which each time could be read and written, holds
\* what the calls that returned make of it one after the other, all the edits of each:
\* other files that clash or fail do not matter, nor do failed edits of a patch
\* (apply_patch.go:60-131, filesystem.go:206-254).
SerialIfApart ==
    \A f \in FileNames \ (clashed \cup faulted) :
        (\A c \in CallIds : Writer(c) /\ f \in FilesOf(c) => ~Underway(c))
            => disk[f] = FoldLeft(Effect, InitialFiles, over)[f]

\* plan.md:461: ConcurrencySafe tells whether a tool may run at the same time as others;
\* the tools that change files say no.  So calls that all returned, and could read and
\* write, have had the effect of some order of them.
CallsAreSerial ==
    (faulted = {} /\ \A c \in CallIds : ~Underway(c))
        => \E order \in SetToSeqs(ToSet(over)) :
              disk = FoldLeft(Effect, InitialFiles, order)

\* Following the hints of read_file shows no line twice and comes to an end
\* (filesystem.go:57: "avoiding truncation loops"), whatever is written in the meantime.
PagesAdvance ==
    \A c \in CallIds : \A i, j \in DOMAIN pages[c] :
        i < j => pages[c][i].from + pages[c][i].shown <= pages[c][j].from

\* ... and no line is left out between two pages.
PagesMeet ==
    \A c \in CallIds : \A i \in DOMAIN pages[c] : pages[c][i].next # 0
        => pages[c][i].next = pages[c][i].from + pages[c][i].shown
=============================================================================
