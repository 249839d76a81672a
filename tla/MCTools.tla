------------------------------- MODULE MCTools -------------------------------
(***************************************************************************)
(* What a turn of the agent works with: the prompt the model is called     *)
(* with, the wrappers around the model, the tools that change files, the   *)
(* subagents it spawns; and the files a start lays out for all of them.    *)
(* They share no state; one moves in each behaviour while the others stay  *)
(* as they began.                                                          *)
(***************************************************************************)
EXTENDS PromptGovernance, ModelFallback, FileTools, Subagents, Onboarding

VARIABLE focus   \* the component that moves

Init ==
    /\ focus \in {"prompt", "fallback", "files", "subagents", "onboarding"}
    /\ PromptInit /\ FallbackInit /\ FileInit /\ SubInit
    /\ OnboardInit

Next ==
    /\ UNCHANGED focus
    /\ \/ focus = "prompt" /\ PromptNext /\ UNCHANGED <<fallbackVars, fileVars, subVars, onboardVars>>
       \/ focus = "fallback" /\ FallbackNext /\ UNCHANGED <<promptVars, fileVars, subVars, onboardVars>>
       \/ focus = "files" /\ FileNext /\ UNCHANGED <<promptVars, fallbackVars, subVars, onboardVars>>
       \/ focus = "subagents" /\ SubNext /\ UNCHANGED <<promptVars, fallbackVars, fileVars, onboardVars>>
       \/ focus = "onboarding" /\ OnboardNext
                               /\ UNCHANGED <<promptVars, fallbackVars, fileVars, subVars>>

Spec == Init /\ [][Next]_<<focus, promptVars, fallbackVars, fileVars, subVars, onboardVars>>

ToolsTypeOK == PromptTypeOK /\ FallbackTypeOK /\ FileTypeOK /\ SubTypeOK /\ OnboardTypeOK

-----------------------------------------------------------------------------
\* Results of tools that can be run again, long and very long, and of one that cannot.
Result(again, size) == [compactable |-> again, size |-> size]
SomeResults == {Result(TRUE, "large"), Result(TRUE, "huge"), Result(FALSE, "huge")}

\* One template for the five, one memory file for the two.
OneTemplate == <<"SOUL.md">>
OneMemoryFile == <<"MEMORY.md">>

\* Two subagents of one session.
CONSTANTS t1, t2, s1
OneSession == [t \in {t1, t2} |-> s1]

\* A patch of two edits of one file, the second on what the first wrote, one edit that
\* matches only apart from white space and one whose text is not there; an edit of all
\* occurrences; one whose text must be there once; and a reader.
L(text, indent) == [text |-> text, indent |-> indent]
Change(f, old, new, all) == [file |-> f, old |-> <<old>>, new |-> new, all |-> all]
Files == [f |-> <<L("a", ""), L("b", ""), L("a", "")>>, g |-> <<L("a", "tab")>>, h |-> Absent]
Patch == [tool |-> "apply_patch", edits |->
            <<Change("f", L("a", ""), <<L("c", "")>>, FALSE),
              Change("f", L("c", ""), <<L("c", ""), L("b", "")>>, FALSE),
              Change("h", L("a", ""), <<L("c", "")>>, FALSE),
              Change("g", L("a", ""), <<L("b", "")>>, FALSE)>>]
EditAll == [tool |-> "edit_file", edits |-> <<Change("f", L("a", ""), <<L("e", "")>>, TRUE)>>]
EditOne == [tool |-> "edit_file", edits |-> <<Change("f", L("b", "tab"), <<L("d", "")>>, FALSE)>>]
Write == [tool |-> "write_file", edits |-> <<[file |-> "h", new |-> <<L("a", "")>>]>>]
Read == [tool |-> "read_file", edits |-> <<[file |-> "f", offset |-> 1, limit |-> 3]>>]

SomeCalls == [patch |-> Patch, edit |-> EditOne, write |-> Write, read |-> Read]
TwoEdits == [edit |-> EditAll, other |-> EditOne]
OnlyRead == [read |-> Read]
=============================================================================
