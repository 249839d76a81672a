------------------------------ MODULE Onboarding ------------------------------
(***************************************************************************)
(* The files a start of the program finds or lays out: the configuration,  *)
(* which `nanobot onboard` writes as a temporary file, flushes and renames *)
(* (config/loader.go), and the prompt templates and memory files, which    *)
(* onboard and the gateway create in place where they are missing          *)
(* (workspace/sync.go).  A process may be killed between any two steps,    *)
(* the power may fail, a file may refuse to be written, and the user edits *)
(* what is there.                                                          *)
(*                                                                         *)
(* A file is absent, torn (empty or cut), as the program makes it, or the  *)
(* user's.  Directories, defaults that Load merges and the workspace path  *)
(* are left out.  Onboards do not overlap: the temporary file has one name.*)
(***************************************************************************)
EXTENDS Naturals, Sequences

CONSTANTS
    Templates,   \* Seq(names): TemplateFiles
    MemoryFiles, \* Seq(names): those of InitMemoryFiles
    Onboards, Gateways,  \* processes, each run once
    AtOnce,      \* processes may overlap
    MaxOutages   \* power failures

VARIABLES
    content,  \* [names -> what is in the file]
    durable,  \* names whose content a power failure leaves alone
    replaced, \* what the configuration held before a rename the disk may not have yet
    program,  \* [processes -> [phase, at]]
    outages

onboardVars == <<content, durable, replaced, program, outages>>

Config == "config.yaml"
Tmp == "config.yaml.tmp"
Processes == Onboards \cup Gateways
Layout(p) == IF p \in Onboards THEN Templates \o MemoryFiles ELSE Templates
FilesLaid == {Templates[i] : i \in 1 .. Len(Templates)}
                \cup {MemoryFiles[i] : i \in 1 .. Len(MemoryFiles)}
Paths == {Config, Tmp} \cup FilesLaid

ASSUME LayoutAssumption ==
    /\ Templates \in Seq(STRING) /\ MemoryFiles \in Seq(STRING)
    /\ FilesLaid \cap {Config, Tmp} = {} /\ Onboards \cap Gateways = {}
    /\ MaxOutages \in Nat

Running(p) == program[p].phase \notin {"off", "done", "failed", "dead"}

OnboardTypeOK ==
    /\ content \in [Paths -> {"absent", "torn", "default", "user"}]
    /\ durable \subseteq Paths
    /\ replaced \in {"none", "absent", "torn", "default", "user"}
    /\ program \in [Processes ->
           [phase : {"off", "tmp", "encode", "sync", "rename", "stat", "create", "fill",
                     "done", "failed", "dead"},
            at : Nat \ {0}]]
    /\ \A p \in Processes : program[p].at <= Len(Layout(p)) + 1
    /\ outages \in 0 .. MaxOutages

OnboardInit ==
    /\ content = [f \in Paths |-> "absent"] /\ durable = Paths /\ replaced = "none"
    /\ program = [p \in Processes |-> [phase |-> "off", at |-> 1]]
    /\ outages = 0

ProgramGoes(p, phase) == program' = [program EXCEPT ![p].phase = phase]
Fails(p) == ProgramGoes(p, "failed")

\* What a write leaves: it is in the file, but not yet on the disk for good.
Writes(f, what) ==
    /\ content' = [content EXCEPT ![f] = what]
    /\ durable' = durable \ {f}

-----------------------------------------------------------------------------
(* The configuration                                                        *)

\* runOnboard: a configuration that is there is left alone.
BeginOnboard(p) ==
    /\ p \in Onboards /\ program[p].phase = "off"
    /\ \A q \in Processes : Running(q) => AtOnce /\ q \notin Onboards
    /\ ProgramGoes(p, IF content[Config] # "absent" THEN "stat" ELSE "tmp")
    /\ UNCHANGED <<content, durable, replaced, outages>>

\* The gateway loads it; without one it works with the defaults.
BeginGateway(p) ==
    /\ p \in Gateways /\ program[p].phase = "off"
    /\ AtOnce \/ \A q \in Processes : ~Running(q)
    /\ ProgramGoes(p, IF content[Config] = "torn" THEN "failed" ELSE "stat")
    /\ UNCHANGED <<content, durable, replaced, outages>>

OpenTmp(p) ==
    /\ program[p].phase = "tmp"
    /\ \/ Writes(Tmp, "torn") /\ ProgramGoes(p, "encode")
       \/ Fails(p) /\ UNCHANGED <<content, durable>>
    /\ UNCHANGED <<replaced, outages>>

\* An error of Encode, Sync or Close removes the temporary file.
RemovesTmp(p) == Writes(Tmp, "absent") /\ Fails(p)

EncodeConfig_NoSync(p) ==
    /\ program[p].phase = "encode"
    /\ \/ Writes(Tmp, "default") /\ ProgramGoes(p, "rename")
       \/ RemovesTmp(p)
    /\ UNCHANGED <<replaced, outages>>

EncodeConfig(p) ==
    /\ program[p].phase = "encode"
    /\ \/ Writes(Tmp, "default") /\ ProgramGoes(p, "sync")
       \/ RemovesTmp(p)
    /\ UNCHANGED <<replaced, outages>>

SyncTmp(p) ==
    /\ program[p].phase = "sync"
    /\ \/ durable' = durable \cup {Tmp} /\ ProgramGoes(p, "rename") /\ UNCHANGED content
       \/ RemovesTmp(p)
    /\ UNCHANGED <<replaced, outages>>

\* Close and Rename.  The name moves at once for who looks, later on the disk.
RenameTmp(p) ==
    /\ program[p].phase = "rename"
    /\ \/ /\ content' = [content EXCEPT ![Config] = content[Tmp], ![Tmp] = "absent"]
          /\ durable' = IF Tmp \in durable THEN durable \cup {Config} ELSE durable \ {Config}
          /\ replaced' = content[Config]
          /\ ProgramGoes(p, "stat")
       \/ RemovesTmp(p) /\ UNCHANGED replaced
       \/ Fails(p) /\ UNCHANGED <<content, durable, replaced>>
    /\ UNCHANGED outages

-----------------------------------------------------------------------------
(* SyncTemplates and InitMemoryFiles                                        *)

File(p) == Layout(p)[program[p].at]

\* A file that is there is never overwritten; after the last one the start goes on.
StatFile(p) ==
    /\ program[p].phase = "stat"
    /\ IF program[p].at > Len(Layout(p)) THEN ProgramGoes(p, "done")
       ELSE IF content[File(p)] = "absent" THEN ProgramGoes(p, "create")
       ELSE program' = [program EXCEPT ![p].at = @ + 1]
    /\ UNCHANGED <<content, durable, replaced, outages>>

\* os.WriteFile creates or truncates ...
CreateFile(p) ==
    /\ program[p].phase = "create"
    /\ \/ Writes(File(p), "torn") /\ ProgramGoes(p, "fill")
       \/ Fails(p) /\ UNCHANGED <<content, durable>>
    /\ UNCHANGED <<replaced, outages>>

\* ... and writes.
FillNewFile(p) ==
    /\ program[p].phase = "fill"
    /\ \/ /\ Writes(File(p), "default")
          /\ program' = [program EXCEPT ![p] = [phase |-> "stat", at |-> @.at + 1]]
       \/ Fails(p) /\ UNCHANGED <<content, durable>>
    /\ UNCHANGED <<replaced, outages>>

-----------------------------------------------------------------------------
(* The rest of the world                                                    *)

Dies(p) ==
    /\ Running(p) /\ ProgramGoes(p, "dead")
    /\ UNCHANGED <<content, durable, replaced, outages>>

\* What was not flushed is as it was or torn; a rename has reached the disk or not.
PowerFails ==
    /\ outages < MaxOutages /\ outages' = outages + 1
    /\ program' = [p \in Processes |-> IF Running(p) THEN [program[p] EXCEPT !.phase = "dead"]
                                       ELSE program[p]]
    /\ \E lost \in SUBSET {f \in Paths \ durable : content[f] # "absent"} :
       \E undone \in {FALSE} \cup {replaced # "none"} :
          content' = [f \in Paths |->
              IF undone /\ f = Config THEN replaced
              ELSE IF f \in lost THEN "torn" ELSE content[f]]
    /\ durable' = Paths /\ replaced' = "none"

\* The user edits a file that is whole, with an editor that flushes it.
UserEdits(f) ==
    /\ f # Tmp /\ content[f] = "default"
    /\ content' = [content EXCEPT ![f] = "user"] /\ durable' = durable \cup {f}
    /\ replaced' = IF f = Config THEN "none" ELSE replaced
    /\ UNCHANGED <<program, outages>>

OnboardNext ==
    \/ \E p \in Processes :
          \/ BeginOnboard(p) \/ BeginGateway(p) \/ OpenTmp(p) \/ EncodeConfig(p) \/ SyncTmp(p)
          \/ RenameTmp(p) \/ StatFile(p) \/ CreateFile(p) \/ FillNewFile(p) \/ Dies(p)
    \/ PowerFails \/ \E f \in Paths : UserEdits(f)

OnboardSpec == OnboardInit /\ [][OnboardNext]_onboardVars

-----------------------------------------------------------------------------
(* Properties                                                               *)

\* Whenever a process is killed, a write fails or the power goes, the configuration is none
\* or a whole one (loader.go:68-92: the temporary file, its fsync and the rename).
ConfigWhole == content[Config] # "torn"

\* sync.go:23: "Existing files are never overwritten - this preserves user customizations".
CustomisationStays ==
    [][\A f \in FilesLaid : content[f] = "user" => content'[f] = "user"]_onboardVars

\* sync.go:22: "SyncTemplates ensures all template files exist"; an onboard that reports
\* success leaves whole files.
LaidOutWhole ==
    \A p \in Onboards : program[p].phase = "done" => \A f \in FilesLaid : content[f] # "torn"
=============================================================================
