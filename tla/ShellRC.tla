--------------------------------- MODULE ShellRC ---------------------------------
(***************************************************************************)
(* dz path setup and dz path unset: the block of dropzone in the rc file of *)
(* the user's shell.  Setup looks for the block and appends it; unset reads *)
(* the whole file, strips the block and writes the file back in place.  The *)
(* user and other dz processes append to the file meanwhile.                *)
(*                                                                          *)
(* A file is a sequence of tokens: a line end, a marker, the export line of *)
(* the block, or a piece of the user's text without any of these.           *)
(***************************************************************************)
EXTENDS Integers, SequencesExt

CONSTANTS
    Procs,          \* dz processes
    Shells,         \* what SHELL may name
    RcFiles,        \* their rc files
    Texts,          \* pieces of the user's text
    FirstFiles,     \* what an rc file may hold at first, Missing included
    Missing,        \* no such file
    Quiet,          \* no report
    MaxCommands,    \* bound: commands
    MaxEdits,       \* bound: edits by the user
    MaxFaults       \* bound: kills, and writes that break off

RCMarkerStart == "# >>>"
RCMarkerEnd == "# <<<"
Block == <<"nl", RCMarkerStart, "nl", "export PATH", "nl", RCMarkerEnd, "nl">>
Torn == "torn"      \* the end of a token
Tokens == Texts \cup Range(Block) \cup {Torn}

ASSUME ShellAssumption ==
    /\ RcFiles \subseteq {".zshrc", ".bash_profile", ".bashrc"} /\ ".bash_profile" \in RcFiles
    /\ "zsh" \in Shells => ".zshrc" \in RcFiles
    /\ "bash" \in Shells => ".bashrc" \in RcFiles
    /\ Texts \cap (Range(Block) \cup {Torn}) = {}
    /\ Missing \in FirstFiles /\ Missing \notin RcFiles /\ Missing \notin Seq(Tokens)
    /\ FirstFiles \ {Missing} \subseteq Seq(Texts \cup {"nl"})
    /\ MaxCommands \in Nat /\ MaxEdits \in Nat /\ MaxFaults \in Nat

VARIABLES
    file,       \* file[f]: the tokens of rc file f, or Missing
    job,        \* job[p]: the command of p, its rc file and what it will write
    report,     \* what the last step reported to the user
    text,       \* history: what the user has put into each file
    torn,       \* history: files written to while unset had them in its hands,
                \* or with a part of what was to be written
    raced,      \* history: files two commands were at, at a time
    commands, edits, faults

vars == <<file, job, report, text, torn, raced, commands, edits, faults>>
-------------------------------------------------------------------------------
Content(f) == IF file[f] = Missing THEN <<>> ELSE file[f]
NoJob == [pc |-> "idle", rc |-> Missing, mem |-> <<>>]
PCs == {"idle", "look", "append", "read", "truncate", "write"}

TypeOK ==
    /\ file \in [RcFiles -> Seq(Tokens) \cup {Missing}]
    /\ job \in [Procs -> [pc: PCs, rc: RcFiles \cup {Missing}, mem: Seq(Tokens)]]
    /\ report \in {Quiet} \cup
          [op: {"added", "already", "removed", "nothing"}, rc: RcFiles]
    /\ text \in [RcFiles -> Seq(Texts \cup {"nl"})]
    /\ torn \subseteq RcFiles /\ raced \subseteq RcFiles
    /\ commands \in 0..MaxCommands /\ edits \in 0..MaxEdits /\ faults \in 0..MaxFaults

Init ==
    /\ file \in [RcFiles -> FirstFiles]
    /\ job = [p \in Procs |-> NoJob] /\ report = Quiet
    /\ text = [f \in RcFiles |-> Content(f)]
    /\ torn = {} /\ raced = {}
    /\ commands = 0 /\ edits = 0 /\ faults = 0

\* Mutant: any other shell reads .profile.
detectShellOrProfile(shell) ==
    CASE shell = "zsh" -> ".zshrc"
      [] shell = "bash" -> IF file[".bash_profile"] # Missing THEN ".bash_profile"
                           ELSE ".bashrc"
      [] OTHER -> ".profile"

\* detectShell; Missing for a shell that is not supported.
detectShell(shell) ==
    CASE shell = "zsh" -> ".zshrc"
      [] shell = "bash" -> IF file[".bash_profile"] # Missing THEN ".bash_profile"
                           ELSE ".bashrc"
      [] OTHER -> Missing

\* Mutant: only a file that is nothing but the block.
containsMarkerFirst(s) == s # <<>> /\ s[1] = RCMarkerStart

containsMarker(s) == Contains(s, RCMarkerStart)

\* Mutant: the line end before the block stays.
stripMarkerBlockOnly(s) ==
    LET start == SelectInSeq(s, LAMBDA t : t = RCMarkerStart)
        ends == {i \in start..Len(s) : s[i] = RCMarkerEnd}
        end == CHOOSE i \in ends : \A j \in ends : i <= j
    IN IF start = 0 \/ ends = {} THEN s
       ELSE SubSeq(s, 1, start - 1) \o
            SubSeq(s, IF end < Len(s) /\ s[end + 1] = "nl" THEN end + 2 ELSE end + 1, Len(s))

\* stripMarkerBlock: from the first start marker, and a line end before it, to
\* the next end marker, and a line end after it; without one nothing.
stripMarkerBlock(s) ==
    LET start == SelectInSeq(s, LAMBDA t : t = RCMarkerStart)
        ends == {i \in start..Len(s) : s[i] = RCMarkerEnd}
        end == CHOOSE i \in ends : \A j \in ends : i <= j
        from == IF start > 1 /\ s[start - 1] = "nl" THEN start - 1 ELSE start
        to == IF end < Len(s) /\ s[end + 1] = "nl" THEN end + 1 ELSE end
    IN IF start = 0 \/ ends = {} THEN s
       ELSE SubSeq(s, 1, from - 1) \o SubSeq(s, to + 1, Len(s))

\* The files that an unset has read and not yet written back.
InHand(f) == \E p \in Procs : job[p].rc = f /\ job[p].pc \in {"truncate", "write"}
AnotherHas(p, f) == \E q \in Procs \ {p} : job[q].rc = f /\ job[q].pc \in {"truncate", "write"}

Reports(op, f) == report' = [op |-> op, rc |-> f]
Finish(p) == job' = [job EXCEPT ![p] = NoJob]
Goto(p, pc) == job' = [job EXCEPT ![p].pc = pc]
Set(f, s) == file' = [file EXCEPT ![f] = s]
-------------------------------------------------------------------------------
\* A command finds the rc file; without a supported shell it is an error.
StartCommand(p) ==
    /\ job[p] = NoJob
    /\ commands < MaxCommands /\ commands' = commands + 1
    /\ \E shell \in Shells, pc \in {"look", "read"} :
          LET f == detectShell(shell) IN
          /\ f # Missing
          /\ job' = [job EXCEPT ![p] = [pc |-> pc, rc |-> f, mem |-> <<>>]]
          /\ raced' = IF \E q \in Procs : job[q].rc = f THEN raced \cup {f} ELSE raced
    /\ report' = Quiet
    /\ UNCHANGED <<file, text, torn, edits, faults>>

\* SetupShellRC: a file with the marker is left alone.
Look(p) ==
    /\ job[p].pc = "look"
    /\ IF containsMarker(Content(job[p].rc))
       THEN Finish(p) /\ Reports("already", job[p].rc)
       ELSE Goto(p, "append") /\ report' = Quiet
    /\ UNCHANGED <<file, text, torn, raced, commands, edits, faults>>

\* SetupShellRC: the block, appended in one write.
AppendBlock(p) ==
    /\ job[p].pc = "append"
    /\ LET f == job[p].rc IN
       /\ Set(f, Content(f) \o Block)
       /\ Reports("added", f)
       /\ torn' = IF AnotherHas(p, f) THEN torn \cup {f} ELSE torn
    /\ Finish(p)
    /\ UNCHANGED <<text, raced, commands, edits, faults>>

\* UnsetShellRC: no file, or no marker, is nothing to do.
Read(p) ==
    /\ job[p].pc = "read"
    /\ LET f == job[p].rc IN
       IF containsMarker(Content(f))
       THEN /\ job' = [job EXCEPT ![p].pc = "truncate",
                                  ![p].mem = stripMarkerBlock(Content(f))]
            /\ report' = Quiet
       ELSE Finish(p) /\ Reports("nothing", f)
    /\ UNCHANGED <<file, text, torn, raced, commands, edits, faults>>

\* UnsetShellRC: os.WriteFile opens the file, empty from then on.
Truncate(p) ==
    /\ job[p].pc = "truncate"
    /\ LET f == job[p].rc IN
       /\ Set(f, <<>>)
       /\ torn' = IF AnotherHas(p, f) THEN torn \cup {f} ELSE torn
    /\ Goto(p, "write") /\ report' = Quiet
    /\ UNCHANGED <<text, raced, commands, edits, faults>>

\* UnsetShellRC: what was read without the block, from the beginning of the
\* file; what others put there since is overwritten, up to some point.
Write(p) ==
    /\ job[p].pc = "write"
    /\ LET f == job[p].rc
           over == Content(f)
       IN /\ \E n \in 0..Len(over), end \in {<<>>, <<Torn>>} :
                /\ over = <<>> => end = <<>>
                /\ Set(f, job[p].mem \o end \o SubSeq(over, n + 1, Len(over)))
          /\ torn' = IF AnotherHas(p, f) THEN torn \cup {f} ELSE torn
          /\ Reports("removed", f)
    /\ Finish(p)
    /\ UNCHANGED <<text, raced, commands, edits, faults>>

\* The process is killed, or its write breaks off.
Break(p) ==
    /\ job[p] # NoJob
    /\ faults < MaxFaults /\ faults' = faults + 1
    /\ LET f == job[p].rc
           part == CASE job[p].pc = "append" -> Block
                     [] job[p].pc = "write" -> job[p].mem
                     [] OTHER -> <<>>
       IN /\ \E n \in 0..Len(part) :
                IF n = 0 THEN UNCHANGED file ELSE Set(f, Content(f) \o SubSeq(part, 1, n))
          /\ torn' = IF part # <<>> \/ job[p].pc = "write" THEN torn \cup {f} ELSE torn
    /\ Finish(p) /\ report' = Quiet
    /\ UNCHANGED <<text, raced, commands, edits>>

\* The user, or an installer, appends a line, to a new file perhaps.
Edit(f) ==
    /\ edits < MaxEdits /\ edits' = edits + 1
    /\ \E t \in Texts :
          /\ Set(f, Content(f) \o <<t, "nl">>)
          /\ text' = [text EXCEPT ![f] = @ \o <<t, "nl">>]
    /\ torn' = IF InHand(f) THEN torn \cup {f} ELSE torn
    /\ report' = Quiet
    /\ UNCHANGED <<job, raced, commands, faults>>

Next ==
    \/ \E p \in Procs :
          \/ StartCommand(p)
          \/ Look(p) \/ AppendBlock(p)
          \/ Read(p) \/ Truncate(p) \/ Write(p)
          \/ Break(p)
    \/ \E f \in RcFiles : Edit(f)

Spec == Init /\ [][Next]_vars
-------------------------------------------------------------------------------
\* Where a whole block begins, and the file without the blocks.
Blocks(s) == {i \in 1..(Len(s) - Len(Block) + 1) : SubSeq(s, i, i + Len(Block) - 1) = Block}
InBlock(s, k) == \E i \in Blocks(s) : k \in i..(i + Len(Block) - 1)
Without(s) ==
    LET upto[n \in 0..Len(s)] ==
            IF n = 0 THEN <<>>
            ELSE IF InBlock(s, n) THEN upto[n - 1] ELSE Append(upto[n - 1], s[n])
    IN upto[Len(s)]

\* The user's rc file holds the user's own text to the last byte, with nothing
\* but whole blocks in between, through any number of setups and unsets and
\* also while setups overlap each other and the user's edits; not guaranteed is
\* it only for a file written to while an unset had it in hand, or broken off
\* (SetupShellRC, stripMarkerBlock: "to avoid corrupting the user's file").
UserTextKept ==
    \A f \in RcFiles :
        f \notin torn /\ ~(\E p \in Procs : job[p].rc = f /\ job[p].pc = "write") =>
            Without(Content(f)) = text[f]

\* A command tells the truth: as long as commands on a file do not overlap or
\* break off, the file has exactly one block when setup reports success, and no
\* marker when unset does (SetupShellRC: "Idempotent").
CommandsHonest ==
    report # Quiet /\ report.rc \notin torn \cup raced =>
        IF report.op \in {"added", "already"}
        THEN Cardinality(Blocks(Content(report.rc))) = 1
        ELSE ~containsMarker(Content(report.rc))
===============================================================================
