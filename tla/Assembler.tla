------------------------------ MODULE Assembler ------------------------------
(***************************************************************************)
(* PatchARMIDAPlguin (DlgMain.cpp, PatchARMIDAPlguin.cpp, 32-bit build): a *)
(* dialog whose code is assembled by as.exe and written over the bytes at  *)
(* its address.  Every IDA process that loads the plugin uses the as.exe   *)
(* beside it and, started from the same directory, the same four temporary *)
(* files.  AssemblerText has the computations.                             *)
(***************************************************************************)
EXTENDS AssemblerText

CONSTANTS Procs,       \* IDA processes; each may end and start again
          Users,       \* what the users may type: sets of programs, at addresses that are
                       \* loaded, for each process
          Long,        \* the names that make a line longer than lpRod or szName hold,
                       \* and the mnemonics too long for ClacBL's szTmpBuf
          MaxBranches, \* stands for the 100 elements of blArrBuf
          MaxSource,   \* the lines of a source that szTmpBuf holds with its header
          MaxErrors,   \* the errors whose messages fit the buffer of MyWinExec
          MaxCode,     \* the units that lpRetBuf holds
          MaxStray,    \* bound: runs of as.exe that outlived their IDA and are not done
          NoFile, NoProgram, Unread

AllPrograms == UNION {UNION {u[p] : p \in Procs} : u \in Users}
EmptySource == [type |-> 0, items |-> <<>>]
Sources == {Source(pr) : pr \in AllPrograms} \cup {EmptySource}
Objects == {as(s) : s \in Sources}

\* A program is a sequence of lines at an address; so are the named places addresses.
ASSUME ProgramAssumption ==
  /\ NoProgram \notin AllPrograms
  /\ \A pr \in AllPrograms :
       /\ pr.type \in {0, 1} /\ pr.at \in Nat
       /\ Len(pr.lines) \in Nat /\ pr.lines = [k \in 1..Len(pr.lines) |-> pr.lines[k]]
  /\ \A name \in DOMAIN Locals : Locals[name] \in Nat
  /\ \A name \in DOMAIN Names : Names[name] \in Nat

Temps == {"temp~1.s", "temp~1.o", "temp~2.s", "temp~2.o"}

VARIABLES
  users,    \* the element of Users that holds
  asexe,    \* as.exe in the plugin's directory: "none", "empty" or "whole"
  temp,     \* the temporary files
  pc,       \* where each process is
  dialog,   \* the process has the dialog
  prog,     \* the program of the press that is carried out
  code,     \* lpRetBuf from MapFile on, and what is patched
  rets,     \* the instructions that ClacBL returned
  stray,    \* the runs of as.exe whose IDA process ended meanwhile
  hindered, \* history: in this press a file could not be created or opened, as.exe was
            \* not whole or not started, or a stray one wrote its object
  raced     \* history: two processes passed FindWindow before either had a dialog

pressVars == <<prog, code, rets, hindered>>
vars == <<users, asexe, temp, pc, dialog, pressVars, stray, raced>>

Init ==
  /\ users \in Users
  /\ asexe = "none"
  /\ temp = [f \in Temps |-> NoFile]
  /\ pc = [p \in Procs |-> "off"]
  /\ dialog = [p \in Procs |-> FALSE]
  /\ prog = [p \in Procs |-> NoProgram]
  /\ code = [p \in Procs |-> <<>>] /\ rets = [p \in Procs |-> <<>>]
  /\ hindered = [p \in Procs |-> FALSE] /\ stray = {}
  /\ raced = FALSE

\* The processes that have a dialog or are about to create it.
Busy == {p \in Procs : dialog[p] \/ pc[p] = "look"}

GoTo(p, l) == pc' = [pc EXCEPT ![p] = l]

\* The dialog or the process is gone.
Leave(p) ==
  /\ dialog' = [dialog EXCEPT ![p] = FALSE]
  /\ raced' = (raced /\ Busy \ {p} # {})

Forget(p) ==
  /\ prog' = [prog EXCEPT ![p] = NoProgram]
  /\ code' = [code EXCEPT ![p] = <<>>] /\ rets' = [rets EXCEPT ![p] = <<>>]
  /\ hindered' = [hindered EXCEPT ![p] = FALSE]

-----------------------------------------------------------------------------
(* The plugin. *)

\* as.exe is released when there is no such file.
IDAP_init(p) ==
  /\ pc[p] = "off"
  /\ GoTo(p, IF asexe = "none" THEN "release" ELSE "idle")
  /\ UNCHANGED <<asexe, temp, dialog, pressVars, raced>>

\* CREATE_ALWAYS empties a file that is there by now; then WriteFile.
ReleaseRes(p) ==
  /\ \/ pc[p] = "release" /\ asexe' = "empty" /\ GoTo(p, "fill")
     \/ pc[p] = "fill" /\ asexe' = "whole" /\ GoTo(p, "idle")
  /\ UNCHANGED <<temp, dialog, pressVars, raced>>

\* Variant: each process looks for its own dialog only.
FindWindowOwn(p) ==
  /\ pc[p] = "idle" /\ ~dialog[p]
  /\ GoTo(p, "look")
  /\ raced' = (raced \/ \E q \in Procs : pc[q] = "look")
  /\ UNCHANGED <<asexe, temp, dialog, pressVars>>

\* FindWindow looks at all windows of the system; if there is a dialog it is shown.
FindWindow(p) ==
  /\ pc[p] = "idle" /\ \A q \in Procs : ~dialog[q]
  /\ GoTo(p, "look")
  /\ raced' = (raced \/ \E q \in Procs : pc[q] = "look")
  /\ UNCHANGED <<asexe, temp, dialog, pressVars>>

CreateDialog(p) ==
  /\ pc[p] = "look"
  /\ GoTo(p, "idle")
  /\ dialog' = [dialog EXCEPT ![p] = TRUE]
  /\ UNCHANGED <<asexe, temp, pressVars, raced>>

IDAP_run(p) == FindWindow(p) \/ CreateDialog(p)

Main_OnClose(p) ==
  /\ pc[p] = "idle" /\ dialog[p]
  /\ Leave(p)
  /\ UNCHANGED <<asexe, temp, pc, pressVars>>

-----------------------------------------------------------------------------
(* OnButtonCalc. *)

\* AnalyzerStr reads behind NULL, or writes behind lpRod, szName or blArrBuf.
Overruns(pr) ==
  \/ \E k \in 1..Len(pr.lines) :
       \/ pr.lines[k].kind = "branch" /\ pr.lines[k].to \in Long \cup {NoName}
       \/ pr.lines[k].kind = "label" /\ pr.lines[k].name \in Long
  \/ Len(Branches(pr)) > MaxBranches

\* The buffers of WriteSrcFile, of MyWinExec for what as.exe prints, of MapFile and of
\* ClacBL.
\* lpRetBuf holds every source that szTmpBuf does.
SourceFits(pr) == Len(AnalyzerStr(pr).out) <= MaxSource
MessagesFit(src) == Cardinality(Errors(src)) <= MaxErrors
CodeFits(o) == Len(o) <= MaxCode
BranchFits(b) == b.m \notin Long

\* IDA ends, or goes on with memory that was written over: it is followed no further.
Crash(p) == GoTo(p, "crashed")
Hinder(p) == hindered' = [hindered EXCEPT ![p] = TRUE]

\* Variant: the keyboard hook stays when the dialog is closed.
PressHooked(p) ==
  /\ pc[p] = "idle"
  /\ \E pr \in users[p] :
       /\ AnalyzerStr(pr).out # <<>>
       /\ prog' = [prog EXCEPT ![p] = pr]
       /\ GoTo(p, IF Overruns(pr) THEN "crashed" ELSE "write")
  /\ UNCHANGED <<asexe, temp, dialog, code, rets, hindered, raced>>

\* The checks of the fields that end in a message change nothing and are left out,
\* but for a program of blanks only (915).
Press(p) ==
  /\ pc[p] = "idle" /\ dialog[p]
  /\ \E pr \in users[p] :
       /\ AnalyzerStr(pr).out # <<>>
       /\ prog' = [prog EXCEPT ![p] = pr]
       /\ GoTo(p, IF Overruns(pr) THEN "crashed" ELSE "write")
  /\ UNCHANGED <<asexe, temp, dialog, code, rets, hindered, raced>>

\* fopen comes first: the file is empty when sprintf writes behind szTmpBuf.  What
\* fopen returned is not looked at.
WriteSrcFile(p) ==
  /\ pc[p] = "write"
  /\ \/ /\ SourceFits(prog[p])
        /\ temp' = [temp EXCEPT !["temp~1.s"] = Source(prog[p])]
        /\ GoTo(p, "as")
        /\ UNCHANGED hindered
     \/ /\ ~SourceFits(prog[p])
        /\ temp' = [temp EXCEPT !["temp~1.s"] = EmptySource]
        /\ Crash(p)
        /\ UNCHANGED hindered
     \/ Crash(p) /\ Hinder(p) /\ UNCHANGED temp
  /\ UNCHANGED <<asexe, dialog, prog, code, rets, raced>>

\* The object file: none if as reports an error, also of a source that is gone.
Object(f) == IF temp[f] = NoFile \/ as(temp[f]) = Error THEN NoFile ELSE as(temp[f])
ClacObject(f) == IF temp[f] = NoFile \/ AsClac(temp[f]) = Error THEN NoFile ELSE AsClac(temp[f])

\* What as.exe made, if it ran; its messages are looked at before its object.
RunAs(p) ==
  /\ pc[p] = "as"
  /\ \/ /\ asexe = "whole"
        /\ temp' = [temp EXCEPT !["temp~1.o"] = Object("temp~1.s")]
        /\ GoTo(p, IF temp["temp~1.s"] # NoFile /\ ~MessagesFit(temp["temp~1.s"]) THEN "crashed"
                   ELSE IF Object("temp~1.s") = NoFile THEN "fail" ELSE "map")
        /\ UNCHANGED hindered
     \/ GoTo(p, "map") /\ Hinder(p) /\ UNCHANGED temp
  /\ UNCHANGED <<asexe, dialog, prog, code, rets, raced>>

\* Its result is not looked at: without the file there are no bytes to patch.
MapFile(p) ==
  /\ pc[p] = "map"
  /\ \/ /\ temp["temp~1.o"] # NoFile
        /\ code' = [code EXCEPT ![p] = temp["temp~1.o"]]
        /\ GoTo(p, IF CodeFits(temp["temp~1.o"]) THEN "clac" ELSE "crashed")
        /\ UNCHANGED hindered
     \/ GoTo(p, "clac") /\ Hinder(p) /\ UNCHANGED code
  /\ UNCHANGED <<asexe, temp, dialog, prog, rets, raced>>

ToClac(p) == Branches(prog[p])[Len(rets[p]) + 1]

\* Variant: a file that is there is used.
ClacWriteOnce(p) ==
  /\ pc[p] = "clac" /\ Len(rets[p]) + 1 \in 1..Len(Branches(prog[p]))
  /\ IF temp["temp~2.s"] = NoFile
       THEN temp' = [temp EXCEPT !["temp~2.s"] = ClacSource(ToClac(p))]
       ELSE UNCHANGED temp
  /\ GoTo(p, "clac as")
  /\ UNCHANGED <<asexe, dialog, pressVars, raced>>

ClacWrite(p) ==
  /\ pc[p] = "clac" /\ Len(rets[p]) + 1 \in 1..Len(Branches(prog[p]))
  /\ \/ /\ BranchFits(ToClac(p))
        /\ temp' = [temp EXCEPT !["temp~2.s"] = ClacSource(ToClac(p))]
        /\ GoTo(p, "clac as")
        /\ UNCHANGED hindered
     \/ ~BranchFits(ToClac(p)) /\ Crash(p) /\ UNCHANGED <<temp, hindered>>
     \/ Crash(p) /\ Hinder(p) /\ UNCHANGED temp
  /\ UNCHANGED <<asexe, dialog, prog, code, rets, raced>>

\* Variant: the text of an error is not looked for.
ClacRunUnchecked(p) ==
  /\ pc[p] = "clac as"
  /\ \/ /\ asexe = "whole"
        /\ temp' = [temp EXCEPT !["temp~2.o"] = ClacObject("temp~2.s")]
        /\ GoTo(p, "clac read")
        /\ UNCHANGED hindered
     \/ GoTo(p, "clac read") /\ Hinder(p) /\ UNCHANGED temp
     \/ GoTo(p, "fail") /\ Hinder(p) /\ UNCHANGED temp
  /\ UNCHANGED <<asexe, dialog, prog, code, rets, raced>>

\* What cmd says of an as.exe that is not whole does not contain "Error"; without
\* a pipe or a process there is a message.
ClacRun(p) ==
  /\ pc[p] = "clac as"
  /\ \/ /\ asexe = "whole"
        /\ temp' = [temp EXCEPT !["temp~2.o"] = ClacObject("temp~2.s")]
        /\ GoTo(p, IF ClacObject("temp~2.s") = NoFile THEN "fail" ELSE "clac read")
        /\ UNCHANGED hindered
     \/ asexe # "whole" /\ GoTo(p, "clac read") /\ Hinder(p) /\ UNCHANGED temp
     \/ GoTo(p, "fail") /\ Hinder(p) /\ UNCHANGED temp
  /\ UNCHANGED <<asexe, dialog, prog, code, rets, raced>>

\* MyReadFile gives what fopen returned to fseek, without a look.
ClacRead(p) ==
  /\ pc[p] = "clac read"
  /\ \/ /\ temp["temp~2.o"] # NoFile
        /\ rets' = [rets EXCEPT ![p] = Append(@, Instruction(ToClac(p), temp["temp~2.o"]))]
        /\ temp' = [temp EXCEPT !["temp~2.s"] = NoFile, !["temp~2.o"] = NoFile]
        /\ GoTo(p, "clac")
        /\ UNCHANGED hindered
     \/ temp["temp~2.o"] = NoFile /\ Crash(p) /\ UNCHANGED <<temp, rets, hindered>>
     \/ Crash(p) /\ Hinder(p) /\ UNCHANGED <<temp, rets>>
  /\ UNCHANGED <<asexe, dialog, prog, code, raced>>

ClacBL(p) == ClacWrite(p) \/ ClacRun(p) \/ ClacRead(p)

\* The loop of patch_byte.
Patch(p) ==
  /\ pc[p] = "clac" /\ Len(rets[p]) = Len(Branches(prog[p]))
  /\ code' = [code EXCEPT ![p] = Overlaid(@, prog[p], rets[p])]
  /\ GoTo(p, "close")
  /\ UNCHANGED <<asexe, temp, dialog, prog, rets, hindered, raced>>

DeleteFiles == temp' = [temp EXCEPT !["temp~1.s"] = NoFile, !["temp~1.o"] = NoFile]

Finish(p) ==
  /\ pc[p] = "close"
  /\ DeleteFiles /\ Leave(p) /\ Forget(p)
  /\ GoTo(p, "idle")
  /\ UNCHANGED asexe

\* The message of an error, of either as; temp~2.s stays.
Fail(p) ==
  /\ pc[p] = "fail"
  /\ DeleteFiles /\ Forget(p)
  /\ GoTo(p, "idle")
  /\ UNCHANGED <<asexe, dialog, raced>>

OnButtonCalc(p) ==
  \/ Press(p) \/ WriteSrcFile(p) \/ RunAs(p) \/ MapFile(p) \/ ClacBL(p)
  \/ Patch(p) \/ Finish(p) \/ Fail(p)

-----------------------------------------------------------------------------

\* The process ends, at any point; an as.exe that it waits for goes on.
Die(p) ==
  /\ pc[p] # "off"
  /\ \/ UNCHANGED stray
     \/ /\ pc[p] \in {"as", "clac as"} /\ asexe = "whole"
        /\ Cardinality(stray) < MaxStray
        /\ stray' = stray \cup {[n |-> IF pc[p] = "as" THEN 1 ELSE 2, object |-> Unread]}
  /\ Leave(p) /\ Forget(p)
  /\ GoTo(p, "off")
  /\ UNCHANGED <<asexe, temp>>

Pressing == {"write", "as", "map", "clac", "clac as", "clac read", "close", "fail", "crashed"}

\* A stray as.exe reads its source, and writes its object or, after an error, deletes it.
StrayReads ==
  \E s \in stray :
    /\ s.object = Unread
    /\ stray' = (stray \ {s}) \cup
         {[s EXCEPT !.object = IF s.n = 1 THEN Object("temp~1.s") ELSE ClacObject("temp~2.s")]}
    /\ UNCHANGED <<asexe, temp, pc, dialog, pressVars, raced>>

StrayWrites ==
  \E s \in stray :
    /\ s.object # Unread
    /\ stray' = stray \ {s}
    /\ temp' = [temp EXCEPT ![IF s.n = 1 THEN "temp~1.o" ELSE "temp~2.o"] = s.object]
    /\ hindered' = [p \in Procs |-> hindered[p] \/ pc[p] \in Pressing]
    /\ UNCHANGED <<asexe, pc, dialog, prog, code, rets, raced>>

Next ==
  /\ \/ \E p \in Procs :
          \/ /\ IDAP_init(p) \/ ReleaseRes(p) \/ IDAP_run(p) \/ Main_OnClose(p) \/ OnButtonCalc(p)
             /\ UNCHANGED stray
          \/ Die(p)
     \/ StrayReads \/ StrayWrites
  /\ UNCHANGED users

Spec == Init /\ [][Next]_vars

-----------------------------------------------------------------------------

\* No buffer on the way of a program is too small for it.
Fits(pr) ==
  /\ ~Overruns(pr) /\ SourceFits(pr) /\ MessagesFit(Source(pr))
  /\ as(Source(pr)) # Error => CodeFits(as(Source(pr)))
  /\ \A i \in 1..Len(Branches(pr)) : BranchFits(Branches(pr)[i])

\* The type invariant: a process at work on a press has a dialog and a program, and
\* temp~1.s is the source of some program.
TypeOK ==
  /\ users \in Users
  /\ asexe \in {"none", "empty", "whole"}
  /\ DOMAIN temp = Temps
  /\ temp["temp~1.s"] \in {NoFile} \cup Sources
  /\ temp["temp~1.o"] \in {NoFile} \cup Objects
  /\ pc \in [Procs -> Pressing \cup {"off", "release", "fill", "idle", "look"}]
  /\ dialog \in [Procs -> BOOLEAN]
  /\ prog \in [Procs -> AllPrograms \cup {NoProgram}]
  /\ hindered \in [Procs -> BOOLEAN]
  /\ raced \in BOOLEAN
  /\ \A s \in stray : s.n \in {1, 2} /\ (s.n = 1 => s.object \in {Unread, NoFile} \cup Objects)
  /\ \A p \in Procs : pc[p] \in Pressing => dialog[p] /\ prog[p] # NoProgram

\* The dialog is the only one in the system, unless two processes passed
\* FindWindow before either had created it (PatchARMIDAPlguin.cpp, 77-80).
OneDialog == raced \/ \A p, q \in Procs : dialog[p] /\ dialog[q] => p = q

\* What is patched is what one run alone makes of the program that was typed: no
\* other process, no file that a process that died has left and no earlier press has
\* a part in it, unless there were two dialogs, or in this press a file could not be
\* created or opened, as.exe was not whole or not started, or one that outlived its
\* IDA wrote its object (926-939).
OwnCode ==
  \A p \in Procs :
    pc[p] = "close" /\ ~raced /\ ~hindered[p] => code[p] = Assembled(prog[p])

\* A plain program is patched as it was meant, under the same conditions: every line
\* at its place, and every branch reaches the label or name it gives (395-494, 714-838).
PatchExact ==
  \A p \in Procs :
    pc[p] = "close" /\ ~raced /\ ~hindered[p] /\ Plain(prog[p]) => code[p] = Reference(prog[p])

\* A press of the only dialog does not end IDA, whatever as makes of the program and
\* its branches, if the program fits the buffers and nothing hindered the press: an
\* object file that is opened without a look (629) is then always there.
NoCrash ==
  \A p \in Procs :
    pc[p] = "crashed" => raced \/ hindered[p] \/ ~Fits(prog[p])
=============================================================================
