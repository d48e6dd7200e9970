---------------------------- MODULE AssemblerProof ---------------------------
(***************************************************************************)
(* Theorems about Assembler for any number of IDA processes and any        *)
(* programs, and about the distances that ClacBL assembles.                *)
(***************************************************************************)
EXTENDS Assembler, DataProof

\* At most one process is busy with a dialog.
OneBusy == raced \/ \A p, q \in Busy : p = q

Functions == DOMAIN code = Procs /\ DOMAIN rets = Procs

\* No instruction is there before the first has been read.
Fresh == \A p \in Procs : rets[p] # <<>> =>
           pc[p] \in {"clac", "clac as", "clac read", "close", "fail", "crashed"}

\* as has something to say of a branch but an error.
InClac(b) == AsClac(ClacSource(b)) # Error

\* The instructions that have been read are those of a run alone.
Part(p) ==
  /\ Len(rets[p]) \in Nat
  /\ rets[p] = [i \in 1..Len(rets[p]) |-> Answer(Branches(prog[p])[i])]
  /\ \A i \in 1..Len(rets[p]) : InClac(Branches(prog[p])[i])

\* Neither as reports an error of the program, nor the one of its branches.
Assembles(pr) ==
  /\ as(Source(pr)) # Error
  /\ \A i \in 1..Len(Branches(pr)) : InClac(Branches(pr)[i])

\* How far a press has got that nobody disturbs: the files and the buffer hold what
\* they would in a run alone.
Own(p) ==
  /\ pc[p] = "as" => temp["temp~1.s"] = Source(prog[p])
  /\ pc[p] = "map" => temp["temp~1.o"] = as(Source(prog[p])) /\ as(Source(prog[p])) # Error
  /\ pc[p] \in {"clac", "clac as", "clac read"} =>
       code[p] = as(Source(prog[p])) /\ as(Source(prog[p])) # Error /\ Part(p)
  /\ pc[p] = "clac as" => temp["temp~2.s"] = ClacSource(ToClac(p))
  /\ pc[p] = "clac read" => /\ temp["temp~2.o"] = AsClac(ClacSource(ToClac(p)))
                            /\ temp["temp~2.o"] # NoFile
                            /\ InClac(ToClac(p))
  /\ pc[p] = "close" => code[p] = Assembled(prog[p]) /\ Assembles(prog[p])
  /\ pc[p] = "crashed" => ~Fits(prog[p])

IInv ==
  /\ TypeOK /\ OneBusy /\ Functions /\ Fresh
  /\ \A p \in Procs : ~raced /\ ~hindered[p] => Own(p)

\* The invariant holds before any process has loaded the plugin.
LEMMA InitInv == Init => IInv
BY DEF Init, IInv, TypeOK, OneBusy, Busy, Functions, Fresh, Own, Pressing, Temps

\* A step of p leaves what another process has got to: either it touches no file,
\* or p is at work on a press, and then the other one is not.
LEMMA Others ==
  ASSUME IInv, NEW p \in Procs, NEW q \in Procs, q # p,
         pc[p] \in Pressing \/ temp' = temp,
         pc'[q] = pc[q], prog'[q] = prog[q], code'[q] = code[q], rets'[q] = rets[q],
         hindered'[q] = hindered[q],
         raced => raced' \/ q \notin Busy,
         ~raced', ~hindered'[q]
  PROVE  Own(q)'
<1>1. CASE pc[q] \in Pressing
  <2>1. q \in Busy /\ ~raced BY <1>1 DEF IInv, TypeOK, Busy
  <2>2. temp' = temp
    <3>1. CASE pc[p] \in Pressing
      <4>1. p \in Busy BY <3>1 DEF IInv, TypeOK, Busy
      <4> QED BY <2>1, <4>1 DEF IInv, OneBusy
    <3> QED BY <3>1
  <2>3. Own(q) BY <2>1 DEF IInv
  <2> QED BY <2>2, <2>3 DEF Own, Part, ToClac
<1>2. CASE pc[q] \notin Pressing BY <1>2 DEF Own, Pressing
<1> QED BY <1>1, <1>2

\* The plugin is loaded, and its dialog opened and closed.
LEMMA PluginStep ==
  ASSUME IInv, NEW p \in Procs,
         IDAP_init(p) \/ ReleaseRes(p) \/ IDAP_run(p) \/ Main_OnClose(p), UNCHANGED <<users, stray>>
  PROVE  IInv'
<1> USE DEF IInv, GoTo, pressVars
<1>1. TypeOK'
  <2>1. /\ asexe' \in {"none", "empty", "whole"} /\ UNCHANGED <<temp, stray, users>>
        /\ prog' = prog /\ hindered' = hindered
        /\ raced' \in BOOLEAN
    BY DEF TypeOK, IDAP_init, ReleaseRes, IDAP_run, FindWindow, CreateDialog, Main_OnClose, Leave
  <2>2. /\ pc' \in [Procs -> Pressing \cup {"off", "release", "fill", "idle", "look"}]
        /\ pc'[p] \notin Pressing
        /\ \A q \in Procs \ {p} : pc'[q] = pc[q]
    BY DEF TypeOK, IDAP_init, ReleaseRes, IDAP_run, FindWindow, CreateDialog, Main_OnClose, Pressing
  <2>3. /\ dialog' \in [Procs -> BOOLEAN]
        /\ \A q \in Procs \ {p} : dialog'[q] = dialog[q]
    BY DEF TypeOK, IDAP_init, ReleaseRes, IDAP_run, FindWindow, CreateDialog, Main_OnClose, Leave
  <2> QED BY <2>1, <2>2, <2>3 DEF TypeOK
<1>2. OneBusy'
  <2>1. CASE FindWindow(p) BY <2>1 DEF FindWindow, OneBusy, Busy, TypeOK
  <2>2. CASE Main_OnClose(p) BY <2>2 DEF Main_OnClose, Leave, OneBusy, Busy, TypeOK
  <2>3. CASE IDAP_init(p) \/ ReleaseRes(p) \/ CreateDialog(p)
    <3>1. Busy' = Busy BY <2>3 DEF IDAP_init, ReleaseRes, CreateDialog, Busy, TypeOK
    <3> QED BY <2>3, <3>1 DEF IDAP_init, ReleaseRes, CreateDialog, OneBusy
  <2> QED BY <2>1, <2>2, <2>3 DEF IDAP_run
<1>3. Functions' /\ UNCHANGED pressVars /\ UNCHANGED temp
  BY DEF Functions, IDAP_init, ReleaseRes, IDAP_run, FindWindow, CreateDialog, Main_OnClose
<1>4. /\ pc[p] \notin Pressing /\ pc'[p] \notin Pressing
      /\ \A q \in Procs : q # p => pc'[q] = pc[q]
  BY DEF TypeOK, IDAP_init, ReleaseRes, IDAP_run, FindWindow, CreateDialog, Main_OnClose, Pressing
<1>5. Fresh' BY <1>3, <1>4 DEF Fresh, Pressing
<1>6. ASSUME NEW q \in Procs, ~raced', ~hindered'[q] PROVE Own(q)'
  <2>1. CASE q = p BY <1>4, <2>1 DEF Own, Pressing
  <2>2. CASE q # p
    <3>1. raced => raced' \/ q \notin Busy
      BY <2>2 DEF IDAP_init, ReleaseRes, IDAP_run, FindWindow, CreateDialog, Main_OnClose, Leave
    <3> QED BY <1>3, <1>4, <1>6, <2>2, <3>1, Others
  <2> QED BY <2>1, <2>2
<1> QED BY <1>1, <1>2, <1>3, <1>5, <1>6

\* A process that ends forgets its press; so do a press that fails and one that is done.
LEMMA EndStep ==
  ASSUME IInv, NEW p \in Procs, Die(p) \/ ((Finish(p) \/ Fail(p)) /\ UNCHANGED stray), UNCHANGED users
  PROVE  IInv'
<1> USE DEF IInv, GoTo
<1>1. TypeOK'
  <2>1. /\ DOMAIN temp' = Temps
        /\ temp'["temp~1.s"] \in {NoFile, temp["temp~1.s"]}
        /\ temp'["temp~1.o"] \in {NoFile, temp["temp~1.o"]}
    BY DEF TypeOK, Die, Finish, Fail, DeleteFiles, Temps
  <2>2. /\ \A q \in Procs \ {p} : pc'[q] = pc[q] /\ dialog'[q] = dialog[q] /\ prog'[q] = prog[q]
        /\ pc'[p] \in {"off", "idle"}
        /\ pc' \in [Procs -> Pressing \cup {"off", "release", "fill", "idle", "look"}]
        /\ dialog' \in [Procs -> BOOLEAN]
    BY DEF TypeOK, Die, Finish, Fail, Leave, Forget, Pressing
  <2>3. /\ prog' \in [Procs -> AllPrograms \cup {NoProgram}] /\ hindered' \in [Procs -> BOOLEAN]
        /\ raced' \in BOOLEAN /\ UNCHANGED asexe
    BY DEF TypeOK, Die, Finish, Fail, Leave, Forget
  <2>4. \A s \in stray' : s.n \in {1, 2} /\ (s.n = 1 => s.object \in {Unread, NoFile} \cup Objects)
    <3>1. CASE UNCHANGED stray BY <3>1 DEF TypeOK
    <3>2. CASE stray' = stray \cup {[n |-> IF pc[p] = "as" THEN 1 ELSE 2, object |-> Unread]}
      BY <3>2 DEF TypeOK
    <3> QED BY <3>1, <3>2 DEF Die
  <2> QED BY <2>1, <2>2, <2>3, <2>4 DEF TypeOK, Pressing
<1>2. OneBusy'
  <2>1. CASE Leave(p) /\ (Die(p) \/ Finish(p))
    <3>1. \A q \in Procs : dialog'[q] \/ pc'[q] = "look" =>
            q # p /\ (dialog[q] \/ pc[q] = "look")
      BY <2>1 DEF Die, Finish, Leave, TypeOK
    <3>2. Busy' \subseteq Busy \ {p}
      BY ONLY <3>1, Zenon DEF Busy
    <3>3. raced' = (raced /\ Busy \ {p} # {})
      BY ONLY <2>1 DEF Leave
    <3>4. raced' \/ ~ raced \/ Busy' = {}
      BY ONLY <3>2, <3>3
    <3>5. OneBusy
      OBVIOUS
    <3> QED BY ONLY <3>2, <3>4, <3>5 DEF OneBusy
  <2>2. CASE Fail(p) BY <2>2 DEF Fail, OneBusy, Busy, TypeOK
  <2> QED BY <2>1, <2>2 DEF Die, Finish
<1>3. Functions' /\ rets'[p] = <<>> BY DEF Functions, Die, Finish, Fail, Forget
<1>4. /\ pc'[p] \notin Pressing
      /\ pc[p] \in Pressing \/ temp' = temp
  BY DEF TypeOK, Die, Finish, Fail, Pressing
<1>5. ASSUME NEW q \in Procs, q # p
      PROVE  /\ pc'[q] = pc[q] /\ prog'[q] = prog[q] /\ code'[q] = code[q]
             /\ rets'[q] = rets[q] /\ hindered'[q] = hindered[q]
             /\ raced => raced' \/ q \notin Busy
  BY <1>5 DEF TypeOK, Functions, Die, Finish, Fail, Forget, Leave
<1>6. Fresh' BY <1>3, <1>5 DEF Fresh
<1>7. ASSUME NEW q \in Procs, ~raced', ~hindered'[q] PROVE Own(q)'
  <2>1. CASE q = p BY <1>4, <2>1 DEF Own, Pressing
  <2>2. CASE q # p BY <1>4, <1>5, <1>7, <2>2, Others
  <2> QED BY <2>1, <2>2
<1> QED BY <1>1, <1>2, <1>3, <1>6, <1>7

\* What a step of a press has to show.
LEMMA Work ==
  ASSUME IInv, NEW p \in Procs, NEW l \in Pressing, dialog[p],
         UNCHANGED <<users, asexe, dialog, stray, raced>>,
         GoTo(p, l),
         pc[p] \in Pressing \/ temp' = temp,
         DOMAIN temp' = Temps,
         temp'["temp~1.s"] \in {NoFile} \cup Sources,
         temp'["temp~1.o"] \in {NoFile} \cup Objects,
         prog' \in [Procs -> AllPrograms \cup {NoProgram}], prog'[p] # NoProgram,
         hindered' \in [Procs -> BOOLEAN], Functions',
         \A q \in Procs \ {p} : /\ prog'[q] = prog[q] /\ code'[q] = code[q]
                                /\ rets'[q] = rets[q] /\ hindered'[q] = hindered[q],
         rets'[p] # <<>> => l \in {"clac", "clac as", "clac read", "close", "fail", "crashed"},
         ~raced /\ ~hindered'[p] => Own(p)'
  PROVE  IInv'
<1> USE DEF IInv, GoTo
<1>1. TypeOK' BY DEF TypeOK
<1>2. \A q \in Procs \ {p} : pc'[q] = pc[q] BY DEF TypeOK
<1>3. OneBusy'
  <2>1. Busy' = Busy BY DEF Busy, TypeOK, Pressing
  <2> QED BY <2>1 DEF OneBusy
<1>4. Fresh' BY <1>2 DEF Fresh, TypeOK
<1>5. ASSUME NEW q \in Procs, ~raced', ~hindered'[q] PROVE Own(q)'
  <2>1. CASE q = p BY <1>5, <2>1
  <2>2. CASE q # p BY <1>2, <1>5, <2>2, Others
  <2> QED BY <2>1, <2>2
<1> QED BY <1>1, <1>3, <1>4, <1>5

\* The press, and the first run of as.
LEMMA FirstSteps ==
  ASSUME IInv, NEW p \in Procs, Press(p) \/ WriteSrcFile(p) \/ RunAs(p) \/ MapFile(p),
         UNCHANGED <<users, stray>>
  PROVE  IInv'
<1> USE DEF IInv
<1>1. CASE Press(p)
  <2>1. PICK pr \in users[p] : /\ prog' = [prog EXCEPT ![p] = pr]
                               /\ GoTo(p, IF Overruns(pr) THEN "crashed" ELSE "write")
    BY <1>1 DEF Press
  <2>2. pr \in AllPrograms BY DEF AllPrograms, TypeOK
  <2> DEFINE l == IF Overruns(pr) THEN "crashed" ELSE "write"
  <2>3. l \in Pressing BY DEF Pressing
  <2>4. /\ prog' \in [Procs -> AllPrograms \cup {NoProgram}] /\ prog'[p] = pr
        /\ \A q \in Procs \ {p} : prog'[q] = prog[q]
    BY <2>1, <2>2 DEF TypeOK
  <2>5. rets'[p] = <<>> BY <1>1 DEF Press, Fresh
  <2>6. Own(p)'
    <3>1. pc'[p] = l BY <2>1 DEF GoTo, TypeOK
    <3> QED BY <3>1, <2>4 DEF Own, Fits
  <2> HIDE DEF l
  <2>7. /\ dialog[p] /\ temp' = temp /\ Functions' /\ hindered' = hindered
        /\ UNCHANGED <<asexe, dialog, raced, code, rets>>
    BY <1>1 DEF Press, Functions
  <2>8. GoTo(p, l) BY <2>1 DEF l
  <2> QED BY <2>2, <2>3, <2>4, <2>5, <2>6, <2>7, <2>8, ProgramAssumption, Work DEF TypeOK
<1>2. CASE WriteSrcFile(p)
  <2>1. /\ "as" \in Pressing /\ "crashed" \in Pressing /\ pc[p] \in Pressing /\ dialog[p]
        /\ prog[p] \in AllPrograms /\ rets[p] = <<>>
        /\ UNCHANGED <<asexe, dialog, prog, code, rets, raced>>
    BY <1>2 DEF WriteSrcFile, Pressing, TypeOK, Fresh
  <2>2. CASE /\ temp' = [temp EXCEPT !["temp~1.s"] = Source(prog[p])]
             /\ GoTo(p, "as") /\ UNCHANGED hindered
    <3>1. /\ DOMAIN temp' = Temps /\ temp'["temp~1.s"] = Source(prog[p])
          /\ temp'["temp~1.o"] = temp["temp~1.o"] /\ pc'[p] = "as"
      BY <2>2 DEF TypeOK, Temps, GoTo
    <3>2. Own(p)' BY <2>1, <3>1 DEF Own
    <3> QED BY <2>1, <2>2, <3>1, <3>2, Work DEF TypeOK, Functions, Sources
  <2>3. CASE /\ ~SourceFits(prog[p])
             /\ temp' = [temp EXCEPT !["temp~1.s"] = EmptySource]
             /\ Crash(p) /\ UNCHANGED hindered
    <3>1. /\ DOMAIN temp' = Temps /\ temp'["temp~1.s"] = EmptySource
          /\ temp'["temp~1.o"] = temp["temp~1.o"] /\ pc'[p] = "crashed" /\ GoTo(p, "crashed")
      BY <2>3 DEF TypeOK, Temps, GoTo, Crash
    <3>2. ~Fits(prog[p]) BY <2>3 DEF Fits
    <3>3. Own(p)' BY <2>1, <3>1, <3>2 DEF Own
    <3> QED BY <2>1, <2>3, <3>1, <3>3, Work DEF TypeOK, Functions, Sources
  <2>4. CASE Crash(p) /\ Hinder(p) /\ UNCHANGED temp
    BY <2>1, <2>4, Work DEF TypeOK, Functions, Crash, Hinder
  <2> QED BY <1>2, <2>2, <2>3, <2>4 DEF WriteSrcFile
<1>3. CASE RunAs(p)
  <2>1. /\ pc[p] \in Pressing /\ dialog[p] /\ rets[p] = <<>> /\ pc[p] = "as"
        /\ UNCHANGED <<asexe, dialog, prog, code, rets, raced>>
    BY <1>3 DEF RunAs, Pressing, TypeOK, Fresh
  <2> DEFINE o == Object("temp~1.s")
             l == IF temp["temp~1.s"] # NoFile /\ ~MessagesFit(temp["temp~1.s"]) THEN "crashed" ELSE IF o = NoFile THEN "fail" ELSE "map"
  <2>2. CASE /\ temp' = [temp EXCEPT !["temp~1.o"] = o] /\ GoTo(p, l)
             /\ UNCHANGED hindered
    <3>1. /\ o \in {NoFile} \cup Objects
          /\ o # NoFile => o = as(temp["temp~1.s"]) /\ as(temp["temp~1.s"]) # Error
      BY DEF Object, Objects, TypeOK
    <3> HIDE DEF o
    <3>2. /\ DOMAIN temp' = Temps /\ temp'["temp~1.o"] = o
          /\ temp'["temp~1.s"] = temp["temp~1.s"]
      BY <2>2 DEF TypeOK, Temps
    <3>3. l \in Pressing /\ pc'[p] = l BY <2>2 DEF GoTo, TypeOK, Pressing
    <3>4. ~raced /\ ~hindered'[p] => Own(p)'
      <4>1. SUFFICES ASSUME ~raced, ~hindered[p] PROVE Own(p)' BY <2>2
      <4>2. temp["temp~1.s"] = Source(prog[p]) BY <2>1, <4>1 DEF Own
      <4>3. l = "crashed" => ~Fits(prog[p]) BY <4>2 DEF Fits
      <4> QED BY <2>1, <3>1, <3>2, <3>3, <4>2, <4>3 DEF Own
    <3> HIDE DEF l
    <3> QED BY <2>1, <2>2, <3>1, <3>2, <3>3, <3>4, Work DEF TypeOK, Functions
  <2>3. CASE GoTo(p, "map") /\ Hinder(p) /\ UNCHANGED temp
    <3>1. "map" \in Pressing BY DEF Pressing
    <3> QED BY <2>1, <2>3, <3>1, Work DEF TypeOK, Functions, Hinder
  <2> QED BY <1>3, <2>2, <2>3 DEF RunAs
<1>4. CASE MapFile(p)
  <2>1. /\ pc[p] \in Pressing /\ dialog[p] /\ rets[p] = <<>> /\ pc[p] = "map"
        /\ "clac" \in Pressing /\ "crashed" \in Pressing
        /\ UNCHANGED <<asexe, temp, dialog, prog, rets, raced>>
    BY <1>4 DEF MapFile, Pressing, TypeOK, Fresh
  <2> DEFINE l == IF CodeFits(temp["temp~1.o"]) THEN "clac" ELSE "crashed"
  <2>2. CASE /\ code' = [code EXCEPT ![p] = temp["temp~1.o"]] /\ UNCHANGED hindered
             /\ GoTo(p, l)
    <3>1. l \in Pressing /\ pc'[p] = l /\ l \in {"clac", "crashed"} BY <2>1, <2>2 DEF GoTo, TypeOK
    <3>2. ~raced /\ ~hindered'[p] => Own(p)'
      <4>1. SUFFICES ASSUME ~raced, ~hindered[p] PROVE Own(p)' BY <2>2
      <4>2. temp["temp~1.o"] = as(Source(prog[p])) /\ as(Source(prog[p])) # Error
        BY <2>1, <4>1 DEF Own
      <4>3. Part(p)' BY <2>1 DEF Part
      <4>4. l = "crashed" => ~Fits(prog[p]) BY <4>2 DEF Fits
      <4>5. code'[p] = as(Source(prog[p])) BY <2>2, <4>2 DEF Functions
      <4> HIDE DEF l
      <4> QED BY <2>1, <3>1, <4>2, <4>3, <4>4, <4>5 DEF Own
    <3> HIDE DEF l
    <3> QED BY <2>1, <2>2, <3>1, <3>2, Work DEF TypeOK, Functions
  <2>3. CASE GoTo(p, "clac") /\ Hinder(p) /\ UNCHANGED code
    BY <2>1, <2>3, Work DEF TypeOK, Functions, Hinder
  <2> QED BY <1>4, <2>2, <2>3 DEF MapFile
<1> QED BY <1>1, <1>2, <1>3, <1>4

\* The instructions of a press, one more.
LEMMA OneMore ==
  ASSUME NEW s, Len(s) \in Nat, NEW b, NEW e, e = Answer(b[Len(s) + 1]),
         s = [i \in 1..Len(s) |-> Answer(b[i])]
  PROVE  /\ Len(Append(s, e)) = Len(s) + 1
         /\ Append(s, e) = [i \in 1..(Len(s) + 1) |-> Answer(b[i])]
<1> DEFINE T == {Answer(b[i]) : i \in 1..(Len(s) + 1)}
           t == [i \in 1..(Len(s) + 1) |-> Answer(b[i])]
<1>1. s \in Seq(T) /\ e \in T
  <2>1. s \in [1..Len(s) -> T] OBVIOUS
  <2>2. e \in T OBVIOUS
  <2> QED BY <2>1, <2>2
<1>2. Append(s, e) \in Seq(T) /\ Len(Append(s, e)) = Len(s) + 1 BY <1>1
<1>3. t \in Seq(T) /\ Len(t) = Len(s) + 1
  <2>1. t \in [1..(Len(s) + 1) -> T] OBVIOUS
  <2> QED BY <2>1
<1>4. ASSUME NEW i \in 1..(Len(s) + 1) PROVE Append(s, e)[i] = t[i]
  <2>1. CASE i = Len(s) + 1 BY <1>1, <2>1
  <2>2. CASE i \in 1..Len(s)
    <3>1. Append(s, e)[i] = s[i] BY <1>1, <2>2
    <3>2. s[i] = Answer(b[i]) BY <2>2
    <3> QED BY <3>1, <3>2
  <2> QED BY <2>1, <2>2
<1> HIDE DEF T, t
<1>5. Append(s, e) = t BY <1>2, <1>3, <1>4
<1> QED BY <1>2, <1>5 DEF t

\* The branches, and the bytes.
LEMMA BranchSteps ==
  ASSUME IInv, NEW p \in Procs, ClacBL(p) \/ Patch(p), UNCHANGED <<users, stray>>
  PROVE  IInv'
<1> USE DEF IInv
<1>1. CASE ClacWrite(p) /\ Crash(p)
  <2>1. /\ pc[p] \in Pressing /\ dialog[p] /\ "crashed" \in Pressing
        /\ UNCHANGED <<asexe, dialog, prog, code, rets, raced>>
    BY <1>1 DEF ClacWrite, Pressing, TypeOK
  <2>2. CASE Hinder(p) /\ UNCHANGED temp
    BY <1>1, <2>1, <2>2, Work DEF TypeOK, Functions, Crash, Hinder
  <2>3. CASE ~BranchFits(ToClac(p)) /\ UNCHANGED <<temp, hindered>>
    <3>1. ~Fits(prog[p]) BY <1>1, <2>3 DEF ClacWrite, ToClac, Fits
    <3>2. pc'[p] = "crashed" BY <1>1 DEF Crash, GoTo, TypeOK
    <3>3. Own(p)' BY <2>1, <3>1, <3>2 DEF Own
    <3> QED BY <1>1, <2>1, <2>3, <3>3, Work DEF TypeOK, Functions, Crash
  <2>4. CASE temp' = [temp EXCEPT !["temp~2.s"] = ClacSource(ToClac(p))] /\ GoTo(p, "clac as")
    BY <1>1, <2>4 DEF Crash, GoTo, TypeOK
  <2> QED BY <1>1, <2>2, <2>3, <2>4 DEF ClacWrite
<1>2. CASE /\ ClacWrite(p) /\ temp' = [temp EXCEPT !["temp~2.s"] = ClacSource(ToClac(p))]
           /\ GoTo(p, "clac as") /\ UNCHANGED hindered
  <2>1. /\ pc[p] \in Pressing /\ dialog[p] /\ "clac as" \in Pressing /\ pc'[p] = "clac as"
        /\ UNCHANGED pressVars
    BY <1>2 DEF ClacWrite, Pressing, TypeOK, GoTo, pressVars
  <2>2. /\ DOMAIN temp' = Temps /\ temp'["temp~2.s"] = ClacSource(ToClac(p))
        /\ temp'["temp~1.s"] = temp["temp~1.s"] /\ temp'["temp~1.o"] = temp["temp~1.o"]
    BY <1>2 DEF ClacWrite, TypeOK, Temps
  <2>3. ~raced /\ ~hindered'[p] => Own(p)'
    <3>1. SUFFICES ASSUME ~raced, ~hindered[p] PROVE Own(p)' BY <2>1 DEF pressVars
    <3>2. code[p] = as(Source(prog[p])) /\ as(Source(prog[p])) # Error /\ Part(p)
      BY <1>2, <3>1 DEF ClacWrite, Own
    <3> QED BY <2>1, <2>2, <3>2 DEF Own, Part, ToClac, pressVars
  <2> QED BY <1>2, <2>1, <2>2, <2>3, Work DEF ClacWrite, TypeOK, Functions, pressVars
<1>3. CASE ClacRun(p)
  <2>1. /\ pc[p] \in Pressing /\ dialog[p] /\ pc[p] = "clac as"
        /\ UNCHANGED <<asexe, dialog, prog, code, rets, raced>>
    BY <1>3 DEF ClacRun, Pressing, TypeOK
  <2> DEFINE o == ClacObject("temp~2.s")
             l == IF o = NoFile THEN "fail" ELSE "clac read"
  <2>2. CASE /\ temp' = [temp EXCEPT !["temp~2.o"] = o] /\ GoTo(p, l)
             /\ UNCHANGED hindered
    <3>1. UNCHANGED pressVars BY <2>1, <2>2 DEF pressVars
    <3>2. o # NoFile => o = AsClac(temp["temp~2.s"]) /\ AsClac(temp["temp~2.s"]) # Error
      BY DEF ClacObject
    <3> HIDE DEF o
    <3>3. /\ DOMAIN temp' = Temps /\ temp'["temp~2.o"] = o
          /\ temp'["temp~1.s"] = temp["temp~1.s"] /\ temp'["temp~1.o"] = temp["temp~1.o"]
      BY <2>2 DEF TypeOK, Temps
    <3>4. l \in Pressing /\ pc'[p] = l BY <2>2 DEF GoTo, TypeOK, Pressing
    <3>5. ~raced /\ ~hindered'[p] => Own(p)'
      <4>1. SUFFICES ASSUME ~raced, ~hindered[p] PROVE Own(p)' BY <3>1 DEF pressVars
      <4>2. /\ code[p] = as(Source(prog[p])) /\ as(Source(prog[p])) # Error /\ Part(p)
            /\ temp["temp~2.s"] = ClacSource(ToClac(p))
        BY <2>1, <4>1 DEF Own
      <4>3. Part(p)' /\ ToClac(p)' = ToClac(p) BY <3>1, <4>2 DEF Part, ToClac, pressVars
      <4> QED BY <3>1, <3>2, <3>3, <3>4, <4>2, <4>3 DEF Own, pressVars, InClac
    <3>6. rets'[p] # <<>> => l \in {"clac", "clac as", "clac read", "close", "fail", "crashed"}
      OBVIOUS
    <3> HIDE DEF l
    <3> QED BY <2>1, <2>2, <3>1, <3>3, <3>4, <3>5, <3>6, Work DEF TypeOK, Functions, pressVars
  <2>3. ASSUME NEW m \in {"clac read", "fail"}, GoTo(p, m), Hinder(p), UNCHANGED temp
        PROVE  IInv'
    <3>1. m \in Pressing BY DEF Pressing
    <3> QED BY <2>1, <2>3, <3>1, Work DEF TypeOK, Functions, Hinder
  <2> QED BY <1>3, <2>2, <2>3 DEF ClacRun
<1>4. CASE ClacRead(p)
  <2>1. /\ pc[p] \in Pressing /\ dialog[p] /\ pc[p] = "clac read"
        /\ "crashed" \in Pressing /\ "clac" \in Pressing
        /\ UNCHANGED <<asexe, dialog, prog, code, raced>>
    BY <1>4 DEF ClacRead, Pressing, TypeOK
  <2>2. CASE temp["temp~2.o"] = NoFile /\ Crash(p) /\ UNCHANGED <<temp, rets, hindered>>
    <3>1. ~raced => hindered[p] BY <2>1, <2>2 DEF Own
    <3> QED BY <2>1, <2>2, <3>1, Work DEF TypeOK, Functions, Crash
  <2>3. CASE Crash(p) /\ Hinder(p) /\ UNCHANGED <<temp, rets>>
    BY <2>1, <2>3, Work DEF TypeOK, Functions, Crash, Hinder
  <2> DEFINE e == Instruction(ToClac(p), temp["temp~2.o"])
  <2>4. CASE /\ temp["temp~2.o"] # NoFile
             /\ rets' = [rets EXCEPT ![p] = Append(@, e)]
             /\ temp' = [temp EXCEPT !["temp~2.s"] = NoFile, !["temp~2.o"] = NoFile]
             /\ GoTo(p, "clac") /\ UNCHANGED hindered
    <3>1. pc'[p] = "clac" BY <2>4 DEF GoTo, TypeOK
    <3>2. /\ DOMAIN temp' = Temps
          /\ temp'["temp~1.s"] = temp["temp~1.s"] /\ temp'["temp~1.o"] = temp["temp~1.o"]
      BY <2>4 DEF TypeOK, Temps
    <3>3. rets'[p] = Append(rets[p], e) BY <2>4 DEF Functions
    <3>4. ~raced /\ ~hindered'[p] => Own(p)'
      <4>1. SUFFICES ASSUME ~raced, ~hindered[p] PROVE Own(p)' BY <2>4
      <4>2. /\ code[p] = as(Source(prog[p])) /\ as(Source(prog[p])) # Error /\ Part(p)
            /\ temp["temp~2.o"] = AsClac(ClacSource(ToClac(p))) /\ InClac(ToClac(p))
        BY <2>1, <4>1 DEF Own
      <4>3. e = Answer(Branches(prog[p])[Len(rets[p]) + 1])
        BY <4>2 DEF Answer, ToClac, InClac
      <4>4. Part(p)'
        <5> HIDE DEF e
        <5>1. /\ Len(rets'[p]) = Len(rets[p]) + 1
              /\ rets'[p] = [i \in 1..(Len(rets[p]) + 1) |-> Answer(Branches(prog[p])[i])]
          BY <3>3, <4>2, <4>3, OneMore DEF Part
        <5>2. Len(rets[p]) \in Nat BY <4>2 DEF Part
        <5>3. prog'[p] = prog[p] BY <2>1
        <5>4. ASSUME NEW i \in 1..(Len(rets[p]) + 1) PROVE InClac(Branches(prog[p])[i])
          <6>1. CASE i = Len(rets[p]) + 1 BY <4>2, <6>1 DEF ToClac
          <6>2. CASE i \in 1..Len(rets[p]) BY <4>2, <6>2 DEF Part
          <6> QED BY <5>2, <6>1, <6>2
        <5> QED BY <5>1, <5>2, <5>3, <5>4 DEF Part
      <4> QED BY <2>1, <3>1, <4>2, <4>4 DEF Own
    <3> HIDE DEF e
    <3> QED BY <2>1, <2>4, <3>2, <3>4, Work DEF TypeOK, Functions
  <2> QED BY <1>4, <2>2, <2>3, <2>4 DEF ClacRead
<1>5. CASE Patch(p)
  <2>1. /\ pc[p] \in Pressing /\ dialog[p] /\ "close" \in Pressing /\ pc'[p] = "close"
    BY <1>5 DEF Patch, Pressing, TypeOK, GoTo
  <2>2. ~raced /\ ~hindered'[p] => Own(p)'
    <3>1. SUFFICES ASSUME ~raced, ~hindered[p] PROVE Own(p)' BY <1>5 DEF Patch
    <3>2. code[p] = as(Source(prog[p])) /\ as(Source(prog[p])) # Error /\ Part(p)
      BY <1>5, <3>1 DEF Patch, Own
    <3>3. rets[p] = [i \in 1..Len(Branches(prog[p])) |-> Answer(Branches(prog[p])[i])]
      BY <1>5, <3>2 DEF Patch, Part
    <3>4. code'[p] = Overlaid(code[p], prog[p], rets[p]) BY <1>5 DEF Patch, Functions
    <3>5. code'[p] = Assembled(prog[p]) BY <3>2, <3>3, <3>4 DEF Assembled
    <3>6. Assembles(prog[p]) BY <1>5, <3>2 DEF Patch, Part, Assembles
    <3> QED BY <1>5, <2>1, <3>5, <3>6 DEF Own, Patch
  <2> QED BY <1>5, <2>1, <2>2, Work DEF Patch, TypeOK, Functions
<1> QED BY <1>1, <1>2, <1>3, <1>4, <1>5 DEF ClacBL, ClacWrite

\* An as.exe whose IDA has ended reads its source, or writes its object: every press
\* that is under way counts as hindered.
LEMMA StrayStep ==
  ASSUME IInv, StrayReads \/ StrayWrites, UNCHANGED users
  PROVE  IInv'
<1> USE DEF IInv
<1>1. CASE StrayReads
  <2>1. UNCHANGED <<users, asexe, temp, pc, dialog, pressVars, raced>> BY <1>1 DEF StrayReads
  <2>2. PICK t \in stray :
          stray' = (stray \ {t}) \cup
            {[t EXCEPT !.object = IF t.n = 1 THEN Object("temp~1.s") ELSE ClacObject("temp~2.s")]}
    BY <1>1 DEF StrayReads
  <2>3. Object("temp~1.s") \in {NoFile} \cup Objects BY DEF Object, Objects, TypeOK
  <2> DEFINE o == IF t.n = 1 THEN Object("temp~1.s") ELSE ClacObject("temp~2.s")
             u == [t EXCEPT !.object = o]
  <2>4. u.n \in {1, 2} /\ (u.n = 1 => u.object \in {Unread, NoFile} \cup Objects)
    <3>1. t.n \in {1, 2} /\ (t.n = 1 => t.object \in {Unread, NoFile} \cup Objects) BY DEF TypeOK
    <3>2. t.n = 1 => o \in {NoFile} \cup Objects BY <2>3
    <3> QED BY <3>1, <3>2
  <2> HIDE DEF u
  <2>5. TypeOK' BY <2>1, <2>2, <2>4 DEF TypeOK, pressVars, u
  <2>6. OneBusy' /\ Functions' /\ Fresh' BY <2>1 DEF OneBusy, Busy, Functions, Fresh, pressVars
  <2>7. ASSUME NEW p \in Procs, ~raced', ~hindered'[p] PROVE Own(p)'
    BY <2>1, <2>7 DEF Own, Part, ToClac, pressVars
  <2> QED BY <2>5, <2>6, <2>7
<1>2. CASE StrayWrites
  <2>1. UNCHANGED <<users, asexe, pc, dialog, prog, code, rets, raced>> BY <1>2 DEF StrayWrites
  <2>2. PICK t \in stray :
          /\ t.object # Unread /\ stray' = stray \ {t}
          /\ temp' = [temp EXCEPT ![IF t.n = 1 THEN "temp~1.o" ELSE "temp~2.o"] = t.object]
          /\ hindered' = [p \in Procs |-> hindered[p] \/ pc[p] \in Pressing]
    BY <1>2 DEF StrayWrites
  <2>3. /\ DOMAIN temp' = Temps /\ temp'["temp~1.s"] = temp["temp~1.s"]
        /\ temp'["temp~1.o"] \in {NoFile} \cup Objects
    BY <2>2 DEF TypeOK, Temps
  <2>4. hindered' \in [Procs -> BOOLEAN] BY <2>2
  <2>5. TypeOK' BY <2>1, <2>2, <2>3, <2>4 DEF TypeOK
  <2>6. OneBusy' /\ Functions' /\ Fresh' BY <2>1 DEF OneBusy, Busy, Functions, Fresh
  <2>7. ASSUME NEW p \in Procs, ~raced', ~hindered'[p] PROVE Own(p)'
    <3>1. pc[p] \notin Pressing BY <2>2, <2>7
    <3> QED BY <2>1, <3>1 DEF Own, Pressing
  <2> QED BY <2>5, <2>6, <2>7
<1> QED BY <1>1, <1>2

\* Every step keeps the invariant.
LEMMA StepInv == ASSUME IInv, [Next]_vars PROVE IInv'
<1>1. CASE UNCHANGED vars
  <2> USE <1>1 DEF vars, pressVars, IInv
  <2>1. TypeOK' BY DEF TypeOK
  <2>2. OneBusy' /\ Functions' /\ Fresh' BY DEF OneBusy, Busy, Functions, Fresh
  <2>3. ASSUME NEW p \in Procs, ~raced', ~hindered'[p] PROVE Own(p)'
    BY <2>3 DEF Own, Part, ToClac
  <2> QED BY <2>1, <2>2, <2>3
<1>2. CASE Next
  <2>1. CASE \E p \in Procs :
               \/ /\ \/ IDAP_init(p) \/ ReleaseRes(p) \/ IDAP_run(p) \/ Main_OnClose(p)
                     \/ OnButtonCalc(p)
                  /\ UNCHANGED stray
               \/ Die(p)
    <3>1. UNCHANGED users BY <1>2 DEF Next
    <3> QED BY <2>1, <3>1, PluginStep, EndStep, FirstSteps, BranchSteps DEF OnButtonCalc
  <2> QED BY <1>2, <2>1, StrayStep DEF Next
<1> QED BY <1>1, <1>2

\* The inductive invariant holds.
LEMMA Invariant == Spec => []IInv
BY InitInv, StepInv, PTL DEF Spec

\* The state keeps its types.
THEOREM TypeCorrect == Spec => []TypeOK
<1>1. IInv => TypeOK BY DEF IInv
<1> QED BY <1>1, Invariant, PTL

\* Two dialogs are there only after two processes passed FindWindow together
\* (PatchARMIDAPlguin.cpp, 77-80).
THEOREM OneDialogAlways == Spec => []OneDialog
<1>1. IInv => OneDialog BY DEF IInv, OneBusy, Busy, OneDialog
<1> QED BY <1>1, Invariant, PTL

\* Without two dialogs, and with nothing that hinders the press itself (a file that
\* cannot be created or opened, an as.exe that is not whole or not started, or one
\* that outlived its IDA and writes now), a press patches what one run alone makes of
\* its program, whatever files other processes, earlier presses and processes that
\* died have left before (DlgMain.cpp, 913-983).
THEOREM OwnCodeAlways == Spec => []OwnCode
<1>1. IInv => OwnCode BY DEF IInv, Own, OwnCode
<1> QED BY <1>1, Invariant, PTL

\* And it does not end IDA, if its branches have operands and the program fits the
\* buffers it goes through (427, 415, 466, 545, 587, 602, 629, 913).
THEOREM NoCrashAlways == Spec => []NoCrash
<1>1. IInv => NoCrash BY DEF IInv, Own, NoCrash
<1> QED BY <1>1, Invariant, PTL

\* What rounding a distance down to 0x10 bytes leaves in ARM.
LEMMA ArmRounding ==
  ASSUME NEW d \in Nat, d % 4 = 0
  PROVE  /\ ((d \div 16) * 16) \div 4 = 4 * (d \div 16)
         /\ ((d \div 16) * 16 + 12) \div 4 = 4 * (d \div 16) + 3
         /\ ((d % 16) \div 2) \div 2 = d \div 4 - 4 * (d \div 16)
         /\ (-d) \div 4 = -(d \div 4)
OBVIOUS

\* And in Thumb.
LEMMA ThumbRounding ==
  ASSUME NEW d \in Nat, d % 2 = 0
  PROVE  /\ ((d \div 16) * 16) \div 2 = 8 * (d \div 16)
         /\ ((d \div 16) * 16 + 12) \div 2 = 8 * (d \div 16) + 6
         /\ ((d % 16) \div 2) \div 1 = d \div 2 - 8 * (d \div 16)
         /\ (-d) \div 2 = -(d \div 2)
OBVIOUS

\* A distance is made of whole units in both directions.
LEMMA Opposite ==
  ASSUME NEW x \in Nat, NEW y \in Nat
  PROVE  /\ (x - y) % 4 = 0 => (y - x) % 4 = 0
         /\ (x - y) % 2 = 0 => (y - x) % 2 = 0
OBVIOUS

\* The rest makes up for the rounding, in each mode and direction.
LEMMA RestAdded ==
  ASSUME NEW b, b.type \in {0, 1}, b.src \in Nat, b.des \in Nat,
         (b.des - b.src) % UnitSize(b.type) = 0
  PROVE  /\ RoughField(ClacSource(b)) \in Int /\ dwRem(b) \in Int
         /\ RoughField(ClacSource(b)) + dwRem(b) = (b.des - b.src) \div UnitSize(b.type) - 2
<1> DEFINE d == Distance(b)
           s == ClacSource(b)
           k == d \div 16
           rem == ((d % 16) \div 2) \div (2 - b.type)
<1>1. /\ s.type = b.type /\ s.range = (d \div 16) * 16
      /\ s.label = IF b.src >= b.des THEN "before" ELSE "behind"
  BY DEF ClacSource, BADADDR
<1>2. /\ d \in Nat
      /\ b.src >= b.des => b.des - b.src = -d
      /\ b.src < b.des => b.des - b.src = d
  BY DEF Distance
<1>3. k \in Int /\ d \div UnitSize(b.type) \in Int
  BY <1>2 DEF UnitSize
<1>4. dwRem(b) = IF b.src >= b.des THEN -rem ELSE IF b.type = 1 THEN rem - 6 ELSE rem - 3
  BY DEF dwRem
<1> HIDE DEF d, s, k, rem
<1>5. CASE b.type = 0
  <2>1. d % 4 = 0 /\ UnitSize(b.type) = 4 /\ UnitSize(s.type) = 4
    BY <1>1, <1>2, <1>5, Opposite DEF UnitSize
  <2>2. /\ s.range \div 4 = 4 * k /\ (s.range + 12) \div 4 = 4 * k + 3
        /\ rem = d \div 4 - 4 * k /\ (-d) \div 4 = -(d \div 4)
    BY <1>1, <1>2, <1>5, <2>1, ArmRounding DEF k, rem
  <2>3. CASE b.src >= b.des
    <3>1. RoughField(s) = -(4 * k) - 2 /\ dwRem(b) = -rem
      BY <1>1, <1>4, <1>5, <2>1, <2>2, <2>3 DEF RoughField
    <3> QED BY <1>2, <1>3, <2>1, <2>2, <2>3, <3>1 DEF s
  <2>4. CASE b.src < b.des
    <3>1. RoughField(s) = 4 * k + 3 - 2 /\ dwRem(b) = rem - 3
      BY <1>1, <1>2, <1>3, <1>4, <1>5, <2>1, <2>2, <2>4 DEF RoughField
    <3> QED BY <1>2, <1>3, <2>1, <2>2, <2>4, <3>1 DEF s
  <2> QED BY <2>3, <2>4
<1>6. CASE b.type = 1
  <2>1. d % 2 = 0 /\ UnitSize(b.type) = 2 /\ UnitSize(s.type) = 2
    BY <1>1, <1>2, <1>6, Opposite DEF UnitSize
  <2>2. /\ s.range \div 2 = 8 * k /\ (s.range + 12) \div 2 = 8 * k + 6
        /\ rem = d \div 2 - 8 * k /\ (-d) \div 2 = -(d \div 2)
    BY <1>1, <1>2, <1>6, <2>1, ThumbRounding DEF k, rem
  <2>3. CASE b.src >= b.des
    <3>1. RoughField(s) = -(8 * k) - 2 /\ dwRem(b) = -rem
      BY <1>1, <1>4, <1>6, <2>1, <2>2, <2>3 DEF RoughField
    <3> QED BY <1>2, <1>3, <2>1, <2>2, <2>3, <3>1 DEF s
  <2>4. CASE b.src < b.des
    <3>1. RoughField(s) = 8 * k + 6 - 2 /\ dwRem(b) = rem - 6
      BY <1>1, <1>2, <1>3, <1>4, <1>6, <2>1, <2>2, <2>4 DEF RoughField
    <3> QED BY <1>2, <1>3, <2>1, <2>2, <2>4, <3>1 DEF s
  <2> QED BY <2>3, <2>4
<1> QED BY <1>5, <1>6 DEF s

\* An addition that stays within the low byte is one.
LEMMA ByteAdded ==
  ASSUME NEW v \in Int, NEW n \in Int, (v % 256) + n \in 0..255
  PROVE  AddByte(v, n) = v + n
BY DEF AddByte

\* A field of one byte is right modulo its width.
LEMMA ByteField ==
  ASSUME NEW v \in Int, NEW n \in Int
  PROVE  Signed(AddByte(v, n), 128) = Signed(v + n, 128)
<1>1. (v - (v % 256) + (((v % 256) + n) % 256) + 128) % 256 = (v + n + 128) % 256
  OBVIOUS
<1> QED BY <1>1 DEF Signed, AddByte

\* The field of every branch over a distance of whole units, in whose low byte
\* nothing is borrowed or carried, gives the distance that as would have encoded for
\* the branch at its place, if that is in the field's reach (733-831).
THEOREM FieldExact ==
  ASSUME NEW b, b.type \in {0, 1}, b.src \in Nat, b.des \in Nat,
         (b.des - b.src) % UnitSize(b.type) = 0,
         NoBorrow(b),
         NEW f, f = (b.des - b.src) \div UnitSize(b.type) - 2,
         f \in (-Reach(b.type, b.m))..(Reach(b.type, b.m) - 1)
  PROVE  Field(b) = f
<1> DEFINE half == Reach(b.type, b.m)
           rough == RoughField(ClacSource(b))
<1>1. f \in Int /\ f + half \in 0..(2 * half - 1)
  <2>1. half = 8388608 \/ half = 2097152 \/ half = 1024 \/ half = 128 BY DEF Reach
  <2> QED BY <2>1
<1>2. Signed(f, half) = f
  <2>1. half \in Nat \ {0} BY DEF Reach
  <2> HIDE DEF half
  <2>2. (2 * half) \in Nat \ {0} /\ f + half \in 0..((2 * half) - 1) BY <1>1, <2>1
  <2>3. (f + half) % (2 * half) = f + half BY <2>2, Remainder
  <2> QED BY <1>1, <2>1, <2>3 DEF Signed
<1>3. rough \in Int /\ dwRem(b) \in Int /\ rough + dwRem(b) = f BY RestAdded
<1> HIDE DEF half, rough
<1>4. CASE b.type = 0 /\ b.src < b.des BY <1>2, <1>3, <1>4 DEF Field, half, rough
<1>5. CASE (rough % 256) + dwRem(b) \in 0..255
  <2>1. AddByte(rough, dwRem(b)) = rough + dwRem(b) BY <1>3, <1>5, ByteAdded
  <2> QED BY <1>2, <1>3, <2>1 DEF Field, half, rough
<1>6. CASE half = 128
  <2>1. Signed(AddByte(rough, dwRem(b)), 128) = Signed(rough + dwRem(b), 128) BY <1>3, ByteField
  <2>2. Signed(AddByte(rough, dwRem(b)), half) = f BY <1>2, <1>3, <1>6, <2>1
  <2>3. Signed(rough + dwRem(b), half) = f BY <1>2, <1>3
  <2> QED BY <2>2, <2>3 DEF Field, half, rough
<1> QED BY <1>4, <1>5, <1>6 DEF rough, half, NoBorrow

-----------------------------------------------------------------------------
(* A plain program: what AnalyzerStr makes of it, line by line. *)

\* The lines and the branches of a program.
Lines(pr) == 1..Len(pr.lines)
Kind(pr, k) == pr.lines[k].kind

\* What the loop's variables hold.
Items(pr) ==
  {[is |-> "label", name |-> pr.lines[k].name] : k \in Lines(pr)}
    \cup {TextItem(pr, k, units) : k \in Lines(pr), units \in {0, 1}} \cup {NopItem}
LabelSet(pr) == [name : {pr.lines[k].name : k \in Lines(pr)}, addr : Nat]
BranchSet(pr) ==
  [m : {pr.lines[k].m : k \in Lines(pr)}, to : {pr.lines[k].to : k \in Lines(pr)},
   offset : Nat, src : Nat]
Scans(pr) ==
  [sum : Nat, out : Seq(Items(pr)), labels : SUBSET LabelSet(pr), branches : Seq(BranchSet(pr))]

\* The label and the branch of line k, when e units lie before it.
LabelOf(pr, k, e) == [name |-> pr.lines[k].name, addr |-> e * UnitSize(pr.type) + pr.at]
BranchOf(pr, k, e) ==
  [m |-> pr.lines[k].m, to |-> pr.lines[k].to, offset |-> e, src |-> e * UnitSize(pr.type) + pr.at]

\* What line k of a plain program puts into the source.
Put(pr, k) ==
  IF Kind(pr, k) = "text" THEN <<TextItem(pr, k, 1)>>
  ELSE IF Kind(pr, k) = "label"
    THEN <<[is |-> "label", name |-> pr.lines[k].name], TextItem(pr, k, 0)>>
  ELSE IF Size(pr.type, pr.lines[k].m) = 2 THEN <<NopItem, NopItem>> ELSE <<NopItem>>

\* What is assumed of a program.
LEMMA ProgramTyped ==
  ASSUME NEW pr \in AllPrograms
  PROVE  /\ pr.type \in {0, 1} /\ pr.at \in Nat /\ Len(pr.lines) \in Nat
         /\ UnitSize(pr.type) \in Nat \ {0} /\ \A m : Size(pr.type, m) \in {1, 2}
<1>1. pr.type \in {0, 1} /\ pr.at \in Nat /\ Len(pr.lines) \in Nat BY ProgramAssumption
<1>2. UnitSize(pr.type) \in Nat \ {0} BY <1>1 DEF UnitSize
<1>3. \A m : Size(pr.type, m) \in {1, 2} BY DEF Size
<1> QED BY <1>1, <1>2, <1>3

\* The three kinds of lines of a plain program.
LEMMA PlainLine ==
  ASSUME NEW pr \in AllPrograms, Plain(pr), NEW k \in Lines(pr)
  PROVE  /\ Kind(pr, k) \in {"text", "label", "branch"}
         /\ Kind(pr, k) = "text" => pr.lines[k].units = 1
         /\ Kind(pr, k) = "label" => pr.lines[k].units = 0 /\ pr.lines[k].name \notin DOMAIN Locals
         /\ Kind(pr, k) = "branch" => /\ pr.type = 1 => pr.lines[k].m \notin SecondL \ {"bl"}
                                      /\ pr.lines[k].m # "blx"
                                      /\ pr.lines[k].to \notin Short
                                      /\ pr.lines[k].to \notin DOMAIN HexValue
         /\ LineSize(pr, pr.lines[k]) \in {0, 1, 2}
         /\ Kind(pr, k) = "text" => LineSize(pr, pr.lines[k]) = 1
         /\ Kind(pr, k) = "label" => LineSize(pr, pr.lines[k]) = 0
         /\ Kind(pr, k) = "branch" => LineSize(pr, pr.lines[k]) = Size(pr.type, pr.lines[k].m)
<1> DEFINE l == pr.lines[k]
<1>1. CASE l.kind \notin {"text", "label", "branch"} BY <1>1 DEF Plain, Lines
<1>2. CASE l.kind = "text" BY <1>2 DEF Plain, Lines, Kind, LineSize
<1>3. CASE l.kind = "label" BY <1>3 DEF Plain, Lines, Kind, LineSize
<1>4. CASE l.kind = "branch"
  <2>1. /\ pr.type = 1 => l.m \notin SecondL \ {"bl"}
        /\ l.m # "blx" /\ l.to \notin Short /\ l.to \notin DOMAIN HexValue
    BY <1>4 DEF Plain, Lines
  <2>2. LineSize(pr, l) = Size(pr.type, l.m) BY <1>4 DEF LineSize
  <2> QED BY <1>4, <2>1, <2>2, ProgramTyped DEF Kind
<1> QED BY <1>1, <1>2, <1>3, <1>4

\* One round of the loop.
LEMMA LineStep ==
  ASSUME NEW pr \in AllPrograms, Plain(pr), NEW k \in Lines(pr), NEW a \in Scans(pr)
  PROVE  /\ AnalyzeLine(pr, k, a) \in Scans(pr)
         /\ AnalyzeLine(pr, k, a).sum = a.sum + LineSize(pr, pr.lines[k])
         /\ AnalyzeLine(pr, k, a).out = a.out \o Put(pr, k)
         /\ AnalyzeLine(pr, k, a).labels =
              a.labels \cup (IF Kind(pr, k) = "label" THEN {LabelOf(pr, k, a.sum)} ELSE {})
         /\ AnalyzeLine(pr, k, a).branches =
              IF Kind(pr, k) = "branch" THEN Append(a.branches, BranchOf(pr, k, a.sum)) ELSE a.branches
<1> DEFINE l == pr.lines[k]
           b == AnalyzeLine(pr, k, a)
<1>1. /\ a.sum \in Nat /\ a.out \in Seq(Items(pr)) /\ a.labels \in SUBSET LabelSet(pr)
      /\ a.branches \in Seq(BranchSet(pr))
      /\ a = [sum |-> a.sum, out |-> a.out, labels |-> a.labels, branches |-> a.branches]
  BY DEF Scans
<1>2. Put(pr, k) \in Seq(Items(pr))
  <2>1. /\ [is |-> "label", name |-> l.name] \in Items(pr) /\ NopItem \in Items(pr)
        /\ TextItem(pr, k, 0) \in Items(pr) /\ TextItem(pr, k, 1) \in Items(pr)
    BY DEF Items
  <2>2. \A x, y \in Items(pr) : <<x>> \in Seq(Items(pr)) /\ <<x, y>> \in Seq(Items(pr)) OBVIOUS
  <2> QED BY <2>1, <2>2 DEF Put
<1>3. LabelOf(pr, k, a.sum) \in LabelSet(pr) /\ BranchOf(pr, k, a.sum) \in BranchSet(pr)
  <2>1. a.sum * UnitSize(pr.type) + pr.at \in Nat BY <1>1, ProgramTyped
  <2> QED BY <1>1, <2>1 DEF LabelOf, BranchOf, LabelSet, BranchSet
<1>4. CASE Kind(pr, k) = "text"
  <2>1. l.kind = "text" /\ l.units = 1 /\ LineSize(pr, l) = 1 BY <1>4, PlainLine DEF Kind
  <2>2. b = [a EXCEPT !.out = Append(@, TextItem(pr, k, l.units)), !.sum = @ + 1]
    BY <2>1 DEF AnalyzeLine, TextLine
  <2>3. b = [sum |-> a.sum + 1, out |-> Append(a.out, TextItem(pr, k, 1)), labels |-> a.labels,
             branches |-> a.branches]
    BY <1>1, <2>1, <2>2
  <2>4. Append(a.out, TextItem(pr, k, 1)) = a.out \o Put(pr, k) BY <1>1, <1>4 DEF Put
  <2>5. a.out \o Put(pr, k) \in Seq(Items(pr)) BY <1>1, <1>2
  <2> HIDE DEF b, l
  <2> QED BY <1>1, <1>4, <2>1, <2>3, <2>4, <2>5 DEF Scans, l, b
<1>5. CASE Kind(pr, k) = "label"
  <2>1. l.kind = "label" /\ l.units = 0 /\ LineSize(pr, l) = 0 BY <1>5, PlainLine DEF Kind
  <2>2. b = [a EXCEPT !.out = @ \o <<[is |-> "label", name |-> l.name], TextItem(pr, k, l.units)>>,
                      !.labels = @ \cup {LabelOf(pr, k, a.sum)}]
    BY <2>1 DEF AnalyzeLine, LabelLine, LabelOf
  <2>3. b = [sum |-> a.sum, out |-> a.out \o Put(pr, k), labels |-> a.labels \cup {LabelOf(pr, k, a.sum)},
             branches |-> a.branches]
    BY <1>1, <1>5, <2>1, <2>2 DEF Put
  <2>4. a.out \o Put(pr, k) \in Seq(Items(pr)) BY <1>1, <1>2
  <2> HIDE DEF b, l
  <2> QED BY <1>1, <1>3, <1>5, <2>1, <2>3, <2>4 DEF Scans, l, b
<1>6. CASE Kind(pr, k) = "branch"
  <2> DEFINE nops == IF pr.type = 1 /\ l.m \in SecondL THEN <<NopItem, NopItem>> ELSE <<NopItem>>
  <2>1. /\ l.kind = "branch" /\ l.to \notin Short /\ l.m # "blx"
        /\ pr.type = 1 => l.m \notin SecondL \ {"bl"}
        /\ LineSize(pr, l) = Size(pr.type, l.m)
    BY <1>6, PlainLine DEF Kind
  <2>2. nops = Put(pr, k) /\ Len(nops) = Size(pr.type, l.m)
    BY <1>6, <2>1 DEF Put, Size, SecondL
  <2>3. b = RecordBranch(pr, k, a) BY <2>1 DEF AnalyzeLine
  <2>4. b = [a EXCEPT !.out = @ \o nops,
                      !.branches = Append(@, BranchOf(pr, k, a.sum)),
                      !.sum = @ + Len(nops)]
    BY <2>3 DEF RecordBranch, BranchOf
  <2> HIDE DEF nops
  <2>5. b = [sum |-> a.sum + Size(pr.type, l.m), out |-> a.out \o Put(pr, k), labels |-> a.labels,
             branches |-> Append(a.branches, BranchOf(pr, k, a.sum))]
    BY <1>1, <2>2, <2>4
  <2>6. /\ a.out \o Put(pr, k) \in Seq(Items(pr))
        /\ Append(a.branches, BranchOf(pr, k, a.sum)) \in Seq(BranchSet(pr))
        /\ a.sum + Size(pr.type, l.m) \in Nat
    <3>1. Size(pr.type, l.m) \in {1, 2} BY ProgramTyped
    <3>2. a.sum + Size(pr.type, l.m) \in Nat BY <1>1, <3>1
    <3>3. Append(a.branches, BranchOf(pr, k, a.sum)) \in Seq(BranchSet(pr)) BY <1>1, <1>3
    <3>4. a.out \o Put(pr, k) \in Seq(Items(pr)) BY <1>1, <1>2
    <3> QED BY <3>2, <3>3, <3>4
  <2> HIDE DEF b, l
  <2> QED BY <1>1, <1>6, <2>1, <2>5, <2>6 DEF Scans, l, b
<1> QED BY <1>4, <1>5, <1>6, PlainLine

\* The whole loop.
LEMMA ScanShow ==
  ASSUME NEW pr \in AllPrograms, Plain(pr)
  PROVE  /\ Scan(pr) \in [0..Len(pr.lines) -> Scans(pr)]
         /\ Scan(pr)[0] = [sum |-> 0, out |-> <<>>, labels |-> {}, branches |-> <<>>]
         /\ \A k \in Lines(pr) : Scan(pr)[k] = AnalyzeLine(pr, k, Scan(pr)[k - 1])
<1> DEFINE n == Len(pr.lines)
           S == Scans(pr)
           s0 == [sum |-> 0, out |-> <<>>, labels |-> {}, branches |-> <<>>]
           F(h) == [k \in 0..n |-> IF k = 0 THEN s0 ELSE AnalyzeLine(pr, k, h[k - 1])]
           g == [k \in 1..n |-> [a \in S |-> AnalyzeLine(pr, k, a)]]
<1>1. n \in Nat /\ s0 \in S BY ProgramTyped DEF Scans
<1>2. g \in [1..n -> [S -> S]] BY LineStep DEF Lines
<1>3. \A k \in 1..n : \A a \in S : g[k][a] = AnalyzeLine(pr, k, a) OBVIOUS
<1>4. Scan(pr) = CHOOSE h : h = F(h) BY DEF Scan
<1> HIDE DEF n, S, s0, g
<1> DEFINE f == Recursive(n, s0, g)
<1>5. /\ f \in [0..n -> S] /\ f[0] = s0
      /\ \A k \in 1..n : f[k] = g[k][f[k - 1]]
  BY <1>1, <1>2, Recursion
<1> HIDE DEF f
<1>6. \A k \in 0..n : k # 0 => k \in 1..n /\ k - 1 \in 0..n BY <1>1
<1>7. f = F(f)
  <2>1. ASSUME NEW k \in 0..n PROVE f[k] = IF k = 0 THEN s0 ELSE AnalyzeLine(pr, k, f[k - 1])
    <3>1. f[k] = IF k = 0 THEN s0 ELSE g[k][f[k - 1]] BY <1>5, <1>6
    <3>2. k # 0 => g[k][f[k - 1]] = AnalyzeLine(pr, k, f[k - 1]) BY <1>3, <1>5, <1>6
    <3> QED BY <3>1, <3>2
  <2> QED BY <1>5, <2>1
<1> DEFINE h == Scan(pr)
<1>8. h = F(h)
  <2> HIDE DEF F
  <2> QED BY <1>4, <1>7
<1> HIDE DEF h
<1>9. /\ DOMAIN h = 0..n /\ h[0] = s0
      /\ \A k \in 0..n : k # 0 => h[k] = AnalyzeLine(pr, k, h[k - 1])
  <2>1. 0 \in 0..n BY <1>1
  <2> QED BY <1>8, <2>1
<1>10. \A k \in 0..n : h[k] \in S
  <2> DEFINE P == {k \in 0..n : h[k] \in S}
  <2>1. 0 \in P BY <1>1, <1>9
  <2>2. ASSUME NEW k \in 0..(n - 1), k \in P PROVE k + 1 \in P
    <3>1. k + 1 \in 0..n /\ k + 1 \in 1..n /\ k + 1 # 0 /\ (k + 1) - 1 = k BY <1>1
    <3>2. h[k + 1] = AnalyzeLine(pr, k + 1, h[k]) BY <1>9, <3>1
    <3>3. h[k] \in Scans(pr) /\ k + 1 \in Lines(pr) BY <2>2, <3>1 DEF S, n, Lines
    <3>4. AnalyzeLine(pr, k + 1, h[k]) \in Scans(pr) BY <3>3, LineStep
    <3> QED BY <3>1, <3>2, <3>4 DEF S
  <2>3. \A k \in 0..(n - 1) : k \in P => k + 1 \in P BY <2>2
  <2> HIDE DEF P
  <2>4. \A k \in 0..n : k \in P BY <1>1, <2>1, <2>3, Induct
  <2> QED BY <2>4 DEF P
<1>11. h \in [0..n -> S]
  BY <1>8, <1>9, <1>10
<1>12. \A k \in 1..n : k \in 0..n /\ k # 0 BY <1>1
<1> QED BY <1>9, <1>11, <1>12 DEF h, n, S, s0, Lines

\* The places of the lines.
LEMMA EndsShow ==
  ASSUME NEW pr \in AllPrograms, Plain(pr)
  PROVE  /\ Ends(pr) \in [0..Len(pr.lines) -> Nat] /\ Ends(pr)[0] = 0
         /\ \A k \in Lines(pr) : Ends(pr)[k] = Ends(pr)[k - 1] + LineSize(pr, pr.lines[k])
<1> DEFINE n == Len(pr.lines)
           F(h) == [k \in 0..n |-> IF k = 0 THEN 0 ELSE h[k - 1] + LineSize(pr, pr.lines[k])]
           len == [k \in 1..n |-> LineSize(pr, pr.lines[k])]
<1>1. n \in Nat /\ \A k \in 1..n : LineSize(pr, pr.lines[k]) \in Nat
  BY ProgramTyped, PlainLine DEF Lines
<1>2. len \in [1..n -> Nat] /\ \A k \in 1..n : len[k] = LineSize(pr, pr.lines[k])
  BY <1>1
<1>4. Ends(pr) = CHOOSE h : h = F(h) BY DEF Ends
<1> HIDE DEF n, len
<1> DEFINE f == SumTo(n, len)
<1>5. /\ f \in [0..n -> Nat] /\ f[0] = 0
      /\ \A k \in 1..n : f[k] = f[k - 1] + len[k]
  BY <1>1, <1>2, SumShow
<1> HIDE DEF f
<1>6. \A k \in 0..n : k # 0 => k \in 1..n /\ k - 1 \in 0..n BY <1>1
<1>7. f = F(f)
  <2>1. ASSUME NEW k \in 0..n PROVE f[k] = IF k = 0 THEN 0 ELSE f[k - 1] + LineSize(pr, pr.lines[k])
    BY <1>2, <1>5, <1>6
  <2> QED BY <1>5, <2>1
<1> DEFINE h == Ends(pr)
<1>8. h = F(h)
  <2> HIDE DEF F
  <2> QED BY <1>4, <1>7
<1> HIDE DEF h
<1>9. /\ DOMAIN h = 0..n /\ h[0] = 0
      /\ \A k \in 0..n : k # 0 => h[k] = h[k - 1] + LineSize(pr, pr.lines[k])
  <2>1. 0 \in 0..n BY <1>1
  <2> QED BY <1>8, <2>1
<1>10. \A k \in 0..n : h[k] \in Nat
  <2> DEFINE P == {k \in 0..n : h[k] \in Nat}
  <2>1. 0 \in P BY <1>1, <1>9
  <2>2. ASSUME NEW k \in 0..(n - 1), k \in P PROVE k + 1 \in P
    <3>1. k + 1 \in 0..n /\ k + 1 \in 1..n /\ k + 1 # 0 /\ (k + 1) - 1 = k BY <1>1
    <3>2. h[k + 1] = h[k] + LineSize(pr, pr.lines[k + 1]) BY <1>9, <3>1
    <3> QED BY <1>1, <2>2, <3>1, <3>2
  <2>3. \A k \in 0..(n - 1) : k \in P => k + 1 \in P BY <2>2
  <2> HIDE DEF P
  <2>4. \A k \in 0..n : k \in P BY <1>1, <2>1, <2>3, Induct
  <2> QED BY <2>4 DEF P
<1>11. h \in [0..n -> Nat]
  BY <1>8, <1>9, <1>10
<1>12. \A k \in 1..n : k \in 0..n /\ k # 0 BY <1>1
<1> QED BY <1>9, <1>11, <1>12 DEF h, n, Lines

\* The label lines and the branch lines up to line k, each with the units before it.
LabelsTo(pr, k) ==
  {LabelOf(pr, j, Ends(pr)[j - 1]) : j \in {i \in 1..k : Kind(pr, i) = "label"}}
Branched(pr, j) == BranchOf(pr, j, Ends(pr)[j - 1])

\* What the loop has found after line k: the units up to it, the labels with their
\* addresses, and every branch with its place.
Found(pr, k) ==
  LET a == Scan(pr)[k]
  IN /\ a.sum = Ends(pr)[k]
     /\ a.labels = LabelsTo(pr, k)
     /\ \A i \in 1..Len(a.branches) :
          \E j \in 1..k : Kind(pr, j) = "branch" /\ a.branches[i] = Branched(pr, j)
     /\ \A j \in 1..k : Kind(pr, j) = "branch" =>
          \E i \in 1..Len(a.branches) : a.branches[i] = Branched(pr, j)

LEMMA ScanFinds ==
  ASSUME NEW pr \in AllPrograms, Plain(pr)
  PROVE  \A k \in 0..Len(pr.lines) : Found(pr, k)
<1> DEFINE n == Len(pr.lines)
           P == {k \in 0..n : Found(pr, k)}
<1>1. n \in Nat BY ProgramTyped
<1>2. 0 \in P
  <2>1. /\ Scan(pr)[0].sum = 0 /\ Scan(pr)[0].labels = {} /\ Scan(pr)[0].branches = <<>>
        /\ Ends(pr)[0] = 0 /\ 0 \in 0..n
    BY <1>1, ScanShow, EndsShow
  <2>2. Len(Scan(pr)[0].branches) = 0 BY <2>1
  <2>3. LabelsTo(pr, 0) = {} BY DEF LabelsTo
  <2>4. /\ 1..Len(Scan(pr)[0].branches) = {} /\ 1..0 = {}
    BY <2>2
  <2>5. Found(pr, 0)
    <3> DEFINE a == Scan(pr)[0]
    <3>1. a.sum = Ends(pr)[0] /\ a.labels = LabelsTo(pr, 0) BY <2>1, <2>3
    <3>2. 1..Len(a.branches) = {} BY <2>4
    <3> HIDE DEF a
    <3> QED BY ONLY <2>4, <3>1, <3>2 DEF Found, a
  <2> QED BY <2>1, <2>5
<1>3. ASSUME NEW k \in 0..(n - 1), k \in P PROVE k + 1 \in P
  <2> DEFINE a == Scan(pr)[k]
             b == Scan(pr)[k + 1]
             e == Ends(pr)[k]
  <2>1. k \in 0..n /\ k + 1 \in 0..n /\ k + 1 \in Lines(pr) /\ (k + 1) - 1 = k
        /\ 1..(k + 1) = (1..k) \cup {k + 1}
    BY <1>1 DEF Lines
  <2>2. a \in Scans(pr) /\ b = AnalyzeLine(pr, k + 1, a) /\ Found(pr, k)
    BY <1>3, <2>1, ScanShow
  <2>3. /\ b.sum = a.sum + LineSize(pr, pr.lines[k + 1])
        /\ b.labels = a.labels \cup (IF Kind(pr, k + 1) = "label" THEN {LabelOf(pr, k + 1, a.sum)} ELSE {})
        /\ b.branches = IF Kind(pr, k + 1) = "branch" THEN Append(a.branches, BranchOf(pr, k + 1, a.sum))
                        ELSE a.branches
    BY <2>1, <2>2, LineStep
  <2>4. a.sum = e /\ a.labels = LabelsTo(pr, k) /\ a.branches \in Seq(BranchSet(pr))
    BY <2>2 DEF Found, Scans
  <2>5. b.sum = Ends(pr)[k + 1] BY <2>1, <2>3, <2>4, EndsShow
  <2>6. b.labels = LabelsTo(pr, k + 1)
    <3>1. LabelsTo(pr, k + 1) =
            LabelsTo(pr, k) \cup (IF Kind(pr, k + 1) = "label" THEN {LabelOf(pr, k + 1, e)} ELSE {})
      BY <2>1 DEF LabelsTo
    <3> QED BY <2>3, <2>4, <3>1
  <2>7. ASSUME NEW i \in 1..Len(b.branches)
        PROVE  \E j \in 1..(k + 1) : Kind(pr, j) = "branch" /\ b.branches[i] = Branched(pr, j)
    <3>1. CASE i \in 1..Len(a.branches)
      <4>1. b.branches[i] = a.branches[i] BY <2>3, <2>4, <3>1
      <4> QED BY <2>1, <2>2, <3>1, <4>1 DEF Found
    <3>2. CASE i \notin 1..Len(a.branches)
      <4>1. Kind(pr, k + 1) = "branch" BY <2>3, <3>2
      <4>2. b.branches = Append(a.branches, Branched(pr, k + 1))
        BY <2>1, <2>3, <2>4, <4>1 DEF Branched
      <4>3. Len(b.branches) = Len(a.branches) + 1 /\ i = Len(a.branches) + 1
        BY <2>4, <3>2, <4>2
      <4>4. b.branches[i] = Branched(pr, k + 1) BY <2>4, <4>2, <4>3
      <4> QED BY <2>1, <4>1, <4>4
    <3> QED BY <3>1, <3>2
  <2>8. ASSUME NEW j \in 1..(k + 1), Kind(pr, j) = "branch"
        PROVE  \E i \in 1..Len(b.branches) : b.branches[i] = Branched(pr, j)
    <3>1. CASE j = k + 1
      <4>1. b.branches = Append(a.branches, Branched(pr, k + 1))
        BY <2>1, <2>3, <2>4, <2>8, <3>1 DEF Branched
      <4>2. /\ Len(b.branches) = Len(a.branches) + 1 /\ Len(a.branches) \in Nat
            /\ b.branches[Len(a.branches) + 1] = Branched(pr, k + 1)
        BY <2>4, <4>1
      <4>3. Len(a.branches) + 1 \in 1..Len(b.branches) BY <4>2
      <4> QED BY <3>1, <4>2, <4>3
    <3>2. CASE j # k + 1
      <4>1. j \in 1..k BY <2>1, <3>2
      <4>2. PICK i \in 1..Len(a.branches) : a.branches[i] = Branched(pr, j)
        BY <2>2, <2>8, <4>1 DEF Found
      <4>3. i \in 1..Len(b.branches) /\ b.branches[i] = a.branches[i] BY <2>3, <2>4, <4>2
      <4> QED BY <4>2, <4>3
    <3> QED BY <3>1, <3>2
  <2> HIDE DEF a, b, e
  <2>9. Found(pr, k + 1)
    BY <2>5, <2>6, <2>7, <2>8 DEF Found, b
  <2> QED BY <2>1, <2>9
<1>4. \A k \in 0..n : k \in P
  <2>1. \A k \in 0..(n - 1) : k \in P => k + 1 \in P BY <1>3
  <2> HIDE DEF P
  <2> QED BY <1>1, <1>2, <2>1, Induct
<1> QED BY <1>4

\* The source grows line by line.
LEMMA SourceGrows ==
  ASSUME NEW pr \in AllPrograms, Plain(pr), NEW k \in Lines(pr)
  PROVE  /\ Scan(pr)[k - 1].out \in Seq(Items(pr)) /\ Scan(pr)[k].out \in Seq(Items(pr))
         /\ Put(pr, k) \in Seq(Items(pr)) /\ Len(Put(pr, k)) \in {1, 2}
         /\ Scan(pr)[k].out = Scan(pr)[k - 1].out \o Put(pr, k)
         /\ Len(Scan(pr)[k].out) = Len(Scan(pr)[k - 1].out) + Len(Put(pr, k))
<1>1. k - 1 \in 0..Len(pr.lines) /\ k \in 0..Len(pr.lines) BY ProgramTyped DEF Lines
<1>2. Scan(pr)[k - 1] \in Scans(pr) /\ Scan(pr)[k] \in Scans(pr) BY <1>1, ScanShow
<1>3. Scan(pr)[k].out = Scan(pr)[k - 1].out \o Put(pr, k)
  <2> DEFINE a == Scan(pr)[k - 1]
  <2>1. Scan(pr)[k] = AnalyzeLine(pr, k, a) /\ a \in Scans(pr) BY <1>2, ScanShow
  <2> HIDE DEF a
  <2>2. AnalyzeLine(pr, k, a).out = a.out \o Put(pr, k) BY <2>1, LineStep
  <2> QED BY <2>1, <2>2 DEF a
<1>4. Scan(pr)[k - 1].out \in Seq(Items(pr)) /\ Scan(pr)[k].out \in Seq(Items(pr))
  BY <1>2 DEF Scans
<1>5. Put(pr, k) \in Seq(Items(pr)) /\ Len(Put(pr, k)) \in {1, 2}
  <2>1. /\ [is |-> "label", name |-> pr.lines[k].name] \in Items(pr) /\ NopItem \in Items(pr)
        /\ TextItem(pr, k, 0) \in Items(pr) /\ TextItem(pr, k, 1) \in Items(pr)
    BY DEF Items
  <2>2. \A x, y \in Items(pr) : <<x>> \in Seq(Items(pr)) /\ <<x, y>> \in Seq(Items(pr)) OBVIOUS
  <2>3. \A x, y : Len(<<x>>) = 1 /\ Len(<<x, y>>) = 2 OBVIOUS
  <2> QED BY <2>1, <2>2, <2>3 DEF Put
<1> QED BY <1>3, <1>4, <1>5, ConcatShow

\* What a line has put into the source stays there.
LEMMA SourceKept ==
  ASSUME NEW pr \in AllPrograms, Plain(pr), NEW k \in 0..Len(pr.lines)
  PROVE  /\ Len(Scan(pr)[k].out) \in Nat
         /\ Len(Scan(pr)[k].out) <= Len(Source(pr).items)
         /\ \A i \in 1..Len(Scan(pr)[k].out) : Source(pr).items[i] = Scan(pr)[k].out[i]
<1> DEFINE n == Len(pr.lines)
           O == Source(pr).items
           Kept(j) == /\ Len(Scan(pr)[j].out) \in Nat
                      /\ Len(Scan(pr)[j].out) <= Len(O)
                      /\ \A i \in 1..Len(Scan(pr)[j].out) : O[i] = Scan(pr)[j].out[i]
           P == {j \in 0..n : Kept(n - j)}
<1>1. n \in Nat BY ProgramTyped
<1>2. O = Scan(pr)[n].out BY DEF Source, AnalyzerStr
<1> HIDE DEF O
<1>3. 0 \in P
  <2>1. Scan(pr)[n] \in Scans(pr) BY <1>1, ScanShow
  <2>2. Len(Scan(pr)[n].out) \in Nat BY <2>1 DEF Scans
  <2>3. n - 0 = n /\ 0 \in 0..n BY <1>1
  <2> QED BY <1>2, <2>2, <2>3
<1>4. ASSUME NEW j \in 0..(n - 1), j \in P PROVE j + 1 \in P
  <2> DEFINE m == n - j
             s == Scan(pr)[m - 1].out
             t == Scan(pr)[m].out
  <2>1. m \in Lines(pr) /\ n - (j + 1) = m - 1 /\ j + 1 \in 0..n BY <1>1 DEF Lines
  <2>2. Kept(m) BY <1>4
  <2>3. /\ s \in Seq(Items(pr)) /\ t = s \o Put(pr, m) /\ Put(pr, m) \in Seq(Items(pr))
    BY <2>1, SourceGrows
  <2>4. /\ Len(s) \in Nat /\ Len(s) <= Len(t)
        /\ \A i \in 1..Len(s) : i \in 1..Len(t) /\ t[i] = s[i]
    <3> HIDE DEF s, t, m
    <3> QED BY <2>3, ConcatShow
  <2>5. Len(t) \in Nat /\ Len(t) <= Len(O) /\ \A i \in 1..Len(t) : O[i] = t[i] BY <2>2
  <2>6. Len(O) \in Nat
    <3>1. Scan(pr)[n] \in Scans(pr) BY <1>1, ScanShow
    <3> QED BY <1>2, <3>1 DEF Scans
  <2> HIDE DEF s, t
  <2>7. Len(s) <= Len(O) BY <2>4, <2>5, <2>6
  <2>8. \A i \in 1..Len(s) : O[i] = s[i] BY <2>4, <2>5
  <2>9. Kept(m - 1) BY <2>4, <2>7, <2>8 DEF s
  <2> QED BY <2>1, <2>9
<1>5. \A j \in 0..n : j \in P
  <2>1. \A j \in 0..(n - 1) : j \in P => j + 1 \in P BY <1>4
  <2> HIDE DEF P
  <2> QED BY <1>1, <1>3, <2>1, Induct
<1>6. n - k \in 0..n /\ n - (n - k) = k BY <1>1
<1>7. Kept(k) BY <1>5, <1>6
<1> QED BY <1>7 DEF O

\* The items of line k in the whole source.
LEMMA LineItems ==
  ASSUME NEW pr \in AllPrograms, Plain(pr), NEW k \in Lines(pr),
         NEW m, m = Len(Scan(pr)[k - 1].out)
  PROVE  /\ m \in Nat /\ Len(Scan(pr)[k].out) = m + Len(Put(pr, k))
         /\ m + Len(Put(pr, k)) <= Len(Source(pr).items) /\ Len(Source(pr).items) \in Nat
         /\ \A i \in 1..Len(Put(pr, k)) : Source(pr).items[m + i] = Put(pr, k)[i]
<1> DEFINE s == Scan(pr)[k - 1].out
           t == Scan(pr)[k].out
           u == Put(pr, k)
           O == Source(pr).items
<1>1. k \in 0..Len(pr.lines) /\ Len(pr.lines) \in 0..Len(pr.lines) BY ProgramTyped DEF Lines
<1>2. /\ s \in Seq(Items(pr)) /\ u \in Seq(Items(pr)) /\ t = s \o u /\ m = Len(s)
  BY SourceGrows
<1>3. Len(t) \in Nat /\ Len(t) <= Len(O) /\ \A i \in 1..Len(t) : O[i] = t[i] BY <1>1, SourceKept
<1>4. Len(O) \in Nat
  <2>1. O = Scan(pr)[Len(pr.lines)].out BY DEF Source, AnalyzerStr
  <2> HIDE DEF O
  <2> QED BY <1>1, <2>1, SourceKept
<1> HIDE DEF s, t, u, O
<1>5. /\ Len(s) \in Nat /\ Len(u) \in Nat /\ Len(t) = Len(s) + Len(u)
      /\ \A i \in 1..Len(u) : t[Len(s) + i] = u[i]
  BY <1>2, ConcatShow
<1>6. \A i \in 1..Len(u) : m + i \in 1..Len(t) BY <1>2, <1>5
<1>7. \A i \in 1..Len(u) : O[m + i] = u[i] BY <1>2, <1>3, <1>5, <1>6
<1> QED BY <1>2, <1>3, <1>4, <1>5, <1>7 DEF t, u, O

-----------------------------------------------------------------------------
(* What as makes of a plain program: each line at its place. *)

\* The units that as makes of text and of nop.
Units(pr) == {<<"nop">>} \cup {<<"text", <<pr.id, k>>, 1>> : k \in Lines(pr)}

LEMMA ItemCode ==
  ASSUME NEW pr \in AllPrograms, NEW i, Source(pr).items[i] \in Items(pr)
  PROVE  LET x == Source(pr).items[i]
             bytes == AsItem(Source(pr), i)
         IN /\ bytes \in Seq(Units(pr)) /\ Len(bytes) \in Nat
            /\ x.is = "nop" => Len(bytes) = 1
            /\ \A k \in Lines(pr) : x = TextItem(pr, k, 1) =>
                 Len(bytes) = 1 /\ bytes[1] = <<"text", <<pr.id, k>>, 1>>
            /\ \A k \in Lines(pr) : x = TextItem(pr, k, 0) => Len(bytes) = 0
            /\ x.is = "label" => Len(bytes) = 0
<1> DEFINE x == Source(pr).items[i]
           bytes == AsItem(Source(pr), i)
<1>1. CASE x = NopItem
  <2>1. x.is = "nop" BY <1>1 DEF NopItem
  <2>2. bytes = << <<"nop">> >> BY <2>1 DEF AsItem
  <2>3. <<"nop">> \in Units(pr) BY DEF Units
  <2>4. bytes \in Seq(Units(pr)) /\ Len(bytes) = 1 BY <2>2, <2>3
  <2> HIDE DEF x, bytes
  <2>5. \A k, u : x # TextItem(pr, k, u) BY <2>1 DEF TextItem
  <2> QED BY <2>1, <2>4, <2>5 DEF x, bytes
<1>2. ASSUME NEW k \in Lines(pr), x = TextItem(pr, k, 1)
      PROVE  bytes \in Seq(Units(pr)) /\ Len(bytes) = 1 /\ bytes[1] = <<"text", <<pr.id, k>>, 1>>
  <2>1. x.is = "text" /\ x.units = 1 /\ x.line = <<pr.id, k>> BY <1>2 DEF TextItem
  <2>2. bytes = [j \in 1..1 |-> <<"text", <<pr.id, k>>, j>>] BY <2>1 DEF AsItem
  <2>3. <<"text", <<pr.id, k>>, 1>> \in Units(pr) BY DEF Units
  <2>4. \A j \in 1..1 : j = 1 OBVIOUS
  <2>5. bytes[1] = <<"text", <<pr.id, k>>, 1>> BY <2>2
  <2>6. bytes \in [1..1 -> Units(pr)] BY <2>2, <2>3, <2>4
  <2> HIDE DEF bytes
  <2>7. \A S : \A n \in Nat : \A f \in [1..n -> S] : f \in Seq(S) /\ Len(f) = n OBVIOUS
  <2> QED BY <2>5, <2>6, <2>7
<1>3. ASSUME NEW k \in Lines(pr), x = TextItem(pr, k, 0)
      PROVE  bytes \in Seq(Units(pr)) /\ Len(bytes) = 0
  <2>1. x.is = "text" /\ x.units = 0 /\ x.line = <<pr.id, k>> BY <1>3 DEF TextItem
  <2>2. bytes = [j \in 1..0 |-> <<"text", <<pr.id, k>>, j>>] BY <2>1 DEF AsItem
  <2> QED BY <2>2
<1>4. ASSUME x.is = "label" PROVE bytes \in Seq(Units(pr)) /\ Len(bytes) = 0
  <2>1. bytes = <<>> BY <1>4 DEF AsItem
  <2> QED BY <2>1
<1>5. \/ x = NopItem \/ x.is = "label"
      \/ \E k \in Lines(pr) : x = TextItem(pr, k, 1) \/ x = TextItem(pr, k, 0)
  BY DEF Items
<1> HIDE DEF x, bytes
<1>6. CASE x.is = "label"
  <2>1. \A k, u : x # TextItem(pr, k, u) BY <1>6 DEF TextItem
  <2> QED BY <1>4, <1>6, <2>1 DEF x, bytes
<1>7. ASSUME NEW k \in Lines(pr), x = TextItem(pr, k, 1) \/ x = TextItem(pr, k, 0)
      PROVE  x.is = "text" /\ bytes \in Seq(Units(pr)) /\ Len(bytes) \in Nat
  BY <1>2, <1>3, <1>7 DEF TextItem
<1>8. CASE \E k \in Lines(pr) : x = TextItem(pr, k, 1) \/ x = TextItem(pr, k, 0)
  <2>1. x.is = "text" /\ bytes \in Seq(Units(pr)) /\ Len(bytes) \in Nat BY <1>7, <1>8
  <2> QED BY <1>2, <1>3, <2>1 DEF x, bytes
<1> QED BY <1>1, <1>5, <1>6, <1>8 DEF x, bytes

\* The source is a sequence of items.
LEMMA SourceTyped ==
  ASSUME NEW pr \in AllPrograms, Plain(pr)
  PROVE  /\ Source(pr).items \in Seq(Items(pr)) /\ Len(Source(pr).items) \in Nat
         /\ Source(pr).items = Scan(pr)[Len(pr.lines)].out
         /\ \A i \in 1..Len(Source(pr).items) : Source(pr).items[i] \in Items(pr)
<1> DEFINE s == Source(pr).items
<1>1. s = Scan(pr)[Len(pr.lines)].out BY DEF Source, AnalyzerStr
<1>2. Len(pr.lines) \in 0..Len(pr.lines) BY ProgramTyped
<1>3. Scan(pr)[Len(pr.lines)] \in Scans(pr) BY <1>2, ScanShow
<1> HIDE DEF s
<1>4. s \in Seq(Items(pr)) BY <1>1, <1>3 DEF Scans
<1> QED BY <1>1, <1>4 DEF s

\* The units of a line are as many as its items make.
LEMMA LineCodeLen ==
  ASSUME NEW pr \in AllPrograms, Plain(pr), NEW k \in Lines(pr),
         NEW L \in [0..Len(Source(pr).items) -> Nat],
         \A i \in 1..Len(Source(pr).items) : L[i] = L[i - 1] + Len(AsItem(Source(pr), i)),
         NEW m, m = Len(Scan(pr)[k - 1].out)
  PROVE  /\ L[Len(Scan(pr)[k].out)] = L[m] + LineSize(pr, pr.lines[k]) /\ L[m] \in Nat
         /\ m + 1 \in 1..Len(Source(pr).items)
         /\ Kind(pr, k) = "text" => /\ Len(AsItem(Source(pr), m + 1)) = 1
                                    /\ AsItem(Source(pr), m + 1)[1] = <<"text", <<pr.id, k>>, 1>>
<1> DEFINE O == Source(pr).items
           N == Len(O)
           len(i) == Len(AsItem(Source(pr), i))
           c == Len(Put(pr, k))
<1>1. /\ m \in Nat /\ Len(Scan(pr)[k].out) = m + c /\ m + c <= N /\ N \in Nat
      /\ \A i \in 1..c : O[m + i] = Put(pr, k)[i]
  BY LineItems
<1>2. c \in {1, 2} /\ m + 1 \in 1..N /\ (c = 2 => m + 2 \in 1..N)
  <2>1. c \in {1, 2} BY SourceGrows
  <2> HIDE DEF c, N
  <2> QED BY <1>1, <2>1
<1>3. L[m] \in Nat /\ L[m + 1] = L[m] + len(m + 1) /\ L[m + 1] \in Nat
  <2>1. m \in 0..N /\ m + 1 \in 0..N /\ (m + 1) - 1 = m BY <1>1, <1>2
  <2> QED BY <1>2, <2>1
<1>4. c = 2 => L[m + 2] = L[m + 1] + len(m + 2)
  <2>1. (m + 2) - 1 = m + 1 BY <1>1
  <2> QED BY <1>2, <2>1
<1>5. \A i \in 1..N : O[i] \in Items(pr) BY SourceTyped
<1>6. CASE Kind(pr, k) = "text"
  <2>1. c = 1 /\ Put(pr, k)[1] = TextItem(pr, k, 1) BY <1>6 DEF Put
  <2>2. O[m + 1] = TextItem(pr, k, 1) BY <1>1, <2>1
  <2>3. len(m + 1) = 1 /\ AsItem(Source(pr), m + 1)[1] = <<"text", <<pr.id, k>>, 1>>
    BY <1>2, <1>5, <2>2, ItemCode
  <2>4. LineSize(pr, pr.lines[k]) = 1 BY <1>6, PlainLine
  <2> HIDE DEF O, N, c, len
  <2> QED BY <1>1, <1>2, <1>3, <2>1, <2>3, <2>4 DEF len, N, O
<1>7. CASE Kind(pr, k) = "label"
  <2>1. /\ c = 2 /\ Put(pr, k)[1] = [is |-> "label", name |-> pr.lines[k].name]
        /\ Put(pr, k)[2] = TextItem(pr, k, 0)
    BY <1>7 DEF Put
  <2>2. O[m + 1].is = "label" /\ O[m + 2] = TextItem(pr, k, 0) BY <1>1, <2>1
  <2>3. len(m + 1) = 0 BY <1>2, <1>5, <2>2, ItemCode
  <2>4. len(m + 2) = 0 BY <1>2, <1>5, <2>1, <2>2, ItemCode
  <2>5. LineSize(pr, pr.lines[k]) = 0 BY <1>7, PlainLine
  <2> HIDE DEF O, N, c, len
  <2> QED BY <1>1, <1>2, <1>3, <1>4, <1>7, <2>1, <2>3, <2>4, <2>5 DEF N, O
<1>8. CASE Kind(pr, k) = "branch"
  <2> DEFINE w == Size(pr.type, pr.lines[k].m)
  <2>1. w \in {1, 2} /\ LineSize(pr, pr.lines[k]) = w BY <1>8, PlainLine, ProgramTyped
  <2>2. c = w /\ \A i \in 1..c : Put(pr, k)[i] = NopItem BY <1>8, <2>1 DEF Put
  <2>3. \A i \in 1..c : O[m + i].is = "nop" BY <1>1, <2>2 DEF NopItem
  <2>4. len(m + 1) = 1
    <3>1. 1 \in 1..c
      <4> HIDE DEF c
      <4> QED BY <1>2
    <3>2. O[m + 1].is = "nop" BY <2>3, <3>1
    <3> QED BY <1>2, <1>5, <3>2, ItemCode
  <2>5. c = 2 => len(m + 2) = 1
    <3>1. c = 2 => O[m + 2].is = "nop" BY <2>3
    <3> QED BY <1>2, <1>5, <3>1, ItemCode
  <2> HIDE DEF O, N, c, len, w
  <2>6. CASE c = 1 BY <1>1, <1>2, <1>3, <1>8, <2>1, <2>2, <2>4, <2>6 DEF N, O
  <2>7. CASE c = 2 BY <1>1, <1>2, <1>3, <1>4, <1>8, <2>1, <2>2, <2>4, <2>5, <2>7 DEF N, O
  <2> QED BY <1>2, <2>6, <2>7
<1> QED BY <1>6, <1>7, <1>8, PlainLine

\* The object file of a plain program.
LEMMA AsCode ==
  ASSUME NEW pr \in AllPrograms, Plain(pr), as(Source(pr)) # Error
  PROVE  /\ as(Source(pr)) \in Seq(Units(pr))
         /\ Len(as(Source(pr))) = Ends(pr)[Len(pr.lines)]
         /\ \A k \in Lines(pr) : Kind(pr, k) = "text" =>
              as(Source(pr))[Ends(pr)[k - 1] + 1] = <<"text", <<pr.id, k>>, 1>>
<1> DEFINE O == Source(pr).items
           N == Len(O)
           T == Units(pr)
           bytes(i) == AsItem(Source(pr), i)
           ss == [i \in 1..N |-> bytes(i)]
           n == Len(pr.lines)
           out(k) == Len(Scan(pr)[k].out)
<1>1. N \in Nat /\ \A i \in 1..N : bytes(i) \in Seq(T) /\ Len(bytes(i)) \in Nat
  BY SourceTyped, ItemCode
<1>2. as(Source(pr)) = FlattenSeq(ss) BY DEF as
<1>3. n \in Nat BY ProgramTyped
<1>10. \A k \in Lines(pr) : k \in 0..n /\ k - 1 \in 0..n BY <1>3 DEF Lines
<1>4. out(0) = 0 /\ out(n) = N
  <2>1. Scan(pr)[0].out = <<>> BY ScanShow
  <2> QED BY <2>1, SourceTyped
<1> DEFINE len == [i \in 1..N |-> Len(bytes(i))]
           L == SumTo(N, len)
<1>5. /\ L \in [0..N -> Nat] /\ L[0] = 0
      /\ \A i \in 1..N : L[i] = L[i - 1] + Len(bytes(i))
  <2>1. len \in [1..N -> Nat] /\ \A i \in 1..N : len[i] = Len(bytes(i)) BY <1>1
  <2> HIDE DEF N, len, bytes
  <2>2. /\ L \in [0..N -> Nat] /\ L[0] = 0
        /\ \A i \in 1..N : L[i] = L[i - 1] + len[i]
    BY <1>1, <2>1, SumShow
  <2> HIDE DEF L
  <2> QED BY <2>1, <2>2
<1> HIDE DEF L, len
<1>6. /\ FlattenSeq(ss) \in Seq(T) /\ Len(FlattenSeq(ss)) = L[N]
      /\ \A i \in 1..N : \A u \in 1..Len(bytes(i)) : FlattenSeq(ss)[L[i - 1] + u] = bytes(i)[u]
  <2> HIDE DEF N, bytes, T
  <2>1. ss \in Seq(Seq(T)) /\ Len(ss) = N /\ \A i \in 1..N : ss[i] = bytes(i) BY <1>1
  <2> HIDE DEF ss
  <2>2. L \in [0..Len(ss) -> Nat] /\ L[0] = 0 BY <1>5, <2>1
  <2>4. \A i \in 1..Len(ss) : L[i] = L[i - 1] + Len(ss[i]) BY <1>5, <2>1
  <2>5. ss \in Seq(Seq(T)) BY <2>1
  <2>3. /\ FlattenSeq(ss) \in Seq(T) /\ Len(FlattenSeq(ss)) = L[Len(ss)]
        /\ \A i \in 1..Len(ss) : \A u \in 1..Len(ss[i]) :
             L[i - 1] + u \in 1..L[Len(ss)] /\ FlattenSeq(ss)[L[i - 1] + u] = ss[i][u]
    BY ONLY <2>2, <2>4, <2>5, FlattenPlaces, ZenonT(40)
  <2> QED BY <2>1, <2>3
<1>7. ASSUME NEW k \in Lines(pr)
      PROVE  /\ L[out(k)] = L[out(k - 1)] + LineSize(pr, pr.lines[k])
             /\ out(k - 1) \in Nat /\ out(k - 1) + 1 \in 1..N
             /\ Kind(pr, k) = "text" =>
                  /\ Len(bytes(out(k - 1) + 1)) = 1
                  /\ bytes(out(k - 1) + 1)[1] = <<"text", <<pr.id, k>>, 1>>
  <2> DEFINE m == out(k - 1)
  <2>1. m = Len(Scan(pr)[k - 1].out) OBVIOUS
  <2> HIDE DEF m
  <2>2. m \in Nat BY <2>1, LineItems
  <2> QED BY <1>5, <2>1, <2>2, LineCodeLen
<1> HIDE DEF O, N, bytes, ss, n, out, T
<1>8. \A k \in 0..n : L[out(k)] = Ends(pr)[k]
  <2> DEFINE P == {k \in 0..n : L[out(k)] = Ends(pr)[k]}
  <2>1. 0 \in P BY <1>3, <1>4, <1>5, EndsShow
  <2>2. ASSUME NEW k \in 0..(n - 1), k \in P PROVE k + 1 \in P
    <3>1. k + 1 \in Lines(pr) /\ k + 1 \in 0..n /\ (k + 1) - 1 = k BY <1>3 DEF Lines, n
    <3>2. /\ L[out(k + 1)] = L[out(k)] + LineSize(pr, pr.lines[k + 1])
          /\ Ends(pr)[k + 1] = Ends(pr)[k] + LineSize(pr, pr.lines[k + 1])
      BY <1>7, <3>1, EndsShow
    <3> QED BY <2>2, <3>1, <3>2
  <2>3. \A k \in 0..(n - 1) : k \in P => k + 1 \in P BY <2>2
  <2> HIDE DEF P
  <2>4. \A k \in 0..n : k \in P BY <1>3, <2>1, <2>3, Induct
  <2> QED BY <2>4 DEF P
<1>9. ASSUME NEW k \in Lines(pr), Kind(pr, k) = "text"
      PROVE  as(Source(pr))[Ends(pr)[k - 1] + 1] = <<"text", <<pr.id, k>>, 1>>
  <2>1. /\ out(k - 1) \in Nat /\ out(k - 1) + 1 \in 1..N /\ (out(k - 1) + 1) - 1 = out(k - 1)
        /\ Len(bytes(out(k - 1) + 1)) = 1
        /\ bytes(out(k - 1) + 1)[1] = <<"text", <<pr.id, k>>, 1>>
    BY <1>7, <1>9
  <2>2. FlattenSeq(ss)[L[out(k - 1)] + 1] = <<"text", <<pr.id, k>>, 1>>
    <3>1. 1 \in 1..Len(bytes(out(k - 1) + 1)) BY <2>1
    <3> DEFINE j == out(k - 1) + 1
    <3>2. j \in 1..N /\ j - 1 = out(k - 1) /\ 1 \in 1..Len(bytes(j)) BY <2>1, <3>1
    <3>3. FlattenSeq(ss)[L[j - 1] + 1] = bytes(j)[1]
      <4> HIDE DEF j
      <4> QED BY <1>6, <3>2
    <3> QED BY <2>1, <3>2, <3>3
  <2>3. L[out(k - 1)] = Ends(pr)[k - 1] BY <1>8, <1>10
  <2> QED BY <1>2, <2>2, <2>3
<1> QED
  <2>1. n \in 0..n BY <1>3
  <2>2. Len(FlattenSeq(ss)) = Ends(pr)[n] BY <1>4, <1>6, <1>8, <2>1
  <2> QED BY <1>2, <1>6, <1>9, <2>2 DEF T, n

-----------------------------------------------------------------------------
(* What the program means: each line at its place. *)

LEMMA LineCodeShow ==
  ASSUME NEW pr \in AllPrograms, Plain(pr), NEW k \in Lines(pr)
  PROVE  /\ LineSize(pr, pr.lines[k]) \in {0, 1, 2}
         /\ \E T : \E f \in [1..LineSize(pr, pr.lines[k]) -> T] : LineCode(pr, k) = f
         /\ Kind(pr, k) = "text" => LineCode(pr, k)[1] = <<"text", <<pr.id, k>>, 1>>
         /\ Kind(pr, k) = "branch" =>
              LineCode(pr, k) =
                Encoded(pr.type, pr.lines[k].m,
                        (Target(pr, pr.lines[k].to) - (pr.at + Ends(pr)[k - 1] * UnitSize(pr.type)))
                          \div UnitSize(pr.type) - 2)
<1>1. LineSize(pr, pr.lines[k]) \in {0, 1, 2} BY PlainLine
<1>2. CASE Kind(pr, k) = "text" \/ Kind(pr, k) = "label"
  <2>1. LineSize(pr, pr.lines[k]) = pr.lines[k].units BY <1>2 DEF LineSize, Kind
  <2> DEFINE n == pr.lines[k].units
             f == [j \in 1..n |-> <<"text", <<pr.id, k>>, j>>]
             T == {<<"text", <<pr.id, k>>, j>> : j \in 1..n}
  <2>2. LineCode(pr, k) = f BY <1>2 DEF LineCode, Kind
  <2>3. f \in [1..n -> T] OBVIOUS
  <2>4. Kind(pr, k) = "text" => n = 1 BY PlainLine
  <2>5. n = 1 => f[1] = <<"text", <<pr.id, k>>, 1>> OBVIOUS
  <2> HIDE DEF f, T, n
  <2> QED BY <1>1, <1>2, <2>1, <2>2, <2>3, <2>4, <2>5 DEF n
<1>3. CASE Kind(pr, k) = "branch"
  <2> DEFINE d == (Target(pr, pr.lines[k].to) - (pr.at + Ends(pr)[k - 1] * UnitSize(pr.type)))
                    \div UnitSize(pr.type) - 2
             m == pr.lines[k].m
             w == Size(pr.type, m)
             f == [i \in 1..w |-> <<"branch", m, i, d>>]
             T == {<<"branch", m, i, d>> : i \in 1..w}
  <2>1. LineCode(pr, k) = Encoded(pr.type, m, d) BY <1>3 DEF LineCode, Kind, Place
  <2>2. LineCode(pr, k) = f
    <3> HIDE DEF d
    <3> QED BY <2>1 DEF Encoded
  <2>3. LineSize(pr, pr.lines[k]) = w BY <1>3, PlainLine
  <2>4. f \in [1..w -> T] OBVIOUS
  <2> HIDE DEF f, T, w, d
  <2> QED BY <1>1, <1>3, <2>1, <2>2, <2>3, <2>4 DEF d
<1> QED BY <1>2, <1>3, PlainLine

LEMMA ReferenceCode ==
  ASSUME NEW pr \in AllPrograms, Plain(pr)
  PROVE  /\ \E T : Reference(pr) \in Seq(T)
         /\ Len(Reference(pr)) = Ends(pr)[Len(pr.lines)]
         /\ \A k \in Lines(pr) : \A u \in 1..LineSize(pr, pr.lines[k]) :
              Reference(pr)[Ends(pr)[k - 1] + u] = LineCode(pr, k)[u]
<1> DEFINE n == Len(pr.lines)
           bytes(k) == LineCode(pr, k)
           size(k) == LineSize(pr, pr.lines[k])
           T == {bytes(k)[u] : k \in 1..n, u \in {1, 2}}
           ss == [k \in 1..n |-> bytes(k)]
           L == Ends(pr)
<1>1. n \in Nat BY ProgramTyped
<1>2. \A k \in 1..n : /\ bytes(k) \in Seq(T) /\ Len(bytes(k)) = size(k)
                      /\ L[k] = L[k - 1] + size(k)
  <2> SUFFICES ASSUME NEW k \in 1..n
               PROVE  bytes(k) \in Seq(T) /\ Len(bytes(k)) = size(k) /\ L[k] = L[k - 1] + size(k)
    OBVIOUS
  <2>1. k \in Lines(pr) BY DEF Lines
  <2>2. size(k) \in {0, 1, 2} /\ \E S : \E f \in [1..size(k) -> S] : bytes(k) = f
    BY <2>1, LineCodeShow
  <2>3. L[k] = L[k - 1] + size(k) BY <2>1, EndsShow
  <2> HIDE DEF size, bytes, L, n
  <2> DEFINE c == bytes(k)
             w == size(k)
  <2>4. c = [u \in 1..w |-> c[u]] BY <2>2
  <2>5. \A u \in 1..w : c[u] \in T
    <3>1. \A u \in 1..w : u \in {1, 2} BY <2>2
    <3> QED BY <3>1
  <2>6. c \in [1..w -> T] /\ w \in Nat
    <3> HIDE DEF c, w, T
    <3>1. w \in Nat BY <2>2 DEF w
    <3> QED BY <2>4, <2>5, <3>1
  <2>7. c \in Seq(T) /\ Len(c) = w
    <3> HIDE DEF c, w, T
    <3> QED BY <2>6
  <2> QED BY <2>3, <2>7
<1>3. L \in [0..n -> Nat] /\ L[0] = 0 BY EndsShow
<1>4. Reference(pr) = FlattenSeq(ss) BY DEF Reference
<1>7. n \in 0..n /\ \A k \in 1..n : k \in Lines(pr) BY <1>1 DEF Lines
<1> HIDE DEF size, bytes, n, T, L
<1>5. ss \in Seq(Seq(T)) /\ Len(ss) = n /\ \A k \in 1..n : ss[k] = bytes(k) BY <1>1, <1>2
<1> HIDE DEF ss
<1>6. /\ FlattenSeq(ss) \in Seq(T) /\ Len(FlattenSeq(ss)) = L[Len(ss)]
      /\ \A i \in 1..Len(ss) : \A u \in 1..Len(ss[i]) :
           L[i - 1] + u \in 1..L[Len(ss)] /\ FlattenSeq(ss)[L[i - 1] + u] = ss[i][u]
  <2>1. L \in [0..Len(ss) -> Nat] /\ L[0] = 0 BY <1>3, <1>5
  <2>2. \A i \in 1..Len(ss) : L[i] = L[i - 1] + Len(ss[i]) BY <1>2, <1>5
  <2>3. ss \in Seq(Seq(T)) BY <1>5
  <2> QED BY ONLY <2>1, <2>2, <2>3, FlattenPlaces, ZenonT(40)
<1>8. \A k \in 1..n : \A u \in 1..size(k) : Reference(pr)[L[k - 1] + u] = bytes(k)[u]
  BY <1>2, <1>4, <1>5, <1>6
<1>9. Reference(pr) \in Seq(T) /\ Len(Reference(pr)) = L[n] BY <1>4, <1>5, <1>6
<1> QED BY <1>8, <1>9 DEF n, L, size, bytes, Lines

-----------------------------------------------------------------------------
(* Where a branch goes. *)

\* as has an error of a label that two lines define.
LEMMA LabelOnce ==
  ASSUME NEW pr \in AllPrograms, Plain(pr), as(Source(pr)) # Error,
         NEW j \in Lines(pr), NEW k \in Lines(pr),
         Kind(pr, j) = "label", Kind(pr, k) = "label", pr.lines[j].name = pr.lines[k].name
  PROVE  j = k
<1> DEFINE n == Len(pr.lines)
           out == [i \in 0..n |-> Len(Scan(pr)[i].out)]
           O == Source(pr).items
<1>1. n \in Nat BY ProgramTyped
<1>2. out \in [0..n -> Nat] BY SourceKept
<1>3. ASSUME NEW i \in Lines(pr)
      PROVE  out[i - 1] + 1 <= out[i]
  <2>1. i - 1 \in 0..n /\ i \in 0..n BY <1>1 DEF Lines
  <2>2. Len(Scan(pr)[i].out) = Len(Scan(pr)[i - 1].out) + Len(Put(pr, i)) /\ Len(Put(pr, i)) \in {1, 2}
    BY SourceGrows
  <2>3. out[i - 1] = Len(Scan(pr)[i - 1].out) /\ out[i] = Len(Scan(pr)[i].out) BY <2>1
  <2>4. out[i - 1] \in Nat /\ out[i] \in Nat BY <1>2, <2>1
  <2>5. \A a, b \in Nat : \A c \in {1, 2} : b = a + c => a + 1 <= b OBVIOUS
  <2> HIDE DEF out
  <2>6. out[i] = out[i - 1] + Len(Put(pr, i)) BY <2>2, <2>3
  <2> QED BY ONLY <2>2, <2>4, <2>5, <2>6
<1>4. ASSUME NEW i \in Lines(pr), Kind(pr, i) = "label"
      PROVE  /\ out[i - 1] + 1 \in 1..Len(O)
             /\ O[out[i - 1] + 1] = [is |-> "label", name |-> pr.lines[i].name]
  <2> DEFINE m == Len(Scan(pr)[i - 1].out)
  <2>1. i - 1 \in 0..n BY <1>1 DEF Lines
  <2>2. out[i - 1] = m BY <2>1
  <2>3. Len(Put(pr, i)) = 2 /\ Put(pr, i)[1] = [is |-> "label", name |-> pr.lines[i].name]
    BY <1>4 DEF Put
  <2>4. /\ m \in Nat /\ m + Len(Put(pr, i)) <= Len(O) /\ Len(O) \in Nat
        /\ \A v \in 1..Len(Put(pr, i)) : O[m + v] = Put(pr, i)[v]
    BY LineItems
  <2> HIDE DEF O, m, out
  <2> QED BY <2>2, <2>3, <2>4
<1>5. \A i \in 1..n : out[i - 1] <= out[i]
  <2>1. ASSUME NEW i \in 1..n PROVE out[i - 1] <= out[i]
    <3>1. i \in Lines(pr) /\ i - 1 \in 0..n /\ i \in 0..n BY <1>1 DEF Lines
    <3>2. out[i - 1] + 1 <= out[i] /\ out[i - 1] \in Nat /\ out[i] \in Nat BY <1>2, <1>3, <3>1
    <3> HIDE DEF out
    <3> QED BY <3>2
  <2> QED BY <2>1
<1> HIDE DEF out
<1>6. \A i, l \in 0..n : i <= l => out[i] <= out[l] BY <1>1, <1>2, <1>5, Rising
<1>7. ASSUME NEW i \in Lines(pr), NEW l \in Lines(pr), i < l PROVE out[i - 1] + 1 # out[l - 1] + 1
  <2>1. i \in 0..n /\ i - 1 \in 0..n /\ l - 1 \in 0..n /\ i <= l - 1 BY <1>1, <1>7 DEF Lines
  <2>2. out[i - 1] + 1 <= out[i] /\ out[i] <= out[l - 1] BY <1>3, <1>6, <2>1
  <2>3. out[i - 1] \in Nat /\ out[i] \in Nat /\ out[l - 1] \in Nat BY <1>2, <2>1
  <2> QED BY <2>2, <2>3
<1>8. Errors(Source(pr)) = {} BY DEF as
<1> DEFINE x == out[j - 1] + 1
           y == out[k - 1] + 1
<1>9. /\ x \in 1..Len(O) /\ y \in 1..Len(O) /\ O[x].is = "label" /\ O[y].is = "label"
      /\ O[x].name = O[y].name
  <2> HIDE DEF O
  <2>1. /\ x \in 1..Len(O) /\ O[x] = [is |-> "label", name |-> pr.lines[j].name]
        /\ y \in 1..Len(O) /\ O[y] = [is |-> "label", name |-> pr.lines[k].name]
    BY <1>4
  <2> HIDE DEF x, y
  <2> QED BY <2>1
<1> HIDE DEF x, y
<1>10. ASSUME NEW v \in 1..Len(O), NEW w \in 1..Len(O), v < w,
              O[v].is = "label", O[w].is = "label", O[v].name = O[w].name
       PROVE  FALSE
  <2>1. v \in 1..(w - 1) BY <1>10
  <2>2. w \in Errors(Source(pr)) BY <1>10, <2>1 DEF Errors
  <2> QED BY <1>8, <2>2
<1>12. x = y
  <2>1. x \in Int /\ y \in Int BY <1>9
  <2>2. ~(x < y) /\ ~(y < x) BY <1>9, <1>10
  <2> HIDE DEF O
  <2> QED BY <2>1, <2>2
<1>11. ~(j < k) /\ ~(k < j) BY <1>7, <1>12 DEF x, y
<1> QED BY <1>11 DEF Lines

\* The address that a name has for the plugin is the one it means.
LEMMA TargetFound ==
  ASSUME NEW pr \in AllPrograms, Plain(pr), as(Source(pr)) # Error,
         NEW name, name \notin DOMAIN HexValue,
         GetDesAddr(name, AnalyzerStr(pr).labels) # BADADDR
  PROVE  /\ GetDesAddr(name, AnalyzerStr(pr).labels) = Target(pr, name)
         /\ Target(pr, name) \in Nat
<1> DEFINE n == Len(pr.lines)
           S == AnalyzerStr(pr).labels
           K == {k \in 1..n : pr.lines[k].kind = "label" /\ pr.lines[k].name = name}
           at(k) == Ends(pr)[k - 1] * UnitSize(pr.type) + pr.at
<1>1. n \in Nat /\ n \in 0..n /\ pr.at \in Nat /\ UnitSize(pr.type) \in Nat BY ProgramTyped
<1>2. S = LabelsTo(pr, n)
  <2>1. Found(pr, n) BY <1>1, ScanFinds
  <2> QED BY <2>1 DEF Found, AnalyzerStr
<1>3. ASSUME NEW k \in K
      PROVE  /\ k \in Lines(pr) /\ Kind(pr, k) = "label" /\ name \notin DOMAIN Locals
             /\ LabelOf(pr, k, Ends(pr)[k - 1]) \in S
             /\ at(k) \in Nat
  <2>1. k \in 1..n /\ k \in Lines(pr) /\ Kind(pr, k) = "label" /\ pr.lines[k].name = name
    BY DEF Lines, Kind
  <2>2. name \notin DOMAIN Locals BY <2>1, PlainLine
  <2>3. LabelOf(pr, k, Ends(pr)[k - 1]) \in S BY <1>2, <2>1 DEF LabelsTo
  <2>4. at(k) \in Nat
    <3>1. k - 1 \in 0..n BY <1>1, <2>1
    <3>2. Ends(pr)[k - 1] \in Nat BY <3>1, EndsShow
    <3> QED BY <1>1, <3>2
  <2> QED BY <2>1, <2>2, <2>3, <2>4
<1>4. \A l \in S : l.name = name => \E k \in K : l = [name |-> name, addr |-> at(k)]
  BY <1>2 DEF LabelsTo, LabelOf, Kind
<1>5. CASE K # {}
  <2> DEFINE k == CHOOSE k \in K : TRUE
             l == CHOOSE l \in S : l.name = name
  <2>1. k \in K BY <1>5
  <2>2. \A i \in K : i = k
    <3> SUFFICES ASSUME NEW i \in K PROVE i = k OBVIOUS
    <3>1. pr.lines[i].name = name /\ pr.lines[k].name = name BY <2>1
    <3> HIDE DEF k, K
    <3> QED BY <1>3, <2>1, <3>1, LabelOnce
  <2>3. \E e \in S : e.name = name
    <3>1. LabelOf(pr, k, Ends(pr)[k - 1]) \in S /\ pr.lines[k].name = name BY <1>3, <2>1
    <3>2. LabelOf(pr, k, Ends(pr)[k - 1]).name = name BY <3>1 DEF LabelOf
    <3> QED BY <3>1, <3>2
  <2>4. l \in S /\ l.name = name BY <2>3
  <2> HIDE DEF l
  <2>5. l.addr = at(k)
    <3>1. PICK i \in K : l = [name |-> name, addr |-> at(i)] BY <1>4, <2>4
    <3>2. i = k BY <2>2, <3>1
    <3> HIDE DEF k, K
    <3> QED BY <3>1, <3>2
  <2>6. name \notin DOMAIN Locals /\ at(k) \in Nat /\ k \in Lines(pr) BY <1>3, <2>1
  <2>7. GetDesAddr(name, S) = l.addr
    <3> HIDE DEF S
    <3> QED BY <2>3, <2>6 DEF GetDesAddr, l
  <2>8. Target(pr, name) = pr.at + Ends(pr)[k - 1] * UnitSize(pr.type) BY <1>5 DEF Target, Place
  <2>9. pr.at + Ends(pr)[k - 1] * UnitSize(pr.type) = at(k)
    <3>1. k - 1 \in 0..n BY <2>6 DEF Lines
    <3>2. Ends(pr)[k - 1] \in Nat BY <3>1, EndsShow
    <3> HIDE DEF k
    <3> QED BY <1>1, <3>2
  <2> HIDE DEF S, at, k
  <2> QED BY <2>5, <2>6, <2>7, <2>8, <2>9 DEF S
<1>6. CASE K = {}
  <2>1. ~ \E l \in S : l.name = name BY <1>4, <1>6
  <2>2. Target(pr, name) = IF name \in DOMAIN Locals THEN Locals[name] ELSE Names[name]
    BY <1>6 DEF Target
  <2> HIDE DEF S, K
  <2>3. GetDesAddr(name, S) = IF name \in DOMAIN Locals THEN Locals[name]
                              ELSE IF name \in DOMAIN Names THEN Names[name] ELSE BADADDR
    BY <2>1 DEF GetDesAddr
  <2>4. GetDesAddr(name, S) # BADADDR BY DEF S
  <2>5. name \in DOMAIN Locals \/ name \in DOMAIN Names BY <2>3, <2>4
  <2>6. GetDesAddr(name, S) = Target(pr, name) BY <2>2, <2>3, <2>5
  <2>7. Target(pr, name) \in Nat BY <2>2, <2>5, ProgramAssumption
  <2> QED BY <2>6, <2>7 DEF S
<1> QED BY <1>5, <1>6

\* What as answers for a branch is what its line means.
LEMMA BranchAnswer ==
  ASSUME NEW pr \in AllPrograms, Plain(pr), Assembles(pr),
         NEW i \in 1..Len(Branches(pr)), NEW j \in Lines(pr), Kind(pr, j) = "branch",
         AnalyzerStr(pr).branches[i] = Branched(pr, j)
  PROVE  /\ Branches(pr)[i].offset = Ends(pr)[j - 1]
         /\ Answer(Branches(pr)[i]) = LineCode(pr, j)
         /\ Len(Answer(Branches(pr)[i])) = LineSize(pr, pr.lines[j])
         /\ LineSize(pr, pr.lines[j]) \in {1, 2}
<1> DEFINE l == pr.lines[j]
           e == Ends(pr)[j - 1]
           a == AnalyzerStr(pr)
           here == e * UnitSize(pr.type) + pr.at
           des == GetDesAddr(l.to, a.labels)
           b == Branches(pr)[i]
           f == (des - here) \div UnitSize(pr.type) - 2
<1>1. /\ pr.type \in {0, 1} /\ pr.at \in Nat /\ UnitSize(pr.type) \in Nat /\ e \in Nat
      /\ Size(pr.type, l.m) \in {1, 2}
  <2>1. j - 1 \in 0..Len(pr.lines) BY ProgramTyped DEF Lines
  <2>2. e \in Nat BY <2>1, EndsShow
  <2> QED BY <2>2, ProgramTyped
<1>2. b = [m |-> l.m, offset |-> e, type |-> pr.type, src |-> here, des |-> des]
  <2>1. i \in 1..Len(a.branches)
    <3>1. Len(a.branches) \in Nat
      <4>1. Len(pr.lines) \in 0..Len(pr.lines) BY ProgramTyped
      <4>2. a \in Scans(pr) BY <4>1, ScanShow DEF AnalyzerStr
      <4> QED BY <4>2 DEF Scans
    <3>2. Len(Branches(pr)) = Len(a.branches) BY <3>1 DEF Branches
    <3> QED BY <3>2
  <2>2. b = [m |-> a.branches[i].m, offset |-> a.branches[i].offset, type |-> pr.type,
             src |-> a.branches[i].src, des |-> GetDesAddr(a.branches[i].to, a.labels)]
    BY <2>1 DEF Branches
  <2>3. a.branches[i] = [m |-> l.m, to |-> l.to, offset |-> e, src |-> here]
    BY DEF Branched, BranchOf
  <2> HIDE DEF a, b, l, e, here
  <2> QED BY <2>2, <2>3 DEF des
<1>3. InReach(b) /\ NoBorrow(b) /\ InClac(b) BY DEF Plain, Assembles
<1>4. l.to \notin DOMAIN HexValue BY PlainLine
<1> HIDE DEF b, e, here, des, a
<1>5. des # BADADDR
  <2> SUFFICES ASSUME des = BADADDR PROVE FALSE OBVIOUS
  <2>1. ClacSource(b).range = BADADDR BY <1>2 DEF ClacSource
  <2> QED BY <1>3, <2>1 DEF InClac, AsClac
<1>6. des = Target(pr, l.to) /\ des \in Nat
  BY <1>4, <1>5, TargetFound DEF Assembles, des, a
<1>7. here \in Nat BY <1>1 DEF here
<1> HIDE DEF l
<1>8. Field(b) = f
  <2>1. /\ (des - here) % UnitSize(pr.type) = 0
        /\ f \in (-Reach(b.type, b.m))..(Reach(b.type, b.m) - 1)
    BY <1>2, <1>3 DEF InReach
  <2>2. /\ b.type \in {0, 1} /\ b.src \in Nat /\ b.des \in Nat
        /\ (b.des - b.src) % UnitSize(b.type) = 0
        /\ f = (b.des - b.src) \div UnitSize(b.type) - 2
    BY <1>1, <1>2, <1>6, <1>7, <2>1
  <2> HIDE DEF f
  <2> QED BY <1>3, <2>1, <2>2, FieldExact
<1>9. Answer(b) = Encoded(pr.type, l.m, f)
  <2> DEFINE s == ClacSource(b)
  <2>1. /\ s = [m |-> l.m, type |-> pr.type, label |-> s.label, range |-> s.range]
        /\ b.m = l.m
    BY <1>2 DEF ClacSource
  <2>2. AsClac(s) # Error BY <1>3 DEF InClac
  <2>3. AsClac(s) = s BY <2>2 DEF AsClac
  <2>4. Answer(b) = Instruction(b, s) BY <2>2, <2>3 DEF Answer
  <2>5. [s EXCEPT !.m = b.m] = s /\ [b EXCEPT !.m = s.m] = b
    <3> HIDE DEF s
    <3> QED BY <1>2, <2>1
  <2> HIDE DEF f
  <2>6. Instruction(b, s) = Encoded(s.type, s.m, Field(b))
    BY <2>5 DEF Instruction
  <2> HIDE DEF s
  <2> QED BY <1>8, <2>1, <2>4, <2>6
<1>10. LineCode(pr, j) = Encoded(pr.type, l.m, f)
  <2>1. pr.at + e * UnitSize(pr.type) = here BY <1>1 DEF here
  <2>2. LineCode(pr, j) =
          Encoded(pr.type, l.m, (Target(pr, l.to) - (pr.at + e * UnitSize(pr.type)))
                                  \div UnitSize(pr.type) - 2)
    BY LineCodeShow DEF l, e
  <2> QED BY <1>6, <2>1, <2>2
<1>11. LineSize(pr, pr.lines[j]) = Size(pr.type, l.m) BY PlainLine DEF l
<1>12. Len(Encoded(pr.type, l.m, f)) = Size(pr.type, l.m)
  <2> HIDE DEF f
  <2>1. \A w \in {1, 2} : Len([u \in 1..w |-> <<"branch", l.m, u, f>>]) = w OBVIOUS
  <2> QED BY <1>1, <2>1 DEF Encoded
<1>13. b.offset = e BY <1>2
<1> QED BY <1>1, <1>9, <1>10, <1>11, <1>12, <1>13 DEF b, e

\* Two lines have no unit in common.
LEMMA LinesApart ==
  ASSUME NEW pr \in AllPrograms, Plain(pr), NEW j \in Lines(pr), NEW k \in Lines(pr),
         NEW u \in Int, Ends(pr)[j - 1] < u, u <= Ends(pr)[j],
         Ends(pr)[k - 1] < u, u <= Ends(pr)[k]
  PROVE  j = k
<1> DEFINE n == Len(pr.lines)
           L == Ends(pr)
<1>1. n \in Nat /\ L \in [0..n -> Nat] BY ProgramTyped, EndsShow
<1>2. \A i \in 1..n : L[i - 1] <= L[i]
  <2> SUFFICES ASSUME NEW i \in 1..n PROVE L[i - 1] <= L[i] OBVIOUS
  <2>1. i \in Lines(pr) /\ i - 1 \in 0..n BY <1>1 DEF Lines
  <2>2. L[i] = L[i - 1] + LineSize(pr, pr.lines[i]) /\ LineSize(pr, pr.lines[i]) \in {0, 1, 2}
    BY <2>1, EndsShow, PlainLine
  <2>3. L[i - 1] \in Nat BY <1>1, <2>1
  <2> HIDE DEF L
  <2> QED BY <2>2, <2>3
<1>3. j \in 0..n /\ k \in 0..n /\ j - 1 \in 0..n /\ k - 1 \in 0..n BY <1>1 DEF Lines
<1> HIDE DEF n, L
<1>4. \A i, m \in 0..n : i <= m => L[i] <= L[m] BY <1>1, <1>2, Rising
<1>5. L[j - 1] < u /\ u <= L[j] /\ L[k - 1] < u /\ u <= L[k] BY DEF L
<1>6. L[j] \in Nat /\ L[k] \in Nat /\ L[j - 1] \in Nat /\ L[k - 1] \in Nat BY <1>1, <1>3
<1>7. ~(j <= k - 1)
  <2> SUFFICES ASSUME j <= k - 1 PROVE FALSE OBVIOUS
  <2>1. L[j] <= L[k - 1] BY <1>3, <1>4
  <2> QED BY <1>5, <1>6, <2>1
<1>8. ~(k <= j - 1)
  <2> SUFFICES ASSUME k <= j - 1 PROVE FALSE OBVIOUS
  <2>1. L[k] <= L[j - 1] BY <1>3, <1>4
  <2> QED BY <1>5, <1>6, <2>1
<1> QED BY <1>3, <1>7, <1>8

\* A plain program that assembles is patched as it is meant.
LEMMA PlainPatched ==
  ASSUME NEW pr \in AllPrograms, Plain(pr), Assembles(pr)
  PROVE  Assembled(pr) = Reference(pr)
<1> DEFINE n == Len(pr.lines)
           L == Ends(pr)
           c == as(Source(pr))
           B == Branches(pr)
           nb == Len(B)
           answers == [i \in 1..nb |-> Answer(B[i])]
           over(u) == {i \in 1..Len(answers) : u - B[i].offset \in 1..Len(answers[i])}
           at(u) == IF over(u) = {} THEN c[u]
                    ELSE LET i == CHOOSE i \in over(u) : \A j \in over(u) : j <= i
                         IN answers[i][u - B[i].offset]
<1>1. n \in Nat /\ L \in [0..n -> Nat] /\ L[0] = 0 /\ n \in 0..n BY ProgramTyped, EndsShow
<1>2. /\ Len(c) = L[n] /\ \A k \in Lines(pr) : Kind(pr, k) = "text" =>
           c[L[k - 1] + 1] = <<"text", <<pr.id, k>>, 1>>
  BY AsCode DEF Assembles
<1>3. nb \in Nat /\ nb = Len(AnalyzerStr(pr).branches)
  <2>1. AnalyzerStr(pr) \in Scans(pr) BY <1>1, ScanShow DEF AnalyzerStr
  <2>2. Len(AnalyzerStr(pr).branches) \in Nat BY <2>1 DEF Scans
  <2> QED BY <2>2 DEF Branches
<1>4. Assembled(pr) = [u \in 1..Len(c) |-> at(u)] BY DEF Assembled, Overlaid
<1>5. Found(pr, n) BY <1>1, ScanFinds
<1> HIDE DEF c, L, B, nb, n
<1>6. Len(answers) = nb /\ \A i \in 1..nb : answers[i] = Answer(B[i])
  <2>1. \A T : \A f \in [1..nb -> T] : Len(f) = nb BY <1>3
  <2>2. answers \in [1..nb -> {Answer(B[i]) : i \in 1..nb}] OBVIOUS
  <2>3. Len(answers) = nb
    <3> HIDE DEF answers
    <3> QED BY <2>1, <2>2
  <2> QED BY <2>3
<1> HIDE DEF answers
<1>7. ASSUME NEW i \in 1..nb, NEW j \in Lines(pr), Kind(pr, j) = "branch",
             AnalyzerStr(pr).branches[i] = Branched(pr, j)
      PROVE  /\ B[i].offset = L[j - 1] /\ answers[i] = LineCode(pr, j)
             /\ Len(answers[i]) = LineSize(pr, pr.lines[j])
             /\ L[j] = L[j - 1] + LineSize(pr, pr.lines[j])
             /\ LineSize(pr, pr.lines[j]) \in {1, 2} /\ L[j - 1] \in Nat
  <2>1. j - 1 \in 0..n BY <1>1 DEF Lines, n
  <2>2. L[j - 1] \in Nat /\ L[j] = L[j - 1] + LineSize(pr, pr.lines[j])
    BY <2>1, <1>1, EndsShow DEF L
  <2>3. i \in 1..Len(Branches(pr)) BY DEF nb, B
  <2>4. /\ Branches(pr)[i].offset = Ends(pr)[j - 1]
        /\ Answer(Branches(pr)[i]) = LineCode(pr, j)
        /\ Len(Answer(Branches(pr)[i])) = LineSize(pr, pr.lines[j])
        /\ LineSize(pr, pr.lines[j]) \in {1, 2}
    BY <1>7, <2>3, BranchAnswer
  <2> QED BY <1>6, <2>2, <2>4 DEF B, L
<1>8. \A i \in 1..nb : \E j \in Lines(pr) :
        Kind(pr, j) = "branch" /\ AnalyzerStr(pr).branches[i] = Branched(pr, j)
  BY <1>3, <1>5 DEF Found, AnalyzerStr, n, Lines
<1>9. \A j \in Lines(pr) : Kind(pr, j) = "branch" =>
        \E i \in 1..nb : AnalyzerStr(pr).branches[i] = Branched(pr, j)
  BY <1>3, <1>5 DEF Found, AnalyzerStr, n, Lines
<1>10. ASSUME NEW k \in Lines(pr), NEW u \in Int, L[k - 1] < u, u <= L[k], NEW i \in over(u)
       PROVE  /\ i \in 1..nb /\ Kind(pr, k) = "branch"
              /\ B[i].offset = L[k - 1] /\ answers[i] = LineCode(pr, k)
  <2>1. i \in 1..nb /\ u - B[i].offset \in 1..Len(answers[i]) BY <1>6
  <2>2. PICK j \in Lines(pr) : Kind(pr, j) = "branch" /\ AnalyzerStr(pr).branches[i] = Branched(pr, j)
    BY <1>8, <2>1
  <2>3. /\ B[i].offset = L[j - 1] /\ answers[i] = LineCode(pr, j)
        /\ Len(answers[i]) = LineSize(pr, pr.lines[j])
        /\ L[j] = L[j - 1] + LineSize(pr, pr.lines[j])
        /\ LineSize(pr, pr.lines[j]) \in {1, 2} /\ L[j - 1] \in Nat
    BY <1>7, <2>1, <2>2
  <2>4. L[j - 1] < u /\ u <= L[j]
    <3>1. \A x \in Nat : \A w \in {1, 2} : u - x \in 1..w => x < u /\ u <= x + w OBVIOUS
    <3> QED BY <2>1, <2>3, <3>1
  <2>5. j = k BY <1>10, <2>4, LinesApart DEF L
  <2> QED BY <2>1, <2>2, <2>3, <2>5
<1> HIDE DEF over
<1>11. ASSUME NEW u \in 1..L[n] PROVE at(u) = Reference(pr)[u]
  <2>1. PICK k \in 1..n : L[k - 1] < u /\ u <= L[k] BY <1>1, Between
  <2>2. k \in Lines(pr) /\ k - 1 \in 0..n /\ k \in 0..n BY <1>1 DEF Lines, n
  <2> DEFINE w == LineSize(pr, pr.lines[k])
             v == u - L[k - 1]
  <2>3. L[k] = L[k - 1] + w /\ L[k - 1] \in Nat /\ w \in {0, 1, 2}
    BY <1>1, <2>2, EndsShow, PlainLine DEF L
  <2>4. v \in 1..w /\ L[k - 1] + v = u /\ w # 0
    <3> HIDE DEF w
    <3> QED BY <2>1, <2>3
  <2>5. Reference(pr)[L[k - 1] + v] = LineCode(pr, k)[v]
    <3> HIDE DEF v
    <3> QED BY <2>2, <2>4, ReferenceCode DEF L, w
  <2> HIDE DEF v
  <2>6. CASE Kind(pr, k) = "text"
    <3>1. over(u) = {} BY <1>10, <2>1, <2>2, <2>6
    <3>2. w = 1 /\ LineCode(pr, k)[1] = <<"text", <<pr.id, k>>, 1>>
      BY <2>2, <2>6, PlainLine, LineCodeShow
    <3>3. v = 1 BY <2>4, <3>2
    <3>4. c[u] = <<"text", <<pr.id, k>>, 1>> BY <1>2, <2>2, <2>4, <2>6, <3>3
    <3> QED BY <2>4, <2>5, <3>1, <3>2, <3>3, <3>4
  <2>7. CASE Kind(pr, k) = "branch"
    <3>1. PICK i \in 1..nb : AnalyzerStr(pr).branches[i] = Branched(pr, k) BY <1>9, <2>2, <2>7
    <3>2. B[i].offset = L[k - 1] /\ Len(answers[i]) = w BY <1>7, <2>2, <2>7, <3>1
    <3>3. i \in over(u) BY <1>6, <2>4, <3>2 DEF over, v
    <3> DEFINE z == CHOOSE x \in over(u) : \A y \in over(u) : y <= x
    <3>4. z \in over(u)
      <4>1. over(u) \in SUBSET (0..nb) BY <1>6 DEF over
      <4>2. \E x \in over(u) : \A y \in over(u) : y <= x BY <1>3, <3>3, <4>1, Greatest
      <4> QED BY <4>2
    <3>5. at(u) = answers[z][u - B[z].offset] BY <3>3
    <3> HIDE DEF z
    <3>6. B[z].offset = L[k - 1] /\ answers[z] = LineCode(pr, k) BY <1>10, <2>1, <2>2, <3>4
    <3> QED BY <2>4, <2>5, <3>5, <3>6 DEF v
  <2>8. Kind(pr, k) # "label"
    <3>1. Kind(pr, k) = "label" => w = 0 BY <2>2, PlainLine
    <3> QED BY <2>4, <3>1
  <2> QED BY <2>2, <2>6, <2>7, <2>8, PlainLine
<1> HIDE DEF at
<1>12. Reference(pr) = [u \in 1..L[n] |-> Reference(pr)[u]]
  <2>1. (\E T : Reference(pr) \in Seq(T)) /\ Len(Reference(pr)) = L[n] BY ReferenceCode DEF L, n
  <2> QED BY <2>1
<1> QED BY <1>2, <1>4, <1>11, <1>12

\* Without two dialogs, and with as.exe and its object file there, a press patches a
\* plain program as it was meant: each line at the place it has among the others, each
\* branch with the distance of its label or name (DlgMain.cpp, 383-497, 714-838, 946).
THEOREM PatchExactAlways == Spec => []PatchExact
<1>1. IInv => PatchExact
  <2> SUFFICES ASSUME IInv, NEW p \in Procs, pc[p] = "close", ~raced, ~hindered[p], Plain(prog[p])
               PROVE  code[p] = Reference(prog[p])
    BY DEF PatchExact
  <2>1. code[p] = Assembled(prog[p]) /\ Assembles(prog[p]) BY DEF IInv, Own
  <2>2. prog[p] \in AllPrograms BY DEF IInv, TypeOK, Pressing
  <2> QED BY <2>1, <2>2, PlainPatched
<1> QED BY <1>1, Invariant, PTL
=============================================================================
