----------------------------- MODULE QflowProofs ----------------------------
(* Proofs that the driver and its scripts do not take a result that is out   *)
(* of date, failed or of another stage for the current one.                  *)
EXTENDS Qflow, TLAPS

InPlacement == pc \in {"acel", "graywolf", "info", "place2def", "unroute"}
InRouter == pc \in {"qrouter", "decongest", "routed"}
InPlace(steps) == line = 2 /\ pc \in steps

\* Where the shell is: scripts run in the order of their lines.
LineInv ==
  /\ pc # "idle" => clock > 0
  /\ pc \notin {"idle", "line"} => line # 9
  /\ pc \in {Lines[l] : l \in 1..8} => pc = Script
  /\ InPlacement => Script \in {"place", "final"}
  /\ InRouter => Script \in {"route", "reroute"}
  /\ pc \notin {"idle", "line"} => Script \in ran
  /\ pc # "idle" /\ line = 1 => ran \subseteq {"synthesize"}
  /\ pc = "line" /\ line = 1 => ran = {}
  /\ pc # "idle" /\ line = 2 => ran \subseteq {"synthesize", "place"}
  /\ pc = "line" /\ line = 2 => ran \subseteq {"synthesize"}

\* After an error no script of a later stage gets past its first step.
ErrorInv == errcond => ~InPlacement /\ ~InRouter

\* Placement makes its backup of a DEF file that has not been routed.
BackupInv == pc = "unroute" /\ ~failed => ~file["def"].routed

\* The routed DEF file exists only until router.sh moves it.
RouteInv == Exists("route") => pc \in {"decongest", "routed"}

\* A layout that is more recent than the DEF file was read from it.
MagInv ==
  /\ Mtime("mag") > Mtime("def") => SameLayout(file["mag"], file["def"])
  /\ Exists("route") => Mtime("mag") <= Mtime("route")

\* The run has gone through synthesis and begun placement, and all has worked.
Current == {"synthesize", "place"} \subseteq ran /\ ~failed /\ pc # "idle"

\* Which files come from the source as it is.  Congestion information of an
\* earlier run is older than the .cel file.
FreshInv ==
  /\ pc # "idle" /\ {"route", "reroute"} \cap ran = {} => Mtime("acel") < clock
  /\ "synthesize" \in ran /\ pc \notin {"idle", "synthesize"} => file["blif"].fresh
  /\ Current /\ ~InPlace({"place"}) =>
       file["cel"].fresh /\ (file["acel"].fresh \/ Mtime("acel") < Mtime("cel"))
  /\ Current /\ pc \in {"info", "place2def"} => file["pin"].fresh
  /\ Current /\ ~InPlace({"place", "acel", "graywolf", "info", "place2def"}) =>
       file["def"].fresh
  /\ Current /\ ~InPlace({"place", "acel", "graywolf", "info", "place2def", "unroute"}) =>
       file["unroute"].fresh
  /\ Current /\ Exists("route") => file["route"].fresh

IInv == /\ TypeOK /\ LineInv /\ ErrorInv /\ BackupInv /\ RouteInv /\ MagInv
        /\ FreshInv

-----------------------------------------------------------------------------
(* The driver's lines.                                                       *)

LEMMA LineNames ==
  /\ Lines[1] = "synthesize" /\ Lines[2] = "place" /\ Lines[3] = "sta"
  /\ Lines[4] = "route" /\ Lines[5] = "final" /\ Lines[6] = "reroute"
  /\ Lines[7] = "cleanup" /\ Lines[8] = "display"
  /\ {Lines[l] : l \in 1..8} = {"synthesize", "place", "sta", "route", "final",
                                "reroute", "cleanup", "display"}
<1>1. /\ Lines[1] = "synthesize" /\ Lines[2] = "place" /\ Lines[3] = "sta"
      /\ Lines[4] = "route" /\ Lines[5] = "final" /\ Lines[6] = "reroute"
      /\ Lines[7] = "cleanup" /\ Lines[8] = "display"
  BY DEF Lines
<1>2. 1..8 = {1, 2, 3, 4, 5, 6, 7, 8}
  OBVIOUS
<1>. HIDE DEF Lines
<1>3. \A x : x \in {Lines[l] : l \in 1..8} <=>
             x \in {"synthesize", "place", "sta", "route", "final", "reroute",
                    "cleanup", "display"}
  BY <1>1, <1>2
<1>. QED  BY <1>1, <1>3, Zenon

Scripts == {"synthesize", "place", "sta", "route", "final", "reroute", "cleanup", "display"}
Steps == {"acel", "graywolf", "info", "place2def", "unroute",
          "qrouter", "decongest", "routed"}

LEMMA ScriptOfLine ==
  ASSUME line \in 1..9
  PROVE  /\ line = 1 => Script = "synthesize"
         /\ line = 2 => Script = "place"
         /\ line = 3 => Script = "sta"
         /\ line = 4 => Script = "route"
         /\ line = 5 => Script = "final"
         /\ line = 6 => Script = "reroute"
         /\ line = 7 => Script = "cleanup"
         /\ line = 8 => Script = "display"
         /\ line # 9 => Script \in Scripts
BY LineNames DEF Script, Scripts

\* The types of what is not a file.
ShellTypes ==
  /\ clock \in 0..MaxTime /\ cfg \in {"none", "congestion", "standard"}
  /\ errcond \in BOOLEAN /\ final \in BOOLEAN /\ congested \in BOOLEAN
  /\ failed \in BOOLEAN
  /\ ran \subseteq Scripts /\ line \in 1..9 /\ status \in 0..2
  /\ pc \in {"idle", "line"} \cup Steps \cup Scripts

\* Files of the right kind, none from the future.
FilesAt(g, t) ==
  /\ g \in [File -> Content]
  /\ \A f \in File : g[f].stamp <= t /\ (g[f].stamp = 0 => g[f] = NoFile)

LEMMA TypeOKParts == TypeOK <=> ShellTypes /\ FilesAt(file, clock)
BY LineNames DEF TypeOK, ShellTypes, FilesAt, Scripts, Steps, Mtime, Exists

\* A script leaves: the shell is between two lines, or the run has ended.
LEMMA LeaveLine ==
  ASSUME TypeOK, LineInv, pc \notin {"idle", "line"}, UNCHANGED <<clock, ran>>,
         NEW s \in 0..2, Leave(s)
  PROVE  /\ LineInv' /\ line' \in 1..9 /\ status' \in 0..2
         /\ pc' = (IF s = 0 THEN "line" ELSE "idle")
         /\ pc' = "line" => line' = line + 1
<1>1. /\ line \in 1..9 /\ line # 9 /\ line' \in 1..9 /\ status' = s
      /\ pc' = (IF s = 0 THEN "line" ELSE "idle")
      /\ pc' = "line" => line' = line + 1
  BY TypeOKParts DEF ShellTypes, LineInv, Leave
<1>2. pc' \notin Scripts \cup Steps
  BY <1>1 DEF Scripts, Steps
<1>3. LineInv'
  BY <1>1, <1>2, LineNames DEF LineInv, InPlacement, InRouter, Steps, Scripts
<1>. QED  BY <1>1, <1>3

\* A script goes on to one of its steps.
LEMMA ContinueLine ==
  ASSUME TypeOK, LineInv, pc \notin {"idle", "line"}, UNCHANGED <<clock, ran>>,
         NEW step \in Steps, Continue(step),
         Script \in (IF step \in {"qrouter", "decongest", "routed"}
                     THEN {"route", "reroute"} ELSE {"place", "final"})
  PROVE  /\ LineInv' /\ line' \in 1..9 /\ status' \in 0..2
         /\ pc' = step /\ line' = line /\ Script' = Script
<1>1. line \in 1..9 /\ line' = line /\ status' = status /\ pc' = step /\ Script' = Script
      /\ status \in 0..2
  BY TypeOKParts DEF ShellTypes, Continue, Script
<1>2. pc' \notin {"idle", "line"} \cup Scripts
  BY <1>1 DEF Scripts, Steps
<1>3. LineInv'
  BY <1>1, <1>2, LineNames DEF LineInv, InPlacement, InRouter, Steps, Scripts
<1>. QED  BY <1>1, <1>3

-----------------------------------------------------------------------------
(* Files.                                                                    *)

\* f is written now with the content of c, and nothing else is.
Wrote(g, f, c) ==
  /\ g[f].stamp = clock /\ g[f].fresh = c.fresh /\ g[f].spread = c.spread
  /\ g[f].routed = c.routed
  /\ \A x \in File \ {f} : g[x] = file[x]

LEMMA FileNames ==
  /\ "blif" \in File /\ "cel" \in File /\ "acel" \in File /\ "pin" \in File
  /\ "info" \in File /\ "def" \in File /\ "unroute" \in File /\ "route" \in File
  /\ "cinfo" \in File /\ "mag" \in File
BY DEF File

LEMMA WrittenFiles ==
  ASSUME FilesAt(file, clock), clock \in Nat \ {0}, clock <= MaxTime,
         NEW f \in File, NEW c \in Content
  PROVE  FilesAt(Written(f, c), clock) /\ Wrote(Written(f, c), f, c)
<1>. DEFINE d == [c EXCEPT !.stamp = clock]
<1>1. /\ d \in Content /\ d.stamp = clock /\ d.fresh = c.fresh /\ d.spread = c.spread
      /\ d.routed = c.routed
  BY MaxTimeAssumption DEF Content
<1>2. Written(f, c) = [file EXCEPT ![f] = d]
  BY DEF Written
<1>. HIDE DEF d
<1>3. /\ Written(f, c) \in [File -> Content] /\ Written(f, c)[f] = d
      /\ \A x \in File \ {f} : Written(f, c)[x] = file[x]
  BY <1>1, <1>2 DEF FilesAt
<1>. QED  BY <1>1, <1>3 DEF FilesAt, Wrote

LEMMA NoFileType ==
  /\ NoFile \in Content /\ NoFile.stamp = 0 /\ ~NoFile.fresh /\ ~NoFile.spread
  /\ ~NoFile.routed
BY MaxTimeAssumption DEF NoFile, Content

LEMMA ClockType ==
  ASSUME TypeOK, LineInv, pc # "idle"
  PROVE  clock \in Nat \ {0} /\ clock <= MaxTime /\ FilesAt(file, clock)
BY TypeOKParts, MaxTimeAssumption DEF ShellTypes, LineInv

LEMMA TypeOKNext == ShellTypes' /\ FilesAt(file', clock') => TypeOK'
BY LineNames DEF TypeOK, ShellTypes, FilesAt, Scripts, Steps, Mtime, Exists

LEMMA ToolOutcome ==
  ASSUME TypeOK, LineInv, pc # "idle", NEW f \in File, NEW input \in File,
         NEW c \in Content, Tool(f, input, c)
  PROVE  /\ FilesAt(file', clock) /\ failed' \in BOOLEAN
         /\ \/ failed' = failed /\ Wrote(file', f, c) /\ file[input].stamp # 0
            \/ failed' = TRUE /\ file' = file
BY ClockType, WrittenFiles, TypeOKParts DEF Tool, ToolFails, ShellTypes, Exists

\* What a step does that touches no file.
LEMMA SameFilesInv ==
  ASSUME IInv, UNCHANGED <<file, failed>>, pc' # "unroute",
         pc' \notin {"decongest", "routed"} => ~Exists("route")
  PROVE  BackupInv' /\ RouteInv' /\ MagInv'
BY DEF IInv, BackupInv, RouteInv, MagInv, Exists, Mtime, SameLayout

-----------------------------------------------------------------------------
(* The clock, the user and the driver.                                       *)

LEMMA TickIInv ==
  ASSUME IInv, Tick
  PROVE  IInv'
<1>1. /\ pc # "idle" /\ clock < MaxTime /\ clock' = clock + 1
      /\ file' = file /\ cfg' = cfg /\ errcond' = errcond /\ line' = line /\ ran' = ran
      /\ pc' = pc /\ final' = final /\ status' = status /\ failed' = failed
      /\ congested' = congested
  BY DEF Tick
<1>2. TypeOK /\ clock \in Nat \ {0} /\ FilesAt(file, clock) /\ ShellTypes
  BY <1>1, ClockType, TypeOKParts DEF IInv
<1>3. clock' \in 0..MaxTime
  BY <1>1, <1>2, MaxTimeAssumption
<1>4. FilesAt(file', clock')
  <2>1. \A f \in File : file[f].stamp \in Nat
    BY <1>2, MaxTimeAssumption DEF FilesAt, Content
  <2>. QED  BY <1>1, <1>2, <2>1 DEF FilesAt
<1>5. TypeOK'
  BY <1>1, <1>2, <1>3, <1>4, TypeOKNext DEF ShellTypes
<1>6. LineInv'
  BY <1>1, <1>2 DEF IInv, LineInv, InPlacement, InRouter, Script
<1>7. ErrorInv' /\ BackupInv' /\ RouteInv' /\ MagInv'
  BY <1>1 DEF IInv, ErrorInv, BackupInv, RouteInv, MagInv, InPlacement, InRouter, Exists,
              Mtime, SameLayout
<1>8. FreshInv'
  <2>1. file["acel"].stamp \in Nat
    BY <1>2, FileNames, MaxTimeAssumption DEF FilesAt, Content
  <2>. QED  BY <1>1, <1>2, <2>1 DEF IInv, FreshInv, Current, InPlace, Exists, Mtime
<1>. QED  BY <1>5, <1>6, <1>7, <1>8 DEF IInv

LEMMA EditSourceIInv ==
  ASSUME IInv, EditSource
  PROVE  IInv'
<1>1. /\ pc = "idle" /\ pc' = pc /\ clock' = clock /\ cfg' = cfg /\ errcond' = errcond
      /\ line' = line /\ ran' = ran /\ final' = final /\ status' = status
      /\ failed' = failed /\ congested' = congested
      /\ file' = [f \in File |-> [file[f] EXCEPT !.fresh = FALSE]]
  BY DEF EditSource
<1>2. TypeOK /\ FilesAt(file, clock) /\ ShellTypes
  BY TypeOKParts DEF IInv
<1>3. \A f \in File : /\ file'[f] \in Content /\ file'[f].stamp = file[f].stamp
                      /\ file'[f].fresh = FALSE /\ file'[f].spread = file[f].spread
                      /\ file'[f].routed = file[f].routed
  BY <1>1, <1>2 DEF FilesAt, Content
<1>4. \A f \in File : file'[f].stamp = 0 => file'[f] = NoFile
  <2>1. TAKE f \in File
  <2>2. HAVE file'[f].stamp = 0
  <2>3. file[f] = NoFile
    BY <1>2, <1>3, <2>2 DEF FilesAt
  <2>4. file'[f] = [NoFile EXCEPT !.fresh = FALSE]
    BY <1>1, <2>3
  <2>. QED  BY <2>4 DEF NoFile
<1>5. TypeOK'
  <2>1. file' \in [File -> Content]
    BY <1>1, <1>3
  <2>. QED  BY <1>1, <1>2, <1>3, <1>4, <2>1, TypeOKNext DEF FilesAt, ShellTypes
<1>6. LineInv'
  BY <1>1, LineNames DEF LineInv, InPlacement, InRouter
<1>7. ErrorInv' /\ BackupInv' /\ RouteInv' /\ MagInv'
  BY <1>1, <1>3, FileNames DEF IInv, ErrorInv, BackupInv, RouteInv, MagInv, InPlacement,
       InRouter, Exists, Mtime, SameLayout
<1>8. FreshInv'
  BY <1>1 DEF FreshInv, Current
<1>. QED  BY <1>5, <1>6, <1>7, <1>8 DEF IInv

LEMMA RunIInv ==
  ASSUME IInv, Run
  PROVE  IInv'
<1>1. /\ pc = "idle" /\ clock < MaxTime /\ clock' = clock + 1 /\ line' = 1 /\ ran' = {}
      /\ pc' = "line" /\ final' = FALSE /\ status' = 0 /\ failed' = FALSE
      /\ congested' = FALSE /\ file' = file /\ cfg' = cfg /\ errcond' = errcond
  BY DEF Run
<1>2. TypeOK /\ FilesAt(file, clock) /\ ShellTypes
  BY TypeOKParts DEF IInv
<1>3. clock \in Nat /\ clock' \in 0..MaxTime /\ clock' > 0
  BY <1>1, <1>2, MaxTimeAssumption DEF ShellTypes
<1>4. FilesAt(file', clock') /\ file["acel"].stamp < clock'
  <2>1. \A f \in File : file[f].stamp \in Nat
    BY <1>2, MaxTimeAssumption DEF FilesAt, Content
  <2>. QED  BY <1>1, <1>2, <1>3, <2>1, FileNames DEF FilesAt
<1>5. TypeOK'
  <2>1. /\ clock' \in 0..MaxTime /\ ran' \subseteq Scripts /\ line' \in 1..9 /\ status' \in 0..2
        /\ pc' \in {"idle", "line"} \cup Steps \cup Scripts
    BY <1>1, <1>3
  <2>2. final' \in BOOLEAN /\ failed' \in BOOLEAN /\ congested' \in BOOLEAN
    BY <1>1
  <2>3. cfg' \in {"none", "congestion", "standard"} /\ errcond' \in BOOLEAN
    BY <1>1, <1>2 DEF ShellTypes
  <2>. QED  BY <1>4, <2>1, <2>2, <2>3, TypeOKNext DEF ShellTypes
<1>6. LineInv'
  BY <1>1, <1>3, LineNames DEF LineInv, InPlacement, InRouter
<1>7. ErrorInv' /\ BackupInv' /\ RouteInv' /\ MagInv'
  BY <1>1 DEF IInv, ErrorInv, BackupInv, RouteInv, MagInv, InPlacement, InRouter, Exists,
              Mtime, SameLayout
<1>8. FreshInv'
  BY <1>1, <1>4 DEF FreshInv, Current, Mtime
<1>. QED  BY <1>5, <1>6, <1>7, <1>8 DEF IInv

LEMMA DriverIInv ==
  ASSUME IInv, Driver
  PROVE  IInv'
<1>1. /\ pc = "line" /\ file' = file /\ failed' = failed /\ clock' = clock /\ cfg' = cfg
      /\ errcond' = errcond /\ status' = status /\ congested' = congested
  BY DEF Driver, SkipLine, StartLine, EndOfScript
<1>2. TypeOK /\ FilesAt(file, clock) /\ ShellTypes /\ clock > 0
  BY <1>1, TypeOKParts DEF IInv, LineInv
<1>3. \/ line <= 8 /\ line' = line + 1 /\ pc' = "line" /\ ran' = ran /\ final' = final
      \/ /\ line <= 8 /\ line' = line /\ pc' = Script /\ ran' = ran \cup {Script}
         /\ final' \in BOOLEAN
      \/ line = 9 /\ line' = line /\ pc' = "idle" /\ ran' = ran /\ final' = final
  BY <1>1 DEF Driver, SkipLine, StartLine, EndOfScript
<1>4. /\ line \in 1..9 /\ line' \in 1..9 /\ (line # 9 => Script \in Scripts)
      /\ (line = line' => Script' = Script)
  BY <1>2, <1>3, ScriptOfLine DEF ShellTypes, Script
<1>5. pc' \in {"line", "idle"} \/ (pc' = Script /\ Script \in Scripts)
  BY <1>3, <1>4
<1>6. pc' \notin Steps /\ pc' \notin {"unroute", "decongest", "routed"}
  BY <1>5 DEF Steps, Scripts
<1>7. TypeOK'
  BY <1>1, <1>2, <1>3, <1>4, <1>5, TypeOKNext DEF ShellTypes
<1>8. LineInv'
  <2>1. /\ line = 1 => ran = {} /\ Script = "synthesize"
        /\ line = 2 => ran \subseteq {"synthesize"} /\ Script = "place"
    BY <1>1, <1>4, ScriptOfLine DEF IInv, LineInv
  <2>2. CASE pc' = "line"
    BY <1>1, <1>2, <1>3, <1>4, <2>1, <2>2, LineNames DEF LineInv, InPlacement, InRouter, Scripts
  <2>3. CASE pc' = "idle"
    BY <1>2, <2>3, LineNames DEF LineInv, InPlacement, InRouter
  <2>4. CASE pc' = Script /\ Script \in Scripts
    <3>1. line <= 8 /\ line' = line /\ ran' = ran \cup {Script} /\ pc' \notin {"idle", "line"}
      BY <1>3, <1>4, <2>4 DEF Scripts
    <3>. QED  BY <1>1, <1>2, <1>4, <1>6, <2>1, <2>4, <3>1
              DEF LineInv, InPlacement, InRouter, Steps, Scripts
  <2>. QED  BY <1>5, <2>2, <2>3, <2>4
<1>9. ErrorInv'
  BY <1>6 DEF ErrorInv, InPlacement, InRouter, Steps
<1>10. BackupInv' /\ RouteInv' /\ MagInv'
  BY <1>1, <1>6, SameFilesInv DEF IInv, RouteInv
<1>11. FreshInv'
  <2>1. ~InPlace({"place"})
    BY <1>1 DEF InPlace
  <2>2. /\ {"route", "reroute"} \cap ran = {} => Mtime("acel") < clock
        /\ "synthesize" \in ran => file["blif"].fresh
        /\ Current => /\ file["cel"].fresh /\ file["def"].fresh /\ file["unroute"].fresh
                      /\ file["acel"].fresh \/ Mtime("acel") < Mtime("cel")
                      /\ Exists("route") => file["route"].fresh
    BY <1>1 DEF IInv, FreshInv, InPlace
  <2>3. CASE Current /\ Current'
    BY <1>1, <1>3, <1>6, <2>2, <2>3 DEF FreshInv, Mtime, Exists, Scripts, Current, Steps
  <2>4. CASE ~Current'
    BY <1>1, <1>3, <1>4, <2>2, <2>4 DEF FreshInv, Mtime
  <2>5. CASE ~Current /\ Current'
    \* Placement has just begun.
    <3>1. pc' = Script /\ ran' = ran \cup {Script} /\ Script = "place" /\ line' = line
          /\ line <= 8
      <4>1. pc' = Script /\ ran' = ran \cup {Script} /\ line' = line /\ line <= 8
        BY <1>1, <1>3, <2>5 DEF Current
      <4>2. Script \in {"synthesize", "place"}
        BY <1>1, <2>5, <4>1 DEF Current
      <4>3. Script = "synthesize" => line = 1
        BY <1>4, <4>1, ScriptOfLine
      <4>4. line = 1 => ran = {}
        BY <1>1 DEF IInv, LineInv
      <4>5. Script # "synthesize"
        BY <2>5, <4>1, <4>3, <4>4 DEF Current
      <4>. QED  BY <4>1, <4>2, <4>5
    <3>2. line = 2
      BY <1>4, <3>1, ScriptOfLine
    <3>. QED  BY <1>1, <2>2, <3>1, <3>2 DEF FreshInv, InPlace, Mtime, Exists, IInv, RouteInv
  <2>. QED  BY <2>3, <2>4, <2>5
<1>. QED  BY <1>7, <1>8, <1>9, <1>10, <1>11 DEF IInv

-----------------------------------------------------------------------------
(* The scripts.                                                              *)

LEMMA ScriptFacts ==
  ASSUME IInv, pc \notin {"idle", "line"}
  PROVE  /\ TypeOK /\ LineInv /\ ShellTypes /\ FilesAt(file, clock)
         /\ clock \in Nat \ {0} /\ clock <= MaxTime
         /\ \A f \in File : file[f] \in Content /\ file[f].stamp \in Nat
                            /\ file[f].stamp <= clock
         /\ \A f \in File : file[f].fresh => file[f].stamp # 0
         /\ Script \in ran
<1>1. /\ TypeOK /\ LineInv /\ ShellTypes /\ FilesAt(file, clock)
      /\ clock \in Nat \ {0} /\ clock <= MaxTime /\ Script \in ran
  BY ClockType, TypeOKParts DEF IInv, LineInv
<1>2. \A f \in File : file[f] \in Content /\ file[f].stamp \in Nat /\ file[f].stamp <= clock
  BY <1>1, MaxTimeAssumption DEF FilesAt, Content
<1>3. \A f \in File : file[f].fresh => file[f].stamp # 0
  BY <1>1, NoFileType DEF FilesAt
<1>. QED  BY <1>1, <1>2, <1>3

\* A run that ends in a script.
LEMMA RunEnds ==
  ASSUME pc' = "idle"
  PROVE  FreshInv' /\ ErrorInv' /\ BackupInv'
BY DEF FreshInv, ErrorInv, BackupInv, Current, InPlacement, InRouter

\* A tool that leaves the DEF files and the layout alone.
LEMMA OtherTool ==
  ASSUME IInv, pc \notin {"decongest", "routed"}, NEW f \in File \ {"def", "route", "mag"},
         \A x \in File \ {f} : file'[x] = file[x]
  PROVE  RouteInv' /\ MagInv'
<1>1. file'["route"] = file["route"] /\ file'["def"] = file["def"] /\ file'["mag"] = file["mag"]
  BY FileNames
<1>. QED  BY <1>1 DEF IInv, RouteInv, MagInv, Exists, Mtime, SameLayout

LEMMA SynthesizeIInv ==
  ASSUME IInv, Synthesize
  PROVE  IInv'
<1>1. /\ pc = "synthesize" /\ clock' = clock /\ cfg' = cfg /\ ran' = ran /\ final' = final
      /\ failed' = failed /\ congested' = congested /\ errcond' \in BOOLEAN
  BY DEF Synthesize
<1>2. /\ TypeOK /\ LineInv /\ ShellTypes /\ FilesAt(file, clock)
      /\ clock \in Nat \ {0} /\ clock <= MaxTime
  BY <1>1, ScriptFacts
<1>3. \/ /\ file' = Written("blif", [NoFile EXCEPT !.fresh = TRUE])
         /\ Leave(0)
      \/ file' = file /\ Leave(1)
  BY <1>1 DEF Synthesize
<1>. DEFINE netlist == [NoFile EXCEPT !.fresh = TRUE]
<1>4. netlist \in Content /\ netlist.fresh = TRUE
  BY NoFileType DEF Content
<1>. HIDE DEF netlist
<1>5. FilesAt(Written("blif", netlist), clock) /\ Wrote(Written("blif", netlist), "blif", netlist)
  BY <1>2, <1>4, FileNames, WrittenFiles
<1>6. \/ file' = Written("blif", netlist) /\ Leave(0)
      \/ file' = file /\ Leave(1)
  BY <1>3 DEF netlist
<1>7. /\ FilesAt(file', clock) /\ \A x \in File \ {"blif"} : file'[x] = file[x]
      /\ (file'["blif"].fresh = TRUE /\ Leave(0)) \/ Leave(1)
  BY <1>2, <1>4, <1>5, <1>6 DEF Wrote
<1>8. /\ LineInv' /\ line' \in 1..9 /\ status' \in 0..2
      /\ pc' = "idle" \/ (pc' = "line" /\ file'["blif"].fresh = TRUE)
  BY <1>1, <1>2, <1>7, LeaveLine
<1>9. TypeOK'
  BY <1>1, <1>2, <1>7, <1>8, TypeOKNext DEF ShellTypes
<1>10. RouteInv' /\ MagInv'
  BY <1>1, <1>7, FileNames, OtherTool
<1>11. ErrorInv' /\ BackupInv'
  BY <1>8 DEF ErrorInv, BackupInv, InPlacement, InRouter
<1>12. FreshInv'
  <2>1. CASE pc' = "idle"
    BY <2>1, RunEnds
  <2>2. CASE pc' = "line" /\ file'["blif"].fresh = TRUE
    <3>1. line = 1
      BY <1>1, <1>2, ScriptOfLine, LineNames DEF LineInv, ShellTypes
    <3>2. ran \subseteq {"synthesize"}
      BY <1>1, <1>2, <3>1 DEF LineInv
    <3>3. ~Current'
      BY <1>1, <3>2 DEF Current
    <3>. QED  BY <1>1, <1>7, <2>2, <3>3, FileNames DEF IInv, FreshInv, Mtime
  <2>. QED  BY <1>8, <2>1, <2>2
<1>. QED  BY <1>8, <1>9, <1>10, <1>11, <1>12 DEF IInv

LEMMA RefuseIInv ==
  ASSUME IInv, Refuse
  PROVE  IInv'
<1>1. /\ pc \in {"place", "final", "route", "reroute", "sta"} /\ Leave(1)
      /\ clock' = clock /\ file' = file /\ cfg' = cfg /\ errcond' = errcond /\ ran' = ran
      /\ final' = final /\ failed' = failed /\ congested' = congested
  BY DEF Refuse
<1>2. TypeOK /\ LineInv /\ ShellTypes /\ FilesAt(file, clock)
  BY <1>1, ScriptFacts
<1>3. LineInv' /\ line' \in 1..9 /\ status' \in 0..2 /\ pc' = "idle"
  BY <1>1, <1>2, LeaveLine
<1>4. TypeOK'
  BY <1>1, <1>2, <1>3, TypeOKNext DEF ShellTypes
<1>5. RouteInv' /\ MagInv'
  BY <1>1, FileNames, OtherTool
<1>. QED  BY <1>3, <1>4, <1>5, RunEnds DEF IInv

LEMMA Blif2celIInv ==
  ASSUME IInv, Blif2cel
  PROVE  IInv'
<1>1. /\ pc \in {"place", "final"} /\ clock' = clock /\ cfg' = cfg /\ ran' = ran
      /\ final' = final /\ congested' = congested /\ errcond = FALSE
      /\ Tool("cel", "blif", file["blif"])
  BY ScriptFacts DEF Blif2cel, MayProceed, ShellTypes
<1>2. /\ TypeOK /\ LineInv /\ ShellTypes /\ FilesAt(file, clock)
      /\ clock \in Nat \ {0} /\ clock <= MaxTime
      /\ \A f \in File : file[f] \in Content /\ file[f].stamp \in Nat /\ file[f].stamp <= clock
      /\ Script \in ran
  BY <1>1, ScriptFacts
<1>3. /\ FilesAt(file', clock) /\ failed' \in BOOLEAN
      /\ \/ failed' = failed /\ Wrote(file', "cel", file["blif"])
         \/ failed' = TRUE /\ file' = file
  BY <1>1, <1>2, FileNames, ToolOutcome
<1>4. \A x \in File \ {"cel"} : file'[x] = file[x]
  BY <1>3 DEF Wrote
<1>5. \/ Continue("acel") /\ errcond' = errcond
      \/ Leave(1) /\ errcond' = TRUE
  BY <1>1 DEF Blif2cel, GoOnIf
<1>6. pc = Script /\ (line = 2 <=> pc = "place")
  BY <1>1, <1>2, ScriptOfLine, LineNames DEF LineInv, ShellTypes
<1>7. /\ LineInv' /\ line' \in 1..9 /\ status' \in 0..2
      /\ \/ pc' = "acel" /\ line' = line /\ errcond' = FALSE
         \/ pc' = "idle" /\ errcond' = TRUE
  <2>1. CASE Continue("acel") /\ errcond' = errcond
    BY <1>1, <1>2, <1>6, <2>1, ContinueLine DEF Steps
  <2>2. CASE Leave(1) /\ errcond' = TRUE
    BY <1>1, <1>2, <2>2, LeaveLine
  <2>. QED  BY <1>5, <2>1, <2>2
<1>8. TypeOK'
  BY <1>1, <1>2, <1>3, <1>7, TypeOKNext DEF ShellTypes, Steps
<1>9. RouteInv' /\ MagInv'
  BY <1>1, <1>4, FileNames, OtherTool
<1>10. ErrorInv' /\ BackupInv'
  BY <1>7 DEF ErrorInv, BackupInv, InPlacement, InRouter
<1>11. FreshInv'
  <2>1. CASE pc' = "idle"
    BY <2>1, RunEnds
  <2>2. CASE pc' = "acel" /\ line' = line
    <3>1. ASSUME Current'
          PROVE  Current /\ Wrote(file', "cel", file["blif"])
      BY <1>1, <1>2, <1>3, <3>1 DEF Current, ShellTypes
    <3>2. ASSUME Current
          PROVE  /\ file["blif"].fresh
                 /\ file["acel"].fresh \/ Mtime("acel") < clock
      <4>1. file["blif"].fresh
        BY <1>1, <3>2 DEF IInv, FreshInv, Current
      <4>2. CASE pc = "place"
        <5>1. ran \subseteq {"synthesize", "place"}
          BY <1>1, <1>6, <1>2, <4>2 DEF LineInv
        <5>. QED  BY <1>1, <4>1, <5>1 DEF IInv, FreshInv
      <4>3. CASE pc = "final"
        BY <1>2, <1>6, <3>2, <4>1, <4>3, FileNames DEF IInv, FreshInv, InPlace, Mtime
      <4>. QED  BY <1>1, <4>2, <4>3
    <3>3. Current' => /\ file'["cel"].fresh
                      /\ file'["acel"].fresh \/ file'["acel"].stamp < file'["cel"].stamp
      BY <1>4, <3>1, <3>2, FileNames DEF Wrote, Mtime
    <3>4. /\ file'["acel"] = file["acel"] /\ file'["blif"] = file["blif"]
          /\ file'["def"] = file["def"] /\ file'["unroute"] = file["unroute"]
          /\ file'["route"] = file["route"]
      BY <1>4, FileNames
    <3>5. InPlace({"place"}) => InPlace({"place", "acel", "graywolf", "info", "place2def"})'
                 /\ InPlace({"place", "acel", "graywolf", "info", "place2def", "unroute"})'
      BY <2>2 DEF InPlace
    <3>6. ~InPlace({"place"}) => line # 2
      BY <1>6 DEF InPlace
    <3>7. /\ {"route", "reroute"} \cap ran' = {} => Mtime("acel")' < clock'
          /\ "synthesize" \in ran' => file'["blif"].fresh
          /\ Current' => (file'["route"].stamp # 0 => file'["route"].fresh)
      BY <1>1, <3>1, <3>4 DEF IInv, FreshInv, Mtime, Exists
    <3>8. Current' /\ line # 2 => file'["def"].fresh /\ file'["unroute"].fresh
      BY <3>1, <3>4 DEF IInv, FreshInv, InPlace
    <3>. QED  BY <2>2, <3>3, <3>5, <3>6, <3>7, <3>8 DEF FreshInv, InPlace, Mtime, Exists
  <2>. QED  BY <1>7, <2>1, <2>2
<1>. QED  BY <1>7, <1>8, <1>9, <1>10, <1>11 DEF IInv

LEMMA SelectCelIInv ==
  ASSUME IInv, SelectCel
  PROVE  IInv'
<1>1. /\ pc = "acel" /\ clock' = clock /\ cfg' = cfg /\ errcond' = errcond /\ ran' = ran
      /\ failed' = failed /\ congested' = congested
  BY DEF SelectCel
<1>2. \/ /\ AcelIsNewer /\ final' = TRUE /\ Continue("graywolf")
         /\ file' = [file EXCEPT !["cel"] = file["acel"], !["acel"] = NoFile]
      \/ Leave(2) /\ UNCHANGED <<file, final>>
      \/ ~AcelIsNewer /\ Continue("graywolf") /\ UNCHANGED <<file, final>>
  BY DEF SelectCel
<1>3. /\ TypeOK /\ LineInv /\ ShellTypes /\ FilesAt(file, clock)
      /\ clock \in Nat \ {0} /\ clock <= MaxTime
      /\ \A f \in File : file[f] \in Content /\ file[f].stamp \in Nat /\ file[f].stamp <= clock
  BY <1>1, ScriptFacts
<1>4. /\ \A x \in File \ {"cel", "acel"} : file'[x] = file[x]
      /\ file' \in [File -> Content]
      /\ \/ AcelIsNewer /\ file'["cel"] = file["acel"] /\ file'["acel"] = NoFile
         \/ (~AcelIsNewer \/ pc' = "idle") /\ file'["cel"] = file["cel"]
            /\ file'["acel"] = file["acel"]
  BY <1>2, <1>3, FileNames, NoFileType DEF FilesAt, Leave
<1>5. FilesAt(file', clock)
  BY <1>3, <1>4, FileNames, NoFileType DEF FilesAt
<1>6. /\ LineInv' /\ line' \in 1..9 /\ status' \in 0..2
      /\ (pc' = "graywolf" /\ line' = line) \/ pc' = "idle"
  <2>1. Script \in {"place", "final"}
    BY <1>1, <1>3 DEF LineInv, InPlacement
  <2>. QED  BY <1>1, <1>2, <1>3, <2>1, ContinueLine, LeaveLine DEF Steps
<1>7. TypeOK'
  BY <1>1, <1>2, <1>3, <1>5, <1>6, TypeOKNext DEF ShellTypes, Steps
<1>8. /\ file'["route"] = file["route"] /\ file'["def"] = file["def"]
      /\ file'["mag"] = file["mag"] /\ file'["blif"] = file["blif"]
      /\ file'["unroute"] = file["unroute"]
  BY <1>4, FileNames
<1>9. RouteInv' /\ MagInv' /\ BackupInv' /\ ErrorInv'
  BY <1>1, <1>6, <1>8 DEF IInv, RouteInv, MagInv, BackupInv, ErrorInv, InPlacement, InRouter,
                          Exists, Mtime, SameLayout
<1>10. FreshInv'
  <2>1. CASE pc' = "idle"
    BY <2>1, RunEnds
  <2>2. CASE pc' = "graywolf" /\ line' = line
    <3>1. Current' => Current
      BY <1>1 DEF Current
    <3>2. /\ {"route", "reroute"} \cap ran = {} => Mtime("acel") < clock
          /\ "synthesize" \in ran => file["blif"].fresh
          /\ Current => file["cel"].fresh /\ (file["acel"].fresh \/ Mtime("acel") < Mtime("cel"))
          /\ Current /\ line # 2 => file["def"].fresh /\ file["unroute"].fresh
          /\ Current /\ Exists("route") => file["route"].fresh
      BY <1>1 DEF IInv, FreshInv, InPlace
    <3>3. /\ {"route", "reroute"} \cap ran' = {} => Mtime("acel")' < clock'
          /\ Current' => file'["cel"].fresh
                         /\ (file'["acel"].fresh \/ Mtime("acel")' < Mtime("cel")')
      <4>1. CASE AcelIsNewer /\ file'["cel"] = file["acel"] /\ file'["acel"] = NoFile
        <5>1. /\ file["acel"].stamp \in Nat \ {0} /\ file["cel"].stamp \in Nat
              /\ file["acel"].stamp >= file["cel"].stamp
          BY <1>3, <4>1, FileNames DEF AcelIsNewer, Exists, Mtime
        <5>. QED  BY <1>1, <1>3, <3>1, <3>2, <4>1, <5>1, NoFileType DEF Mtime
      <4>2. CASE file'["cel"] = file["cel"] /\ file'["acel"] = file["acel"]
        BY <1>1, <3>1, <3>2, <4>2 DEF Mtime
      <4>. QED  BY <1>4, <4>1, <4>2
    <3>4. InPlace({"place", "acel", "graywolf", "info", "place2def"})' <=> line = 2
      BY <2>2 DEF InPlace
    <3>5. InPlace({"place", "acel", "graywolf", "info", "place2def", "unroute"})' <=> line = 2
      BY <2>2 DEF InPlace
    <3>. QED  BY <1>1, <1>8, <2>2, <3>1, <3>2, <3>3, <3>4, <3>5 DEF FreshInv, Exists, Mtime
  <2>. QED  BY <1>6, <2>1, <2>2
<1>. QED  BY <1>6, <1>7, <1>9, <1>10 DEF IInv

\* A tool of placement.sh and the test after it.
LEMMA PlacementTool ==
  ASSUME IInv, NEW out \in File, NEW input \in File, NEW c \in Content, NEW check,
         NEW step \in {"info", "place2def", "unroute"}, pc \in {"graywolf", "info", "place2def"},
         Tool(out, input, c), GoOnIf(check, step), UNCHANGED <<clock, cfg, ran, final, congested>>
  PROVE  /\ TypeOK' /\ LineInv' /\ ErrorInv' /\ failed' \in BOOLEAN
         /\ \/ failed' = failed /\ Wrote(file', out, c)
            \/ failed' = TRUE /\ file' = file
         /\ (pc' = step /\ line' = line) \/ pc' = "idle"
<1>1. /\ TypeOK /\ LineInv /\ ShellTypes /\ FilesAt(file, clock)
  BY ScriptFacts
<1>2. /\ FilesAt(file', clock) /\ failed' \in BOOLEAN
      /\ \/ failed' = failed /\ Wrote(file', out, c)
         \/ failed' = TRUE /\ file' = file
  BY <1>1, ToolOutcome
<1>3. errcond = FALSE /\ Script \in {"place", "final"}
  BY <1>1 DEF IInv, ErrorInv, ShellTypes, LineInv, InPlacement
<1>4. \/ Continue(step) /\ errcond' = errcond
      \/ Leave(1) /\ errcond' = TRUE
  BY DEF GoOnIf
<1>5. /\ LineInv' /\ line' \in 1..9 /\ status' \in 0..2
      /\ \/ pc' = step /\ line' = line /\ errcond' = FALSE
         \/ pc' = "idle" /\ errcond' = TRUE
  <2>1. CASE Continue(step) /\ errcond' = errcond
    BY <1>1, <1>3, <2>1, ContinueLine DEF Steps
  <2>2. CASE Leave(1) /\ errcond' = TRUE
    BY <1>1, <2>2, LeaveLine
  <2>. QED  BY <1>4, <2>1, <2>2
<1>6. TypeOK'
  BY <1>1, <1>2, <1>5, TypeOKNext DEF ShellTypes, Steps
<1>7. ErrorInv'
  BY <1>5 DEF ErrorInv, InPlacement, InRouter
<1>. QED  BY <1>2, <1>5, <1>6, <1>7

\* What the invariant says of the files in the middle of placement.sh.
LEMMA PlacementFiles ==
  ASSUME IInv, pc \in {"graywolf", "info", "place2def", "unroute"}
  PROVE  /\ ~Exists("route")
         /\ {"route", "reroute"} \cap ran = {} => Mtime("acel") < clock
         /\ "synthesize" \in ran => file["blif"].fresh
         /\ Current => file["cel"].fresh /\ (file["acel"].fresh \/ Mtime("acel") < Mtime("cel"))
         /\ Current /\ pc \in {"info", "place2def"} => file["pin"].fresh
         /\ Current /\ (line # 2 \/ pc = "unroute") => file["def"].fresh
         /\ Current /\ line # 2 => file["unroute"].fresh
BY DEF IInv, FreshInv, InPlace, RouteInv

\* A step of placement.sh to another one that writes neither netlist nor .cel.
LEMMA PlacementFresh ==
  ASSUME IInv, pc \in {"graywolf", "info", "place2def"},
         pc' \in {"info", "place2def", "unroute"}, UNCHANGED <<clock, ran, line>>,
         \A x \in File \ {"pin", "info", "def"} : file'[x] = file[x],
         Current' => /\ Current
                     /\ pc' \in {"info", "place2def"} => file'["pin"].fresh
                     /\ line # 2 \/ pc' = "unroute" => file'["def"].fresh
  PROVE  FreshInv'
<1>1. /\ file'["blif"] = file["blif"] /\ file'["cel"] = file["cel"]
      /\ file'["acel"] = file["acel"] /\ file'["unroute"] = file["unroute"]
      /\ file'["route"] = file["route"]
  BY FileNames
<1>2. InPlace({"place", "acel", "graywolf", "info", "place2def"})' <=>
        line = 2 /\ pc' # "unroute"
  BY DEF InPlace
<1>3. InPlace({"place", "acel", "graywolf", "info", "place2def", "unroute"})' <=> line = 2
  BY DEF InPlace
<1>. QED  BY <1>1, <1>2, <1>3, PlacementFiles DEF FreshInv, Exists, Mtime

LEMMA GraywolfIInv ==
  ASSUME IInv, Graywolf
  PROVE  IInv'
<1>1. /\ pc = "graywolf" /\ Tool("pin", "cel", file["cel"])
      /\ GoOnIf(SpotCheck("pin", "cel")', "info")
      /\ UNCHANGED <<clock, cfg, ran, final, congested>>
  BY DEF Graywolf
<1>2. file["cel"] \in Content /\ ShellTypes
  BY <1>1, FileNames, ScriptFacts
<1>3. /\ TypeOK' /\ LineInv' /\ ErrorInv' /\ failed' \in BOOLEAN
      /\ \/ failed' = failed /\ Wrote(file', "pin", file["cel"])
         \/ failed' = TRUE /\ file' = file
      /\ (pc' = "info" /\ line' = line) \/ pc' = "idle"
  BY <1>1, <1>2, FileNames, PlacementTool
<1>4. \A x \in File \ {"pin"} : file'[x] = file[x]
  BY <1>3 DEF Wrote
<1>5. RouteInv' /\ MagInv' /\ BackupInv'
  BY <1>1, <1>3, <1>4, FileNames, OtherTool DEF BackupInv
<1>6. CASE pc' = "info" /\ line' = line
  <2>1. Current' => Current /\ file'["pin"].fresh
    BY <1>1, <1>2, <1>3, PlacementFiles DEF Current, Wrote, ShellTypes
  <2>2. Current' /\ line # 2 => file'["def"].fresh
    BY <1>1, <1>4, <2>1, FileNames, PlacementFiles
  <2>3. FreshInv'
    BY <1>1, <1>4, <1>6, <2>1, <2>2, PlacementFresh
  <2>. QED  BY <1>3, <1>5, <2>3 DEF IInv
<1>. QED  BY <1>3, <1>5, <1>6, RunEnds DEF IInv

LEMMA QrouterInfoIInv ==
  ASSUME IInv, QrouterInfo
  PROVE  IInv'
<1>1. /\ pc = "info" /\ Tool("info", "cel", NoFile)
      /\ GoOnIf(SpotCheck("info", "pin")', "place2def")
      /\ UNCHANGED <<clock, cfg, ran, final, congested>>
  BY DEF QrouterInfo
<1>2. ShellTypes
  BY <1>1, ScriptFacts
<1>3. /\ TypeOK' /\ LineInv' /\ ErrorInv' /\ failed' \in BOOLEAN
      /\ \/ failed' = failed /\ Wrote(file', "info", NoFile)
         \/ failed' = TRUE /\ file' = file
      /\ (pc' = "place2def" /\ line' = line) \/ pc' = "idle"
  BY <1>1, FileNames, NoFileType, PlacementTool
<1>4. \A x \in File \ {"info"} : file'[x] = file[x]
  BY <1>3 DEF Wrote
<1>5. RouteInv' /\ MagInv' /\ BackupInv'
  BY <1>1, <1>3, <1>4, FileNames, OtherTool DEF BackupInv
<1>6. CASE pc' = "place2def" /\ line' = line
  <2>1. Current' => Current
    BY <1>1, <1>2, <1>3 DEF Current, ShellTypes
  <2>2. Current' => file'["pin"].fresh /\ (line # 2 => file'["def"].fresh)
    BY <1>1, <1>4, <2>1, FileNames, PlacementFiles
  <2>3. FreshInv'
    BY <1>1, <1>4, <1>6, <2>1, <2>2, PlacementFresh
  <2>. QED  BY <1>3, <1>5, <2>3 DEF IInv
<1>. QED  BY <1>3, <1>5, <1>6, RunEnds DEF IInv

LEMMA Place2defIInv ==
  ASSUME IInv, Place2def
  PROVE  IInv'
<1>. DEFINE placed == [file["pin"] EXCEPT !.routed = FALSE]
<1>1. /\ pc = "place2def" /\ Tool("def", "pin", placed)
      /\ GoOnIf(SpotCheck("def", "pin")', "unroute")
      /\ UNCHANGED <<clock, cfg, ran, final, congested>>
  BY DEF Place2def
<1>2. /\ file["pin"] \in Content /\ ShellTypes /\ file["mag"].stamp \in Nat
      /\ file["mag"].stamp <= clock /\ clock \in Nat
  BY <1>1, FileNames, ScriptFacts
<1>3. placed \in Content /\ placed.fresh = file["pin"].fresh /\ placed.routed = FALSE
  BY <1>2 DEF Content
<1>. HIDE DEF placed
<1>4. /\ TypeOK' /\ LineInv' /\ ErrorInv' /\ failed' \in BOOLEAN
      /\ \/ failed' = failed /\ Wrote(file', "def", placed)
         \/ failed' = TRUE /\ file' = file
      /\ (pc' = "unroute" /\ line' = line) \/ pc' = "idle"
  BY <1>1, <1>3, FileNames, PlacementTool
<1>5. \A x \in File \ {"def"} : file'[x] = file[x]
  BY <1>4 DEF Wrote
<1>6. file'["route"] = file["route"] /\ file'["mag"] = file["mag"]
  BY <1>5, FileNames
<1>7. RouteInv' /\ MagInv'
  <2>1. CASE file' = file
    BY <1>1, <2>1 DEF IInv, RouteInv, MagInv, Exists, Mtime, SameLayout
  <2>2. CASE Wrote(file', "def", placed)
    BY <1>1, <1>2, <1>6, <2>2 DEF IInv, RouteInv, MagInv, Exists, Mtime, Wrote
  <2>. QED  BY <1>4, <2>1, <2>2
<1>8. BackupInv'
  BY <1>3, <1>4 DEF BackupInv, Wrote
<1>9. CASE pc' = "unroute" /\ line' = line
  <2>1. Current' => Current /\ file'["def"].fresh
    BY <1>1, <1>2, <1>3, <1>4, PlacementFiles DEF Current, Wrote, ShellTypes
  <2>2. FreshInv'
    BY <1>1, <1>5, <1>9, <2>1, PlacementFresh
  <2>. QED  BY <1>4, <1>7, <1>8, <2>2 DEF IInv
<1>. QED  BY <1>4, <1>7, <1>9, RunEnds DEF IInv

\* A script ends with status 0.
LEMMA ScriptEndsFresh ==
  ASSUME pc' = "line" \/ (pc' \in {"qrouter", "decongest", "routed"} /\ line' # 2),
         UNCHANGED <<clock, ran>>,
         {"route", "reroute"} \cap ran = {} => file'["acel"].stamp < clock,
         "synthesize" \in ran => file'["blif"].fresh,
         Current' => /\ file'["cel"].fresh /\ file'["def"].fresh /\ file'["unroute"].fresh
                     /\ file'["acel"].fresh \/ file'["acel"].stamp < file'["cel"].stamp
                     /\ file'["route"].stamp # 0 => file'["route"].fresh
  PROVE  FreshInv'
<1>1. ~InPlace({"place"})' /\ pc' \notin {"info", "place2def"}
  BY DEF InPlace
<1>. QED  BY <1>1 DEF FreshInv, Exists, Mtime

LEMMA PlacementEndIInv ==
  ASSUME IInv, PlacementEnd
  PROVE  IInv'
<1>1. /\ pc = "unroute" /\ file' = Unrouted /\ cfg' = RouteMode /\ Leave(0)
      /\ clock' = clock /\ errcond' = errcond /\ ran' = ran /\ final' = final
      /\ failed' = failed /\ congested' = congested
  BY DEF PlacementEnd
<1>2. /\ TypeOK /\ LineInv /\ ShellTypes /\ FilesAt(file, clock)
      /\ clock \in Nat \ {0} /\ clock <= MaxTime
      /\ file["def"] \in Content /\ (file["def"].fresh => file["def"].stamp # 0)
  BY <1>1, FileNames, ScriptFacts
<1>3. \/ file' = Written("unroute", file["def"])
      \/ file["def"].stamp = 0 /\ file' = file
  BY <1>1 DEF Unrouted, Copied, Exists
<1>4. /\ FilesAt(file', clock)
      /\ Wrote(file', "unroute", file["def"]) \/ (file["def"].stamp = 0 /\ file' = file)
  BY <1>2, <1>3, FileNames, WrittenFiles
<1>5. \A x \in File \ {"unroute"} : file'[x] = file[x]
  BY <1>4 DEF Wrote
<1>6. LineInv' /\ line' \in 1..9 /\ status' \in 0..2 /\ pc' = "line"
  BY <1>1, <1>2, LeaveLine
<1>7. TypeOK'
  BY <1>1, <1>2, <1>4, <1>6, TypeOKNext DEF ShellTypes, RouteMode
<1>8. RouteInv' /\ MagInv'
  BY <1>1, <1>5, FileNames, OtherTool
<1>9. ErrorInv' /\ BackupInv'
  BY <1>6 DEF ErrorInv, BackupInv, InPlacement, InRouter
<1>10. FreshInv'
  <2>1. /\ file'["blif"] = file["blif"] /\ file'["cel"] = file["cel"]
        /\ file'["acel"] = file["acel"] /\ file'["def"] = file["def"]
        /\ file'["route"] = file["route"]
    BY <1>5, FileNames
  <2>2. Current' => Current /\ file["def"].fresh
    BY <1>1, PlacementFiles DEF Current
  <2>3. Current' => file'["unroute"].fresh
    BY <1>2, <1>4, <2>2 DEF Wrote
  <2>. QED  BY <1>1, <1>6, <2>1, <2>2, <2>3, PlacementFiles, ScriptEndsFresh DEF Exists, Mtime
<1>. QED  BY <1>6, <1>7, <1>8, <1>9, <1>10 DEF IInv

-----------------------------------------------------------------------------
(* The scripts after placement.                                              *)

LEMMA LaterFiles ==
  ASSUME IInv, pc \in {"route", "reroute", "qrouter", "decongest", "routed",
                       "sta", "cleanup", "display"}
  PROVE  /\ line # 2
         /\ {"route", "reroute"} \cap ran = {} => file["acel"].stamp < clock
         /\ "synthesize" \in ran => file["blif"].fresh
         /\ Current => /\ file["cel"].fresh /\ file["def"].fresh /\ file["unroute"].fresh
                       /\ file["acel"].fresh \/ file["acel"].stamp < file["cel"].stamp
                       /\ file["route"].stamp # 0 => file["route"].fresh
         /\ pc \in {"qrouter", "decongest", "routed"} =>
              errcond = FALSE /\ Script \in {"route", "reroute"}
              /\ {"route", "reroute"} \cap ran # {}
<1>1. LineInv /\ ShellTypes
  BY ScriptFacts
<1>2. line # 2
  <2>1. Script # "place"
    BY <1>1, LineNames DEF LineInv, InRouter
  <2>. QED  BY <1>1, <2>1, ScriptOfLine DEF ShellTypes
<1>3. pc \in {"qrouter", "decongest", "routed"} =>
        errcond = FALSE /\ Script \in {"route", "reroute"} /\ Script \in ran
  BY <1>1 DEF IInv, ErrorInv, LineInv, InRouter, ShellTypes
<1>. QED  BY <1>2, <1>3 DEF IInv, FreshInv, InPlace, Exists, Mtime

LEMMA RouterStartIInv ==
  ASSUME IInv, RouterStart
  PROVE  IInv'
<1>1. /\ pc \in {"route", "reroute"} /\ ~errcond /\ file' = Restored /\ Continue("qrouter")
      /\ clock' = clock /\ cfg' = cfg /\ errcond' = errcond /\ ran' = ran /\ final' = final
      /\ failed' = failed /\ congested' = congested
  BY DEF RouterStart, MayProceed
<1>2. /\ TypeOK /\ LineInv /\ ShellTypes /\ FilesAt(file, clock)
      /\ clock \in Nat \ {0} /\ clock <= MaxTime
      /\ file["unroute"] \in Content /\ (file["unroute"].fresh => file["unroute"].stamp # 0)
      /\ file["mag"].stamp \in Nat /\ file["mag"].stamp <= clock
  BY <1>1, FileNames, ScriptFacts
<1>3. \/ file' = Written("def", file["unroute"])
      \/ file["unroute"].stamp = 0 /\ file' = file
  BY <1>1 DEF Restored, Copied, Exists
<1>4. /\ FilesAt(file', clock)
      /\ Wrote(file', "def", file["unroute"]) \/ (file["unroute"].stamp = 0 /\ file' = file)
  BY <1>2, <1>3, FileNames, WrittenFiles
<1>5. /\ file'["blif"] = file["blif"] /\ file'["cel"] = file["cel"]
      /\ file'["acel"] = file["acel"] /\ file'["unroute"] = file["unroute"]
      /\ file'["route"] = file["route"] /\ file'["mag"] = file["mag"]
  BY <1>4, FileNames DEF Wrote
<1>6. LineInv' /\ line' \in 1..9 /\ status' \in 0..2 /\ pc' = "qrouter" /\ line' = line
  <2>1. Script \in {"route", "reroute"}
    BY <1>1, <1>2, LineNames DEF LineInv
  <2>. QED  BY <1>1, <1>2, <2>1, ContinueLine DEF Steps
<1>7. TypeOK'
  BY <1>1, <1>2, <1>4, <1>6, TypeOKNext DEF ShellTypes, Steps
<1>8. RouteInv' /\ MagInv'
  <2>1. ~Exists("route")
    BY <1>1 DEF IInv, RouteInv
  <2>2. CASE file' = file
    BY <2>1, <2>2 DEF IInv, RouteInv, MagInv, Exists, Mtime, SameLayout
  <2>3. CASE Wrote(file', "def", file["unroute"])
    BY <1>2, <1>5, <2>1, <2>3 DEF RouteInv, MagInv, Exists, Mtime, Wrote
  <2>. QED  BY <1>4, <2>2, <2>3
<1>9. ErrorInv' /\ BackupInv'
  BY <1>1, <1>6 DEF ErrorInv, BackupInv
<1>10. FreshInv'
  <2>1. Current' => Current
    BY <1>1 DEF Current
  <2>2. Current' => file'["def"].fresh
    BY <1>1, <1>2, <1>4, <2>1, LaterFiles DEF Wrote
  <2>. QED  BY <1>1, <1>5, <1>6, <2>1, <2>2, LaterFiles, ScriptEndsFresh
<1>. QED  BY <1>6, <1>7, <1>8, <1>9, <1>10 DEF IInv

LEMMA QrouterIInv ==
  ASSUME IInv, Qrouter
  PROVE  IInv'
<1>1. /\ pc = "qrouter" /\ GoOnIf(SpotCheck("route", "def")', "decongest")
      /\ clock' = clock /\ cfg' = cfg /\ ran' = ran /\ final' = final
      /\ congested' = congested
  BY DEF Qrouter
<1>2. /\ TypeOK /\ LineInv /\ ShellTypes /\ FilesAt(file, clock)
      /\ clock \in Nat \ {0} /\ clock <= MaxTime
      /\ file["def"] \in Content /\ file["mag"].stamp \in Nat /\ file["mag"].stamp <= clock
  BY <1>1, FileNames, ScriptFacts
<1>3. /\ failed' \in BOOLEAN /\ (failed' = FALSE => failed = FALSE)
      /\ \/ \E complete \in BOOLEAN : file' = [file EXCEPT !["route"] = RoutedBy(complete)]
         \/ \E partial \in {{}, {"route"}} :
               file' = [f \in File |-> IF f = "cinfo" THEN Congestion
                                       ELSE IF f \in partial THEN RoutedBy(FALSE)
                                       ELSE file[f]]
         \/ file' = file
  BY <1>2 DEF Qrouter, ToolFails, ShellTypes
<1>4. \A complete \in BOOLEAN : /\ RoutedBy(complete) \in Content
                                /\ RoutedBy(complete).stamp = clock
                                /\ RoutedBy(complete).fresh = file["def"].fresh
  <2>1. TAKE complete \in BOOLEAN
  <2>. DEFINE routed == [file["def"] EXCEPT !.routed = complete]
  <2>2. RoutedBy(complete) = [routed EXCEPT !.stamp = clock]
    BY DEF RoutedBy
  <2>3. routed \in Content /\ routed.fresh = file["def"].fresh
    BY <1>2 DEF Content
  <2>. HIDE DEF routed
  <2>4. clock \in 0..MaxTime
    BY <1>2, MaxTimeAssumption
  <2>. QED  BY <2>2, <2>3, <2>4 DEF Content
<1>5. Congestion \in Content /\ Congestion.stamp = clock
  BY <1>2, MaxTimeAssumption, NoFileType DEF Congestion, Content
<1>6. /\ file' \in [File -> Content]
      /\ \A x \in File \ {"route", "cinfo"} : file'[x] = file[x]
      /\ \A x \in {"route", "cinfo"} : file'[x] = file[x] \/ file'[x].stamp = clock
      /\ \/ file'["route"] = file["route"]
         \/ file'["route"].stamp = clock /\ file'["route"].fresh = file["def"].fresh
  <2>1. CASE \E complete \in BOOLEAN : file' = [file EXCEPT !["route"] = RoutedBy(complete)]
    BY <1>2, <1>4, <2>1, FileNames DEF FilesAt
  <2>2. CASE \E partial \in {{}, {"route"}} :
               file' = [f \in File |-> IF f = "cinfo" THEN Congestion
                                       ELSE IF f \in partial THEN RoutedBy(FALSE)
                                       ELSE file[f]]
    BY <1>2, <1>4, <1>5, <2>2, FileNames DEF FilesAt
  <2>3. CASE file' = file
    BY <1>2, <2>3 DEF FilesAt
  <2>. QED  BY <1>3, <2>1, <2>2, <2>3
<1>7. FilesAt(file', clock)
  <2>1. \A x \in File : file'[x] = file[x] \/ file'[x].stamp = clock
    BY <1>6
  <2>. QED  BY <1>2, <1>6, <2>1 DEF FilesAt
<1>8. /\ file'["blif"] = file["blif"] /\ file'["cel"] = file["cel"]
      /\ file'["acel"] = file["acel"] /\ file'["unroute"] = file["unroute"]
      /\ file'["def"] = file["def"] /\ file'["mag"] = file["mag"]
  BY <1>6, FileNames
<1>9. errcond = FALSE /\ Script \in {"route", "reroute"} /\ line # 2
  BY <1>1, LaterFiles
<1>10. \/ Continue("decongest") /\ errcond' = errcond
       \/ Leave(1) /\ errcond' = TRUE /\ ~Exists("route")'
  BY <1>1 DEF GoOnIf, SpotCheck, Exists
<1>11. /\ LineInv' /\ line' \in 1..9 /\ status' \in 0..2
       /\ \/ pc' = "decongest" /\ line' = line /\ errcond' = FALSE
          \/ pc' = "idle" /\ errcond' = TRUE /\ ~Exists("route")'
  <2>1. CASE Continue("decongest") /\ errcond' = errcond
    BY <1>1, <1>2, <1>9, <2>1, ContinueLine DEF Steps
  <2>2. CASE Leave(1) /\ errcond' = TRUE /\ ~Exists("route")'
    BY <1>1, <1>2, <2>2, LeaveLine
  <2>. QED  BY <1>10, <2>1, <2>2
<1>12. TypeOK'
  BY <1>1, <1>2, <1>3, <1>7, <1>11, TypeOKNext DEF ShellTypes, Steps
<1>13. RouteInv'
  BY <1>11 DEF RouteInv
<1>14. MagInv'
  BY <1>1, <1>2, <1>6, <1>8 DEF IInv, RouteInv, MagInv, Exists, Mtime, SameLayout
<1>15. CASE pc' = "decongest" /\ line' = line /\ errcond' = FALSE
  <2>1. ErrorInv' /\ BackupInv'
    BY <1>15 DEF ErrorInv, BackupInv
  <2>2. Current' => Current
    BY <1>1, <1>2, <1>3 DEF Current, ShellTypes
  <2>3. Current' => (file'["route"].stamp # 0 => file'["route"].fresh)
    BY <1>1, <1>6, <2>2, LaterFiles
  <2>4. FreshInv'
    BY <1>1, <1>8, <1>9, <1>15, <2>2, <2>3, LaterFiles, ScriptEndsFresh
  <2>. QED  BY <1>11, <1>12, <1>13, <1>14, <2>1, <2>4 DEF IInv
<1>. QED  BY <1>11, <1>12, <1>13, <1>14, <1>15, RunEnds DEF IInv

LEMMA DecongestIInv ==
  ASSUME IInv, Decongest
  PROVE  IInv'
<1>. DEFINE spread == [file["cel"] EXCEPT !.spread = TRUE]
<1>1. /\ pc = "decongest" /\ Continue("routed")
      /\ Tool("acel", "cel", spread) \/ UNCHANGED <<file, failed>>
      /\ clock' = clock /\ cfg' = cfg /\ errcond' = errcond /\ ran' = ran /\ final' = final
      /\ congested' = (congested \/ file' # file)
  BY DEF Decongest
<1>2. /\ TypeOK /\ LineInv /\ ShellTypes /\ FilesAt(file, clock)
      /\ clock \in Nat \ {0} /\ clock <= MaxTime
      /\ file["cel"] \in Content
  BY <1>1, FileNames, ScriptFacts
<1>3. spread \in Content /\ spread.fresh = file["cel"].fresh
  BY <1>2 DEF Content
<1>. HIDE DEF spread
<1>4. /\ FilesAt(file', clock) /\ failed' \in BOOLEAN /\ (failed' = FALSE => failed = FALSE)
      /\ Wrote(file', "acel", spread) \/ file' = file
  <2>1. CASE Tool("acel", "cel", spread)
    BY <1>1, <1>2, <1>3, <2>1, FileNames, ToolOutcome DEF ShellTypes
  <2>. QED  BY <1>1, <1>2, <2>1 DEF ShellTypes
<1>5. /\ file'["blif"] = file["blif"] /\ file'["cel"] = file["cel"]
      /\ file'["unroute"] = file["unroute"] /\ file'["def"] = file["def"]
      /\ file'["mag"] = file["mag"] /\ file'["route"] = file["route"]
      /\ file'["acel"] = file["acel"] \/ file'["acel"].fresh = file["cel"].fresh
  BY <1>3, <1>4, FileNames DEF Wrote
<1>6. /\ errcond = FALSE /\ Script \in {"route", "reroute"} /\ line # 2
      /\ {"route", "reroute"} \cap ran # {}
  BY <1>1, LaterFiles
<1>7. LineInv' /\ line' \in 1..9 /\ status' \in 0..2 /\ pc' = "routed" /\ line' = line
  BY <1>1, <1>2, <1>6, ContinueLine DEF Steps
<1>8. congested' \in BOOLEAN
  BY <1>1
<1>9. TypeOK'
  BY <1>1, <1>2, <1>4, <1>7, <1>8, TypeOKNext DEF ShellTypes, Steps
<1>10. RouteInv' /\ MagInv'
  BY <1>5, <1>7 DEF IInv, RouteInv, MagInv, Exists, Mtime, SameLayout
<1>11. ErrorInv' /\ BackupInv'
  BY <1>1, <1>6, <1>7 DEF ErrorInv, BackupInv
<1>12. FreshInv'
  <2>1. Current' => Current
    BY <1>1, <1>2, <1>4 DEF Current, ShellTypes
  <2>2. Current' => file'["acel"].fresh \/ file'["acel"].stamp < file'["cel"].stamp
    BY <1>1, <1>5, <2>1, LaterFiles
  <2>. QED  BY <1>1, <1>5, <1>6, <1>7, <2>1, <2>2, LaterFiles, ScriptEndsFresh
<1>. QED  BY <1>7, <1>9, <1>10, <1>11, <1>12 DEF IInv

LEMMA RouterEndIInv ==
  ASSUME IInv, RouterEnd
  PROVE  IInv'
<1>1. /\ pc = "routed" /\ Leave(0)
      /\ file' = IF Exists("route") THEN RouteMoved ELSE file
      /\ clock' = clock /\ cfg' = cfg /\ errcond' = errcond /\ ran' = ran /\ final' = final
      /\ failed' = failed /\ congested' = congested
  BY DEF RouterEnd
<1>2. /\ TypeOK /\ LineInv /\ ShellTypes /\ FilesAt(file, clock)
      /\ clock \in Nat \ {0} /\ clock <= MaxTime
      /\ file["route"].stamp \in Nat /\ file["mag"].stamp \in Nat
  BY <1>1, FileNames, ScriptFacts
<1>3. /\ \A x \in File \ {"def", "route"} : file'[x] = file[x]
      /\ file' \in [File -> Content]
      /\ \/ file' = file /\ file["route"].stamp = 0
         \/ /\ file["route"].stamp # 0 /\ file'["def"] = file["route"]
            /\ file'["route"] = NoFile
  BY <1>1, <1>2, FileNames, NoFileType DEF FilesAt, RouteMoved, Exists, Mtime
<1>4. FilesAt(file', clock)
  BY <1>2, <1>3, FileNames, NoFileType DEF FilesAt
<1>5. /\ file'["blif"] = file["blif"] /\ file'["cel"] = file["cel"]
      /\ file'["acel"] = file["acel"] /\ file'["unroute"] = file["unroute"]
      /\ file'["mag"] = file["mag"] /\ file'["route"].stamp = 0
  BY <1>3, FileNames, NoFileType
<1>6. LineInv' /\ line' \in 1..9 /\ status' \in 0..2 /\ pc' = "line"
  BY <1>1, <1>2, LeaveLine
<1>7. TypeOK'
  BY <1>1, <1>2, <1>4, <1>6, TypeOKNext DEF ShellTypes
<1>8. RouteInv' /\ MagInv'
  BY <1>2, <1>3, <1>5 DEF IInv, RouteInv, MagInv, Exists, Mtime, SameLayout
<1>9. ErrorInv' /\ BackupInv'
  BY <1>6 DEF ErrorInv, BackupInv, InPlacement, InRouter
<1>10. FreshInv'
  <2>1. Current' => Current
    BY <1>1 DEF Current
  <2>2. Current' => file'["def"].fresh
    BY <1>1, <1>3, <2>1, LaterFiles
  <2>. QED  BY <1>1, <1>5, <1>6, <2>1, <2>2, LaterFiles, ScriptEndsFresh
<1>. QED  BY <1>6, <1>7, <1>8, <1>9, <1>10 DEF IInv

LEMMA VestaIInv ==
  ASSUME IInv, Vesta
  PROVE  IInv'
<1>1. /\ pc = "sta" /\ Leave(0)
      /\ clock' = clock /\ file' = file /\ cfg' = cfg /\ errcond' = errcond /\ ran' = ran
      /\ final' = final /\ failed' = failed /\ congested' = congested
  BY DEF Vesta
<1>2. TypeOK /\ LineInv /\ ShellTypes /\ FilesAt(file, clock)
  BY <1>1, ScriptFacts
<1>3. LineInv' /\ line' \in 1..9 /\ status' \in 0..2 /\ pc' = "line"
  BY <1>1, <1>2, LeaveLine
<1>4. TypeOK'
  BY <1>1, <1>2, <1>3, TypeOKNext DEF ShellTypes
<1>5. RouteInv' /\ MagInv'
  BY <1>1, FileNames, OtherTool
<1>6. ErrorInv' /\ BackupInv'
  BY <1>3 DEF ErrorInv, BackupInv, InPlacement, InRouter
<1>7. FreshInv'
  <2>1. Current' => Current
    BY <1>1 DEF Current
  <2>. QED  BY <1>1, <1>3, <2>1, LaterFiles, ScriptEndsFresh
<1>. QED  BY <1>3, <1>4, <1>5, <1>6, <1>7 DEF IInv

LEMMA CleanupIInv ==
  ASSUME IInv, Cleanup
  PROVE  IInv'
<1>1. /\ pc = "cleanup" /\ cfg' = "none" /\ Leave(0)
      /\ file' = [file EXCEPT !["pin"] = NoFile, !["info"] = NoFile]
      /\ clock' = clock /\ errcond' = errcond /\ ran' = ran
      /\ final' = final /\ failed' = failed /\ congested' = congested
  BY DEF Cleanup
<1>2. /\ TypeOK /\ LineInv /\ ShellTypes /\ FilesAt(file, clock)
      /\ clock \in Nat
  BY <1>1, ScriptFacts
<1>3. /\ file' \in [File -> Content]
      /\ \A x \in File : file'[x] = file[x] \/ file'[x] = NoFile
      /\ file'["blif"] = file["blif"] /\ file'["cel"] = file["cel"]
      /\ file'["acel"] = file["acel"] /\ file'["unroute"] = file["unroute"]
      /\ file'["def"] = file["def"] /\ file'["mag"] = file["mag"]
      /\ file'["route"] = file["route"]
  BY <1>1, <1>2, FileNames, NoFileType DEF FilesAt
<1>4. FilesAt(file', clock)
  BY <1>2, <1>3, NoFileType DEF FilesAt
<1>5. LineInv' /\ line' \in 1..9 /\ status' \in 0..2 /\ pc' = "line"
  BY <1>1, <1>2, LeaveLine
<1>6. TypeOK'
  BY <1>1, <1>2, <1>4, <1>5, TypeOKNext DEF ShellTypes
<1>7. RouteInv' /\ MagInv'
  BY <1>1, <1>3 DEF IInv, RouteInv, MagInv, Exists, Mtime, SameLayout
<1>8. ErrorInv' /\ BackupInv'
  BY <1>5 DEF ErrorInv, BackupInv, InPlacement, InRouter
<1>9. FreshInv'
  <2>1. Current' => Current
    BY <1>1 DEF Current
  <2>. QED  BY <1>1, <1>3, <1>5, <2>1, LaterFiles, ScriptEndsFresh
<1>. QED  BY <1>5, <1>6, <1>7, <1>8, <1>9 DEF IInv

LEMMA DisplayIInv ==
  ASSUME IInv, Display
  PROVE  IInv'
<1>1. /\ pc = "display" /\ Leave(0)
      /\ Tool("mag", "def", file["def"]) \/ UNCHANGED <<file, failed>>
      /\ clock' = clock /\ cfg' = cfg /\ errcond' = errcond /\ ran' = ran
      /\ final' = final /\ congested' = congested
  BY DEF Display
<1>2. /\ TypeOK /\ LineInv /\ ShellTypes /\ FilesAt(file, clock) /\ file["def"] \in Content
  BY <1>1, FileNames, ScriptFacts
<1>3. /\ FilesAt(file', clock) /\ failed' \in BOOLEAN /\ (failed' = FALSE => failed = FALSE)
      /\ Wrote(file', "mag", file["def"]) \/ file' = file
  <2>1. CASE Tool("mag", "def", file["def"])
    BY <1>1, <1>2, <2>1, FileNames, ToolOutcome DEF ShellTypes
  <2>. QED  BY <1>1, <1>2, <2>1 DEF ShellTypes
<1>4. /\ file'["blif"] = file["blif"] /\ file'["cel"] = file["cel"]
      /\ file'["acel"] = file["acel"] /\ file'["unroute"] = file["unroute"]
      /\ file'["def"] = file["def"] /\ file'["route"] = file["route"]
  BY <1>3, FileNames DEF Wrote
<1>5. LineInv' /\ line' \in 1..9 /\ status' \in 0..2 /\ pc' = "line"
  BY <1>1, <1>2, LeaveLine
<1>6. TypeOK'
  BY <1>1, <1>2, <1>3, <1>5, TypeOKNext DEF ShellTypes
<1>7. RouteInv' /\ MagInv'
  BY <1>1, <1>3, <1>4 DEF IInv, RouteInv, MagInv, Exists, Mtime, SameLayout, Wrote
<1>8. ErrorInv' /\ BackupInv'
  BY <1>5 DEF ErrorInv, BackupInv, InPlacement, InRouter
<1>9. FreshInv'
  <2>1. Current' => Current
    BY <1>1, <1>2, <1>3 DEF Current, ShellTypes
  <2>. QED  BY <1>1, <1>4, <1>5, <2>1, LaterFiles, ScriptEndsFresh
<1>. QED  BY <1>5, <1>6, <1>7, <1>8, <1>9 DEF IInv

-----------------------------------------------------------------------------
LEMMA NextIInv ==
  ASSUME IInv, [Next]_vars
  PROVE  IInv'
<1>1. CASE Tick \/ EditSource \/ Run \/ Driver
  BY <1>1, TickIInv, EditSourceIInv, RunIInv, DriverIInv
<1>2. CASE Synthesize \/ Refuse \/ Vesta \/ Cleanup \/ Display
  BY <1>2, SynthesizeIInv, RefuseIInv, VestaIInv, CleanupIInv, DisplayIInv
<1>3. CASE Placement
  BY <1>3, Blif2celIInv, SelectCelIInv, GraywolfIInv, QrouterInfoIInv, Place2defIInv,
     PlacementEndIInv DEF Placement
<1>4. CASE Router
  BY <1>4, RouterStartIInv, QrouterIInv, DecongestIInv, RouterEndIInv DEF Router
<1>5. CASE UNCHANGED vars
  BY <1>5 DEF vars, IInv, TypeOK, LineInv, ErrorInv, BackupInv, RouteInv, MagInv, FreshInv,
      InPlacement, InRouter, InPlace, Current, Script, Exists, Mtime, SameLayout
<1>. QED  BY <1>1, <1>2, <1>3, <1>4, <1>5 DEF Next

LEMMA InitIInv ==
  ASSUME Init
  PROVE  IInv
<1>1. /\ clock = 0 /\ file = [f \in File |-> NoFile] /\ cfg = "none" /\ errcond = FALSE
      /\ line = 1 /\ ran = {} /\ pc = "idle" /\ final = FALSE /\ status = 0
      /\ failed = FALSE /\ congested = FALSE
  BY DEF Init
<1>2. FilesAt(file, clock)
  BY <1>1, NoFileType, MaxTimeAssumption DEF FilesAt
<1>3. ShellTypes
  <2>1. /\ clock \in 0..MaxTime /\ ran \subseteq Scripts /\ line \in 1..9 /\ status \in 0..2
        /\ pc \in {"idle", "line"} \cup Steps \cup Scripts
        /\ cfg \in {"none", "congestion", "standard"}
    BY <1>1, MaxTimeAssumption
  <2>2. final \in BOOLEAN /\ failed \in BOOLEAN /\ congested \in BOOLEAN /\ errcond \in BOOLEAN
    BY <1>1
  <2>. QED  BY <2>1, <2>2 DEF ShellTypes
<1>4. TypeOK
  BY <1>2, <1>3, TypeOKParts
<1>5. \A f \in File : file[f].stamp = 0
  BY <1>1, NoFileType
<1>6. LineInv /\ ErrorInv /\ BackupInv /\ RouteInv /\ MagInv /\ FreshInv
  BY <1>1, <1>5, FileNames, LineNames DEF LineInv, ErrorInv, BackupInv, RouteInv, MagInv,
     FreshInv, Current, InPlacement, InRouter, Exists, Mtime
<1>. QED  BY <1>4, <1>6 DEF IInv

(* The inductive invariant, for a clock that runs as long as it may.         *)
THEOREM Invariance == Spec => []IInv
BY InitIInv, NextIInv, PTL DEF Spec

(* Every variable keeps its type, and no file is ever from the future.       *)
THEOREM TypeCorrect == Spec => []TypeOK
BY Invariance, PTL DEF IInv

-----------------------------------------------------------------------------
(* From an error to the next good synthesis placement and routing leave       *)
(* their files alone.                                                         *)
THEOREM ErrorsBlock == Spec => ErrorBlocks
<1>. DEFINE Blocked == (pc # "idle" /\ errcond /\ errcond') =>
              \A f \in {"cel", "acel", "def", "unroute", "route", "cinfo"} : file'[f] = file[f]
<1>1. IInv /\ [Next]_vars => [Blocked]_vars
  <2>. SUFFICES ASSUME IInv, Next, pc # "idle", errcond, errcond',
                       NEW f \in {"cel", "acel", "def", "unroute", "route", "cinfo"}
                PROVE  file'[f] = file[f]
    OBVIOUS
  <2>1. ~InPlacement /\ ~InRouter
    BY DEF IInv, ErrorInv
  <2>2. CASE Tick \/ Driver \/ Refuse \/ Vesta
    BY <2>2 DEF Tick, Driver, SkipLine, StartLine, EndOfScript, Refuse, Vesta
  <2>3. CASE Synthesize
    <3>1. errcond' = FALSE \/ file' = file
      BY <2>3 DEF Synthesize
    <3>. QED  BY <3>1
  <2>4. ~EditSource /\ ~Run
    BY DEF EditSource, Run
  <2>5. ~Placement /\ ~Router
    BY <2>1 DEF Placement, Router, Blif2cel, SelectCel, Graywolf, QrouterInfo, Place2def,
       PlacementEnd, RouterStart, Qrouter, Decongest, RouterEnd, MayProceed, InPlacement, InRouter
  <2>6. CASE Cleanup
    <3>1. file \in [File -> Content] /\ f \in File \ {"pin", "info"}
      BY DEF IInv, TypeOK, File
    <3>. QED  BY <2>6, <3>1 DEF Cleanup
  <2>7. CASE Display
    <3>1. f \in File \ {"mag"} /\ pc = "display"
      BY <2>7 DEF Display, File
    <3>2. /\ file' = file \/ Tool("mag", "def", file["def"])
          /\ TypeOK /\ LineInv /\ file["def"] \in Content
      BY <2>7, <3>1, ScriptFacts, FileNames DEF Display
    <3>3. file' = file \/ Wrote(file', "mag", file["def"])
      BY <3>1, <3>2, ToolOutcome, FileNames
    <3>. QED  BY <3>1, <3>3 DEF Wrote
  <2>. QED  BY <2>2, <2>3, <2>4, <2>5, <2>6, <2>7 DEF Next
<1>. HIDE DEF Blocked
<1>2. Spec => [][Blocked]_vars
  BY <1>1, Invariance, PTL DEF Spec
<1>. QED  BY <1>2 DEF ErrorBlocks, Blocked

(* What placement keeps as the unrouted DEF file is one, while tools work.    *)
THEOREM BackupIsUnrouted == Spec => BackupStaysUnrouted
<1>. DEFINE Stays == (~file["unroute"].routed /\ ~failed) => ~file'["unroute"].routed
<1>1. IInv /\ [Next]_vars => [Stays]_vars
  <2>. SUFFICES ASSUME IInv, Next, ~file["unroute"].routed, ~failed
                PROVE  ~file'["unroute"].routed
    OBVIOUS
  <2>1. TypeOK /\ LineInv /\ file \in [File -> Content]
    BY DEF IInv, TypeOK
  <2>2. CASE Tick \/ Run \/ Driver \/ Refuse \/ Vesta
    BY <2>2 DEF Tick, Run, Driver, SkipLine, StartLine, EndOfScript, Refuse, Vesta
  <2>3. CASE EditSource
    BY <2>1, <2>3, FileNames DEF EditSource, Content
  <2>4. CASE PlacementEnd
    <3>1. pc = "unroute" /\ file' = Unrouted
      BY <2>4 DEF PlacementEnd
    <3>2. ~file["def"].routed
      BY <3>1 DEF IInv, BackupInv
    <3>3. FilesAt(file, clock) /\ clock \in Nat \ {0} /\ clock <= MaxTime
      BY <2>1, <3>1, ClockType
    <3>4. Wrote(Written("unroute", file["def"]), "unroute", file["def"])
      BY <2>1, <3>3, FileNames, WrittenFiles
    <3>. QED  BY <3>1, <3>2, <3>4 DEF Unrouted, Copied, Wrote
  <2>5. file'["unroute"] = file["unroute"] \/ Tick \/ Run \/ Driver \/ Refuse \/ Vesta
        \/ EditSource \/ PlacementEnd
    BY <2>1, FileNames, MaxTimeAssumption
       DEF Next, Placement, Router, Synthesize, Blif2cel, SelectCel, Graywolf, QrouterInfo,
           Place2def, RouterStart, Qrouter, Decongest, RouterEnd, Cleanup, Display, Tool,
           ToolFails, Written, Restored, Copied, RouteMoved
  <2>. QED  BY <2>2, <2>3, <2>4, <2>5
<1>. HIDE DEF Stays
<1>2. Spec => [][Stays]_vars
  BY <1>1, Invariance, PTL DEF Spec
<1>. QED  BY <1>2 DEF BackupStaysUnrouted, Stays

(* A run from synthesis to routing in which every tool works ends with a DEF  *)
(* file of the source as it is.                                               *)
THEOREM RunsAreCurrent == Spec => SuccessIsCurrent
<1>. DEFINE Ends == (/\ pc = "line" /\ pc' = "idle" /\ ~failed
                     /\ {"synthesize", "place", "route"} \subseteq ran)
                       => file["def"].fresh
<1>1. IInv /\ [Next]_vars => [Ends]_vars
  BY DEF IInv, FreshInv, Current, InPlace
<1>. HIDE DEF Ends
<1>2. Spec => [][Ends]_vars
  BY <1>1, Invariance, PTL DEF Spec
<1>. QED  BY <1>2 DEF SuccessIsCurrent, Ends

(* display.sh shows the layout of the DEF file.                               *)
THEOREM DisplayShowsDef == Spec => MagShowsDef
<1>. DEFINE Shows == (pc = "display" /\ pc' # pc /\ Exists("def") /\ ~failed')
                        => SameLayout(file'["mag"], file'["def"])
<1>1. IInv /\ [Next]_vars => [Shows]_vars
  <2>. SUFFICES ASSUME IInv, Next, pc = "display", pc' # pc, Exists("def"), ~failed'
                PROVE  SameLayout(file'["mag"], file'["def"])
    OBVIOUS
  <2>1. Display
    BY DEF Next, Tick, EditSource, Run, Driver, SkipLine, StartLine, EndOfScript, Synthesize,
       Refuse, Placement, Router, Blif2cel, SelectCel, Graywolf, QrouterInfo, Place2def,
       PlacementEnd, RouterStart, Qrouter, Decongest, RouterEnd, Vesta, Cleanup
  <2>2. TypeOK /\ LineInv /\ file["def"] \in Content
    BY ScriptFacts, FileNames
  <2>3. CASE MagIsNewer /\ file' = file
    BY <2>3 DEF IInv, MagInv, MagIsNewer, SameLayout
  <2>4. CASE Tool("mag", "def", file["def"])
    <3>1. Wrote(file', "mag", file["def"])
      BY <2>2, <2>4, ToolOutcome, FileNames
    <3>2. file'["def"] = file["def"]
      BY <3>1, FileNames DEF Wrote
    <3>. QED  BY <3>1, <3>2 DEF Wrote, SameLayout
  <2>. QED  BY <2>1, <2>3, <2>4 DEF Display
<1>. HIDE DEF Shows
<1>2. Spec => [][Shows]_vars
  BY <1>1, Invariance, PTL DEF Spec
<1>. QED  BY <1>2 DEF MagShowsDef, Shows
=============================================================================
