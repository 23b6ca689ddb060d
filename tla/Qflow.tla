------------------------------- MODULE Qflow --------------------------------
(***************************************************************************)
(* The qflow driver: qflow_exec.sh, which qflow.sh writes, runs one script *)
(* per line and stops at the first that fails.  The scripts pass their      *)
(* results on as files, and judge what has to be done, and whether a tool   *)
(* worked, by the files' existence and modification times.                  *)
(*                                                                         *)
(* Of a file's content the model keeps what the properties tell apart:      *)
(* whether it comes from the Verilog source as it is now, whether the cells *)
(* are spread by congestion fill, and whether every net is routed.          *)
(***************************************************************************)
EXTENDS Integers

CONSTANT MaxTime   \* bound: seconds on the clock

ASSUME MaxTimeAssumption == MaxTime \in Nat \ {0}

VARIABLES
  clock,       \* the time, in seconds
  file,        \* the project's files; cfg below is the one left out
  cfg,         \* how the .cfg file tells qrouter to route
  errcond,     \* the last line of synth.log reports an error condition
  line,        \* the line qflow_exec.sh is at
  ran,         \* the lines whose scripts this run has started
  pc,          \* the step of that line's script; "line" between scripts
  final,       \* placement.sh's variable of this name
  status,      \* exit status of the script that ran last
  failed,      \* some tool of this run has ended without writing its file
  congested    \* the router of this run passed congestion back

vars == <<clock, file, cfg, errcond, line, ran, pc, final, status, failed,
          congested>>

File == {"blif", "cel", "acel", "pin", "info", "def", "unroute", "route",
         "cinfo", "mag"}
Content == [stamp : 0..MaxTime, fresh : BOOLEAN, spread : BOOLEAN,
            routed : BOOLEAN]
NoFile == [stamp |-> 0, fresh |-> FALSE, spread |-> FALSE, routed |-> FALSE]

\* qflow_exec.sh; `decongest' stands for two of its lines.
Lines == <<"synthesize", "place", "sta", "route", "final", "reroute",
           "cleanup", "display">>
Line(s) == CHOOSE l \in 1..8 : Lines[l] = s
Script == Lines[line]

\* tcsh: -f, and -M, which of a missing file gives no time after the epoch.
Exists(f) == file[f].stamp # 0
Mtime(f) == file[f].stamp

\* The test after each tool: "Did it produce its file?"
SpotCheck(out, in) == Exists(out) \/ Mtime(out) < Mtime(in)

Init ==
  /\ clock = 0 /\ file = [f \in File |-> NoFile] /\ cfg = "none"
  /\ errcond = FALSE /\ line = 1 /\ ran = {} /\ pc = "idle"
  /\ final = FALSE /\ status = 0 /\ failed = FALSE /\ congested = FALSE

-----------------------------------------------------------------------------
(* A second passes, or the user edits the source between two runs.          *)
Tick ==
  /\ pc # "idle" /\ clock < MaxTime
  /\ clock' = clock + 1
  /\ UNCHANGED <<file, cfg, errcond, line, ran, pc, final, status, failed,
                 congested>>

EditSource ==
  /\ pc = "idle"
  /\ file' = [f \in File |-> [file[f] EXCEPT !.fresh = FALSE]]
  /\ UNCHANGED <<clock, cfg, errcond, line, ran, pc, final, status, failed,
                 congested>>

\* qflow writes qflow_exec.sh and runs it.  The user needs at least a second
\* between two runs.
Run ==
  /\ pc = "idle" /\ clock < MaxTime
  /\ clock' = clock + 1 /\ line' = 1 /\ ran' = {} /\ pc' = "line"
  /\ final' = FALSE /\ status' = 0 /\ failed' = FALSE /\ congested' = FALSE
  /\ UNCHANGED <<file, cfg, errcond>>

\* The user chose any of the lines, but the two of `decongest' together.  The
\* others are commented out, which shows when the shell comes to them.
MayBeChosen == Script = "reroute" => "final" \in ran
MayBeCommentedOut == Script = "reroute" => "final" \notin ran
SkipLine ==
  /\ pc = "line" /\ line <= 8 /\ MayBeCommentedOut
  /\ line' = line + 1
  /\ UNCHANGED <<clock, file, cfg, errcond, ran, pc, final, status, failed,
                 congested>>
StartLine ==
  /\ pc = "line" /\ line <= 8 /\ MayBeChosen
  /\ pc' = Script /\ ran' = ran \cup {Script} /\ final' = (Script = "final")
  /\ UNCHANGED <<clock, file, cfg, errcond, line, status, failed, congested>>
EndOfScript ==
  /\ pc = "line" /\ line = 9
  /\ pc' = "idle"
  /\ UNCHANGED <<clock, file, cfg, errcond, line, ran, final, status, failed,
                 congested>>

\* The script exits with status s: `|| exit 1' ends the run if s is not 0.
Leave(s) ==
  /\ status' = s
  /\ IF s = 0 THEN pc' = "line" /\ line' = line + 1
              ELSE pc' = "idle" /\ line' = line
Continue(step) == pc' = step /\ UNCHANGED <<line, status>>

\* A tool writes f with content c, if it works; without its input it cannot.
Written(f, c) == [file EXCEPT ![f] = [c EXCEPT !.stamp = clock]]
ToolFails == failed' = TRUE /\ UNCHANGED file
Tool(f, input, c) ==
  \/ /\ Exists(input)
     /\ file' = Written(f, c) /\ UNCHANGED failed
  \/ ToolFails

\* The script goes on to the next step, or logs the error condition.
GoOnIf(check, step) ==
  IF check THEN Continue(step) /\ UNCHANGED errcond
           ELSE Leave(1) /\ errcond' = TRUE

MayProceed_Always == TRUE
MayProceed == ~errcond

-----------------------------------------------------------------------------
(* synthesize.sh resets the log.  It fails on Verilog with errors, and then *)
(* leaves the netlist alone.                                                *)
Synthesize ==
  /\ pc = "synthesize"
  /\ \/ /\ file' = Written("blif", [NoFile EXCEPT !.fresh = TRUE])
        /\ errcond' = FALSE /\ Leave(0)
     \/ errcond' = TRUE /\ Leave(1) /\ UNCHANGED file
  /\ UNCHANGED <<clock, cfg, ran, final, failed, congested>>

\* placement.sh, router.sh and vesta.sh refuse to run after an error.
Refuse ==
  /\ pc \in {"place", "final", "route", "reroute", "sta"} /\ ~MayProceed
  /\ Leave(1)
  /\ UNCHANGED <<clock, file, cfg, errcond, ran, final, failed, congested>>

\* The .blif file this test names is in another directory, so it is missing.
Blif2cel ==
  /\ pc \in {"place", "final"} /\ MayProceed
  /\ Tool("cel", "blif", file["blif"])
  /\ GoOnIf(Exists("cel")', "acel")
  /\ UNCHANGED <<clock, cfg, ran, final, congested>>

AcelIsNewer_Exists == Exists("acel")
AcelIsNewer == Exists("acel") /\ Mtime("acel") >= Mtime("cel")

NothingToSpread == ~AcelIsNewer /\ final

\* placement.sh with -f stops here unless congestion was passed back.
SelectCel ==
  /\ pc = "acel"
  /\ \/ /\ AcelIsNewer
        /\ file' = [file EXCEPT !["cel"] = file["acel"], !["acel"] = NoFile]
        /\ final' = TRUE /\ Continue("graywolf")
     \/ NothingToSpread /\ Leave(2) /\ UNCHANGED <<file, final>>
     \/ /\ ~AcelIsNewer /\ ~NothingToSpread
        /\ Continue("graywolf") /\ UNCHANGED <<file, final>>
  /\ UNCHANGED <<clock, cfg, errcond, ran, failed, congested>>

Graywolf ==
  /\ pc = "graywolf"
  /\ Tool("pin", "cel", file["cel"])
  /\ GoOnIf(SpotCheck("pin", "cel")', "info")
  /\ UNCHANGED <<clock, cfg, ran, final, congested>>

QrouterInfo ==
  /\ pc = "info"
  /\ Tool("info", "cel", NoFile)
  /\ GoOnIf(SpotCheck("info", "pin")', "place2def")
  /\ UNCHANGED <<clock, cfg, ran, final, congested>>

Place2def ==
  /\ pc = "place2def"
  /\ Tool("def", "pin", [file["pin"] EXCEPT !.routed = FALSE])
  /\ GoOnIf(SpotCheck("def", "pin")', "unroute")
  /\ UNCHANGED <<clock, cfg, ran, final, congested>>

\* cp copies nothing if the file is missing.
Copied(from, to) ==
  IF Exists(from) THEN Written(to, file[from]) ELSE file
Unrouted == Copied("def", "unroute")

RouteMode == IF final THEN "standard" ELSE "congestion"
PlacementEnd ==
  /\ pc = "unroute"
  /\ file' = Unrouted
  /\ cfg' = RouteMode
  /\ Leave(0)
  /\ UNCHANGED <<clock, errcond, ran, final, failed, congested>>

-----------------------------------------------------------------------------
(* router.sh.  No line of qflow_exec.sh passes it a status as argument.     *)
Restored_Swapped == Copied("def", "unroute")
Restored == Copied("unroute", "def")
RouterStart ==
  /\ pc \in {"route", "reroute"} /\ MayProceed
  /\ file' = Restored
  /\ Continue("qrouter")
  /\ UNCHANGED <<clock, cfg, errcond, ran, final, failed, congested>>

\* qrouter writes the routed DEF, with nets left open when it fails to route
\* them all.  Told to report congestion it may write where that is, with or
\* without the nets it did route.
RoutedBy(complete) == [file["def"] EXCEPT !.routed = complete, !.stamp = clock]
Congestion == [NoFile EXCEPT !.stamp = clock]
Qrouter ==
  /\ pc = "qrouter"
  /\ \/ /\ Exists("def") /\ cfg # "none"
        /\ \E complete \in BOOLEAN :
             file' = [file EXCEPT !["route"] = RoutedBy(complete)]
        /\ UNCHANGED failed
     \/ /\ Exists("def") /\ cfg = "congestion"
        /\ \E partial \in {{}, {"route"}} :
             file' = [f \in File |-> IF f = "cinfo" THEN Congestion
                                      ELSE IF f \in partial THEN RoutedBy(FALSE)
                                      ELSE file[f]]
        /\ UNCHANGED failed
     \/ ToolFails
  /\ GoOnIf(SpotCheck("route", "def")', "decongest")
  /\ UNCHANGED <<clock, cfg, ran, final, congested>>

CinfoIsNewer == Exists("cinfo") /\ Mtime("cinfo") > Mtime("def")
\* With fresh congestion information decongest.tcl annotates the .cel file.
Decongest ==
  /\ pc = "decongest"
  /\ IF CinfoIsNewer
       THEN Tool("acel", "cel", [file["cel"] EXCEPT !.spread = TRUE])
       ELSE UNCHANGED <<file, failed>>
  /\ congested' = (congested \/ file' # file)
  /\ Continue("routed")
  /\ UNCHANGED <<clock, cfg, errcond, ran, final>>

RouteMoved == [file EXCEPT !["def"] = file["route"], !["route"] = NoFile]
RouterEnd ==
  /\ pc = "routed"
  /\ file' = IF Exists("route") THEN RouteMoved ELSE file
  /\ Leave(0)
  /\ UNCHANGED <<clock, cfg, errcond, ran, final, failed, congested>>

-----------------------------------------------------------------------------
\* vesta.sh writes no file, and the timing report does not decide its status.
Vesta ==
  /\ pc = "sta" /\ MayProceed /\ Leave(0)
  /\ UNCHANGED <<clock, file, cfg, errcond, ran, final, failed, congested>>

Cleanup ==
  /\ pc = "cleanup"
  /\ file' = [file EXCEPT !["pin"] = NoFile, !["info"] = NoFile]
  /\ cfg' = "none"
  /\ Leave(0)
  /\ UNCHANGED <<clock, errcond, ran, final, failed, congested>>

MagIsNewer_Exists == Exists("def") /\ Exists("mag")
MagIsNewer == Exists("def") /\ Exists("mag") /\ Mtime("mag") > Mtime("def")
\* display.sh keeps a .mag file that is more recent than the DEF file.
Display ==
  /\ pc = "display"
  /\ IF MagIsNewer THEN UNCHANGED <<file, failed>>
                   ELSE Tool("mag", "def", file["def"])
  /\ Leave(0)
  /\ UNCHANGED <<clock, cfg, errcond, ran, final, congested>>

-----------------------------------------------------------------------------
Driver == SkipLine \/ StartLine \/ EndOfScript
Placement == Blif2cel \/ SelectCel \/ Graywolf \/ QrouterInfo \/ Place2def \/ PlacementEnd
Router == RouterStart \/ Qrouter \/ Decongest \/ RouterEnd

Next ==
  \/ Tick \/ EditSource \/ Run
  \/ Driver \/ Synthesize \/ Refuse \/ Placement \/ Router
  \/ Vesta \/ Cleanup \/ Display

Spec == Init /\ [][Next]_vars

-----------------------------------------------------------------------------
TypeOK ==
  /\ clock \in 0..MaxTime
  /\ file \in [File -> Content]
  /\ \A f \in File : Mtime(f) <= clock /\ (~Exists(f) => file[f] = NoFile)
  /\ cfg \in {"none", "congestion", "standard"}
  /\ errcond \in BOOLEAN /\ final \in BOOLEAN /\ congested \in BOOLEAN
  /\ ran \subseteq {Lines[l] : l \in 1..8}
  /\ line \in 1..9 /\ status \in 0..2
  /\ pc \in {"idle", "line", "acel", "graywolf", "info", "place2def", "unroute",
             "qrouter", "decongest", "routed"} \cup {Lines[l] : l \in 1..8}
  /\ failed \in BOOLEAN

(* "Placement will not proceed until error condition is cleared": from a    *)
(* failed stage to the next good synthesis nothing that placement or the    *)
(* router writes is touched, over any number of runs.                       *)
ErrorBlocks ==
  [][(pc # "idle" /\ errcond /\ errcond') =>
       \A f \in {"cel", "acel", "def", "unroute", "route", "cinfo"} :
         file'[f] = file[f]]_vars

(* A run from synthesis to routing in which no tool fails leaves a DEF file  *)
(* made from the source as it is, whatever earlier runs left.               *)
SuccessIsCurrent ==
  [][(/\ pc = "line" /\ pc' = "idle" /\ ~failed
      /\ {"synthesize", "place", "route"} \subseteq ran)
       => file["def"].fresh]_vars

(* While the tools of a run work, the backup that every routing starts from *)
(* does not become a routed DEF file, whatever is run in whatever order.    *)
BackupStaysUnrouted ==
  [][(~file["unroute"].routed /\ ~failed) => ~file'["unroute"].routed]_vars

(* After display.sh the layout shown is the DEF file's, though an existing  *)
(* .mag file is kept on the evidence of its time alone.                     *)
SameLayout(f, g) == f.fresh = g.fresh /\ f.spread = g.spread /\ f.routed = g.routed
MagShowsDef ==
  [][(pc = "display" /\ pc' # pc /\ Exists("def") /\ ~failed')
       => SameLayout(file'["mag"], file'["def"])]_vars

=============================================================================
