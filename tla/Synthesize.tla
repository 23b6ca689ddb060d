----------------------------- MODULE Synthesize -----------------------------
(***************************************************************************)
(* synthesize.sh: it finds the source files of the hierarchy by running     *)
(* yosys until it complains no more, synthesizes with the previous netlist  *)
(* put aside, and runs blifFanout until it reports nothing changed.         *)
(* The user may interrupt it anywhere and run it again on another source.   *)
(***************************************************************************)
EXTENDS Fanout, Sequences

CONSTANTS
  Module,      \* module names; the source file of m is m.v
  top,         \* the module to synthesize
  Garbled,     \* a module name that has lost its first character
  Sources,     \* the source directories the user may synthesize
  Netlists,    \* the netlists yosys may write
  MaxWeak,     \* bound: gates that need another size
  MaxReads     \* bound: files found before the user loses patience

\* Which modules have a file without errors, what it defines, what a module uses, and which modules
\* are used with a port that they do not have.
SourceTree ==
  [readable : SUBSET Module,
   file : [Module -> SUBSET Module],
   uses : [Module -> SUBSET Module],
   badPort : SUBSET Module]
NoSource == [readable |-> {}, file |-> [m \in Module |-> {}],
             uses |-> [m \in Module |-> {}],
             badPort |-> {}]

ASSUME ModuleAssumption == top \in Module /\ Garbled \notin Module
ASSUME SourcesAssumption == Sources \subseteq SourceTree
ASSUME NetlistsAssumption == \A n \in Netlists : IsNetlist(n)
ASSUME SynthesizeBounds == MaxWeak \in Nat /\ MaxReads \in Nat

VARIABLES
  source,         \* the source directory, during the search
  badLibrary,     \* blifFanout finds no gates or no buffer in the library
  uniquedeplist,  \* the files found to be needed, in order
  mapped, mapped_orig, mapped_tmp, blif,   \* the netlist files
  nets, weak,     \* what the .blif file holds: fanouts, gates of the wrong size
  sinks,          \* inputs that the netlist from yosys connects
  nchanged,       \* exit status of blifFanout
  errcond,        \* the last line of synth.log reports an error condition
  unnoticed,      \* a tool has failed that no test looks after
  pc

search == <<source, uniquedeplist>>
files == <<mapped, mapped_orig, mapped_tmp, blif>>
netlist == <<nets, weak, sinks, nchanged>>
vars == <<search, badLibrary, files, netlist, errcond,
          unnoticed, pc>>

\* A file comes from the source of this run, of an earlier one, or is empty.
Age == {"none", "empty", "old", "new"}
Aged(f) == IF f = "new" THEN "old" ELSE f

NoNets == [size \in {} |-> 0]
StatusRange == 256   \* of a process's exit status

Init ==
  /\ source = NoSource /\ badLibrary = FALSE /\ uniquedeplist = <<>>
  /\ mapped = "none" /\ mapped_orig = "none" /\ mapped_tmp = "none" /\ blif = "none"
  /\ nets = NoNets /\ weak = 0 /\ sinks = 0 /\ nchanged = 0
  /\ errcond = FALSE /\ unnoticed = FALSE /\ pc = "idle"

\* The log is reset.
Start ==
  /\ pc = "idle"
  /\ source' \in Sources
  /\ mapped' = Aged(mapped) /\ mapped_orig' = Aged(mapped_orig)
  /\ mapped_tmp' = Aged(mapped_tmp) /\ blif' = Aged(blif)
  /\ errcond' = FALSE /\ unnoticed' = FALSE
  /\ pc' = "hierarchy"
  /\ UNCHANGED <<uniquedeplist, badLibrary, netlist>>

\* What a stage leaves that no later stage looks at is reset.
SearchDone == source' = NoSource /\ uniquedeplist' = <<>>
End ==
  /\ pc' = "idle" /\ SearchDone /\ badLibrary' = FALSE
  /\ nets' = NoNets /\ weak' = 0 /\ sinks' = 0 /\ nchanged' = 0

-----------------------------------------------------------------------------
(* yosys reads the top file and those found so far, then checks that every   *)
(* module that is used has been read, with the ports that are used.          *)
Read == <<top>> \o uniquedeplist
Readable(f) == f \in source.readable
Contents(f) == IF Readable(f) THEN source.file[f] ELSE {}
Defined == UNION {Contents(Read[i]) : i \in DOMAIN Read}

Redefined_Ignored == FALSE
Redefined ==
  \E i, j \in DOMAIN Read : i < j /\ Contents(Read[i]) \cap Contents(Read[j]) # {}
ReadError == Redefined \/ \E i \in DOMAIN Read : ~Readable(Read[i])

Used == UNION {source.uses[m] : m \in Defined}
Missing == Used \ Defined
WrongPort == Used \cap Defined \cap source.badPort

\* yosys writes `\m' of a module it misses but `m' in its other complaints,
\* and the script cuts two characters off either.
NewDep == Missing \cup (IF WrongPort = {} THEN {} ELSE {Garbled})

FindDependency ==
  /\ pc = "hierarchy" /\ ~ReadError /\ Len(uniquedeplist) < MaxReads
  /\ \E newdep \in NewDep : uniquedeplist' = Append(uniquedeplist, newdep)
  /\ UNCHANGED <<source, badLibrary, files, netlist, errcond, unnoticed, pc>>

ErrorLine_Forgotten == FALSE
ErrorLine == TRUE
SourceError ==
  /\ pc = "hierarchy" /\ ReadError
  /\ errcond' = ErrorLine
  /\ End
  /\ UNCHANGED <<files, unnoticed>>

HierarchyFound ==
  /\ pc = "hierarchy" /\ ~ReadError /\ NewDep = {}
  /\ pc' = "backup" /\ SearchDone
  /\ UNCHANGED <<badLibrary, files, netlist, errcond,
                 unnoticed>>

-----------------------------------------------------------------------------
(* The synthesis itself.                                                     *)
Backup ==
  /\ pc = "backup"
  /\ IF mapped # "none" THEN mapped_orig' = mapped /\ mapped' = "none"
                        ELSE UNCHANGED <<mapped_orig, mapped>>
  /\ pc' = "yosys"
  /\ UNCHANGED <<search, badLibrary, mapped_tmp, blif, netlist,
                 errcond, unnoticed>>

Yosys ==
  /\ pc = "yosys"
  /\ mapped' \in {"none", "new"}
  /\ pc' = "mapped"
  /\ UNCHANGED <<search, badLibrary, mapped_orig, mapped_tmp, blif,
                 netlist, errcond, unnoticed>>

Restored_Removed == mapped
Restored == IF mapped_orig # "none" THEN mapped_orig ELSE mapped
CheckMapped ==
  /\ pc = "mapped"
  /\ mapped_orig' = "none"
  /\ IF mapped = "none"
       THEN mapped' = Restored /\ errcond' = ErrorLine /\ End
       ELSE /\ pc' = "postproc"
            /\ UNCHANGED <<search, badLibrary, mapped, netlist, errcond>>
  /\ UNCHANGED <<mapped_tmp, blif, unnoticed>>

\* ypostproc, ybuffer and sed.  None of them is checked; the last creates its
\* output even if it has no input.
MakeBlif ==
  /\ pc = "postproc"
  /\ \/ mapped_tmp' = mapped /\ UNCHANGED unnoticed
     \/ unnoticed' = TRUE /\ UNCHANGED mapped_tmp
  /\ blif' = IF mapped_tmp' = "none" THEN "empty" ELSE mapped_tmp'
  /\ nets' \in Netlists /\ weak' \in 0..MaxWeak /\ sinks' = Sinks(nets')
  /\ pc' \in {"fanout", "netlists"}   \* the latter with `nofanout'
  /\ badLibrary' \in BOOLEAN
  /\ UNCHANGED <<search, mapped, mapped_orig, nchanged,
                 errcond>>

-----------------------------------------------------------------------------
(* The loop around blifFanout, which opens its output before it looks at the *)
(* library, and whose exit status the shell reads as a byte.                 *)
Status(n) == n % StatusRange

MoreToChange_Many(n) == n > 1
MoreToChange(n) == n > 0

BlifFanout ==
  /\ pc = "fanout"
  /\ IF badLibrary
       THEN /\ nchanged' = Status(-1)
            /\ blif' = "empty" /\ nets' = NoNets /\ weak' = 0 /\ sinks' = 0
       ELSE /\ nchanged' = Status(weak + Buffer_count(nets))
            /\ nets' = Buffered(nets)
            /\ weak' \in IF weak + Buffer_count(nets) = 0 THEN {0} ELSE 0..MaxWeak
            /\ UNCHANGED <<blif, sinks>>
  /\ pc' = IF MoreToChange(nchanged') THEN "fanout" ELSE "netlists"
  /\ UNCHANGED <<search, badLibrary, mapped, mapped_orig, mapped_tmp,
                 errcond, unnoticed>>

\* blifFanout failed, or the Verilog and SPICE netlists are written: the shell
\* creates their files, so that the last check finds them.
FanoutFailed == nchanged < 0
WriteNetlists ==
  /\ pc = "netlists"
  /\ errcond' = (errcond \/ FanoutFailed)
  /\ End
  /\ UNCHANGED <<files, unnoticed>>

\* The user interrupts the script, during blifFanout with no netlist in place.
Interrupt ==
  /\ pc # "idle"
  /\ blif' \in IF pc = "fanout" THEN {blif, "none"} ELSE {blif}
  /\ End
  /\ UNCHANGED <<mapped, mapped_orig, mapped_tmp, errcond, unnoticed>>

-----------------------------------------------------------------------------
Hierarchy == FindDependency \/ SourceError \/ HierarchyFound
Synthesis == Backup \/ Yosys \/ CheckMapped \/ MakeBlif
Script == Hierarchy \/ Synthesis \/ BlifFanout \/ WriteNetlists
Next == Start \/ Script \/ Interrupt

Spec == Init /\ [][Next]_vars
\* A shell script that runs goes on running.  With the strengths that the
\* library offers, resizing gates comes to an end.
FairSpec == Spec /\ WF_vars(Script) /\ SF_vars(BlifFanout /\ weak' = 0)

-----------------------------------------------------------------------------
TypeOK ==
  /\ source \in SourceTree /\ badLibrary \in BOOLEAN
  /\ uniquedeplist \in Seq(Module \cup {Garbled})
  /\ {mapped, mapped_orig, mapped_tmp, blif} \subseteq Age
  /\ IsNetlist(nets) /\ weak \in 0..MaxWeak /\ sinks \in Int /\ nchanged \in 0..(StatusRange - 1)
  /\ errcond \in BOOLEAN /\ unnoticed \in BOOLEAN
  /\ pc \in {"idle", "hierarchy", "backup", "yosys", "mapped", "postproc",
             "fanout", "netlists"}

(* The previous netlist is put aside while yosys works: whatever fails, and  *)
(* wherever the script is interrupted, once there is a netlist one is kept.  *)
NetlistNeverLost ==
  [][(mapped # "none" \/ mapped_orig # "none")
       => (mapped' # "none" \/ mapped_orig' # "none")]_vars

(* Every way out of the script leaves either the error line that stops the   *)
(* later stages, or a netlist of the source that was to be synthesized.      *)
CleanLogMeansCurrent ==
  [][(Script /\ pc' = "idle" /\ ~unnoticed) => (errcond' \/ blif' = "new")]_vars

(* The script ends, however the files of the hierarchy refer to each other,  *)
(* as long as each defines some module and blifFanout can work.              *)
EachDefinesSome == \A m \in Module : source.file[m] # {}
ScriptEnds == (pc = "hierarchy" /\ EachDefinesSome) ~> (pc = "idle" \/ badLibrary)

(* The loop around blifFanout is left only when "all gates satisfy drive     *)
(* requirements", by strength and by fanout, or after a pass whose changes   *)
(* are a multiple of 256: as an exit status their number is 0.               *)
LooksLikeNone(n) == n > 0 /\ Status(n) = 0
FanoutConverged ==
  [][(pc = "fanout" /\ pc' = "netlists" /\ ~badLibrary)
       => \/ weak' = 0 /\ \A N \in Fanouts(nets') : ~TooLarge(N)
          \/ LooksLikeNone(weak + Buffer_count(nets))]_vars

(* Buffers are put between a driver and its inputs: in every pass each input *)
(* of the netlist from yosys stays connected, to exactly one net.            *)
SinksKept == Sinks(nets) = sinks

=============================================================================
