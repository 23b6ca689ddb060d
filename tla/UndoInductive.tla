--------------------------- MODULE UndoInductive ----------------------------
(***************************************************************************)
(* The inductive invariant behind the safety properties of Undo, in named  *)
(* parts.  Addresses grow along the log, so "the node after p" is the       *)
(* least node of the log above p: that turns reachability through pointers  *)
(* into a statement about a set of numbers.                                 *)
(***************************************************************************)
EXTENDS Undo

\* q is the node right after p in the log.
Adjacent(p, q) ==
  /\ p \in LogNodes /\ q \in LogNodes /\ p < q
  /\ \A r \in LogNodes : r <= p \/ q <= r

\* Links in the middle of being cut: after the cursor and before `up' while
\* truncating, before the head while old commands are freed.
ForwLinks ==
  \A p \in LogNodes :
    (p # undoLogTail /\ ~(pc = "truncate" /\ p = undoLogCur))
      => Adjacent(p, node[p].forw)
BackLinks ==
  \A p \in LogNodes :
    (p # undoLogHead /\ ~(pc = "truncate" /\ p = up))
      => Adjacent(node[p].back, p)

TailIsLast ==
  (LogNodes # {} /\ ~(pc = "truncate" /\ up = NULL)) =>
    /\ undoLogTail \in LogNodes /\ \A p \in LogNodes : p <= undoLogTail
    /\ pc # "flush" => node[undoLogTail].forw = NULL
HeadIsFirst ==
  (LogNodes # {} /\ ~(pc = "truncate" /\ undoLogCur = NULL)) =>
    /\ undoLogHead \in LogNodes /\ \A p \in LogNodes : undoLogHead <= p
    /\ pc \notin {"freeHead", "freeDelim"} => node[undoLogHead].back = NULL
EmptyLog ==
  /\ (LogNodes = {} /\ pc # "truncate") => undoLogHead = NULL /\ undoLogCur = NULL
  /\ pc \in {"freeHead", "freeDelim", "flush", "back", "forwTest", "forw",
             "forwBreak"} => LogNodes # {}

CursorPlace ==
  /\ pc # "flush" => undoLogCur \in LogNodes \cup {NULL}
  /\ (pc # "flush" /\ undoLogCur # NULL /\ undoLogCur # undoLogTail)
       => undoLogCur \in Delims
  /\ undoNumRecentEvents # 0 =>
       pc \in {"idle", "link", "flush"}
  /\ (undoNumRecentEvents # 0 /\ pc # "flush") =>
       undoLogCur # NULL /\ undoLogCur = undoLogTail /\ undoLogCur \in Events
  /\ (~tested /\ undoNumRecentEvents = 0 /\ LogNodes # {} /\ pc # "flush"
       /\ ~(pc = "truncate" /\ up = NULL))
       => undoLogTail \in Delims

TruncatePlace ==
  /\ pc \in {"truncate", "link"} =>
       /\ iup \in Alive /\ iup = lastNode /\ iup \notin world
       /\ node[iup] = [type |-> CLIENT, back |-> undoLogCur, forw |-> NULL]
       /\ UndoDisableCount = 0
  /\ pc = "truncate" =>
       /\ undoNumRecentEvents = 0
       /\ up \in LogNodes \cup {NULL} /\ (up # NULL => undoLogCur < up)
       /\ undoLogCur # NULL => undoLogCur \in Delims
       /\ \A p \in LogNodes : p <= undoLogCur \/ (up # NULL /\ up <= p)
       /\ up = NULL => undoLogTail \notin LogNodes
  /\ pc = "link" =>
       IF undoLogCur = NULL THEN LogNodes = {} ELSE undoLogCur = undoLogTail

FreeHeadPlace ==
  pc \in {"freeHead", "freeDelim"} =>
    /\ undoLogTail \in Delims /\ undoLogCur = undoLogTail
    /\ undoNumCommands >= LOWCOMMANDS
    /\ pc = "freeHead" => undoNumCommands > LOWCOMMANDS
    /\ pc = "freeDelim" => undoLogHead \in Delims

PlayPlace ==
  /\ Playing => n > 0 /\ UndoDisableCount > 0
  /\ pc \in {"back", "forwTest", "forw", "forwBreak"} => iup \in LogNodes
  /\ pc \in {"back", "forw"} => count < n
  /\ pc = "backTest" => iup \in LogNodes \cup {NULL}
  /\ (pc = "backTest" /\ iup # NULL /\ count > 0) => iup \in Delims
  /\ (pc = "forwTest" /\ count > 0) => iup \in Delims
  /\ pc = "backTest" /\ iup # NULL /\ iup # undoLogTail => iup \in Delims
  /\ pc = "forwBreak" => iup = undoLogTail

CountPlace ==
  /\ pc # "freeHead" => undoNumCommands <= MAXCOMMANDS
  /\ (pc \notin {"flush", "freeHead", "freeDelim"}
        /\ ~(pc = "truncate" /\ undoLogCur = NULL))
       => undoNumCommands = Cardinality(Delims)
  /\ pc \in {"freeHead", "freeDelim"}
       => undoNumCommands = Cardinality(Delims \ {undoLogHead})

\* No command is empty: neither the head nor a delimiter's successor is one.
NoEmptyCommand ==
  /\ pc \notin {"freeHead", "freeDelim"} => undoLogHead \notin Delims
  /\ \A d \in Delims : (d # undoLogHead /\ ~(pc = "truncate" /\ d = up))
                          => node[d].back \notin Delims

\* Forgotten events are older than the log.
ForgottenIsOlder ==
  pc # "flush" => \A e \in world \ Events : \A p \in LogNodes : e < p

IInv ==
  /\ TypeOK /\ ForwLinks /\ BackLinks /\ TailIsLast /\ HeadIsFirst /\ EmptyLog
  /\ CursorPlace /\ TruncatePlace /\ FreeHeadPlace /\ PlayPlace /\ CountPlace
  /\ NoEmptyCommand /\ LayoutMatchesLog /\ ForgottenIsOlder

=============================================================================
