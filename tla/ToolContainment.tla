-------------------------- MODULE ToolContainment --------------------------
(***************************************************************************)
(* One evaluation-tool sidecar and the processes its commands make:        *)
(* execute_command and LinuxProcessContainment (src/eval_tools/            *)
(* execution.py) inside the sequential worker (worker.py).                 *)
(*                                                                         *)
(* The worker is PID 1 of the sidecar and a child subreaper: it inherits   *)
(* every orphan.  It finds what a command left behind by reading /proc,    *)
(* entry by entry, while processes fork, exit and start sessions, and      *)
(* passes over an entry it cannot decode: the name of a process is bytes   *)
(* of the process's choice, and execution.py reads them as UTF-8.  A       *)
(* process identity (PID and start time) is a PID until that PID is free.  *)
(*                                                                         *)
(* Signals are not state: a process may exit at any time here, signalled   *)
(* or not, and need not exit in the grace period.  Deadlines are choices.  *)
(***************************************************************************)
CONSTANTS Pids,      \* process identifiers of the sidecar, but for the worker's
          Garbling,  \* those whose process may take a name that does not decode
          Worker, NoPid

ASSUME ContainmentAssumption ==
  Worker \notin Pids /\ NoPid \notin Pids \cup {Worker} /\ Garbling \subseteq Pids

VARIABLES
  state,      \* of each PID: free, live or zombie
  parent,     \* of each PID that is not free
  group,      \* process group of the command
  mine,       \* the processes the command and its descendants made
  leader,     \* PID of the command while it is not reaped
  garbled,    \* processes whose name does not decode
  pc, why,    \* the worker, and what its reading of /proc is for
  unread,     \* entries listed and not read yet
  table,      \* PID -> PPID as read
  missed,     \* a reading passed over a process of a command that may still be
              \* there (no variable of the code: what the properties exempt)
  baseline,   \* processes that were there before the command
  round,      \* SIGTERM or SIGKILL
  timedOut, required,   \* of the reply
  left        \* the command left a running process when it ended

procVars == <<state, parent, group, mine, leader, garbled>>
scanVars == <<why, unread, table, missed>>
replyVars == <<timedOut, required, left>>
vars == <<procVars, pc, scanVars, baseline, round, replyVars>>

Used == {p \in Pids : state[p] # "free"}
Running(S) == {p \in S : state[p] = "live"}
Zombies == {p \in Pids : state[p] = "zombie"}

Capturing == pc \in {"list", "read"} /\ why = "capture"

\* A new process: an identity that the baseline has, or is about to have, is
\* never given out again.
Available ==
  {c \in Pids : state[c] = "free" /\ c \notin baseline /\ ~(Capturing /\ table[c] # NoPid)}

\* Start-up controls run without containment and may leave processes.
Init ==
  /\ state \in [Pids -> {"free", "live"}]
  /\ parent = [p \in Pids |-> Worker]
  /\ group = {} /\ mine = {} /\ leader = NoPid
  /\ garbled \in SUBSET (Used \cap Garbling)
  /\ missed = FALSE
  /\ pc = "idle" /\ why = "capture" /\ unread = {} /\ table = [p \in Pids |-> NoPid]
  /\ baseline = {} /\ round = "term"
  /\ timedOut = FALSE /\ required = FALSE /\ left = FALSE

-----------------------------------------------------------------------------
(* Processes of a command.  What start-up left behind is assumed not to    *)
(* fork or change its name any more.                                       *)

Fork(p) ==
  /\ p \in mine /\ state[p] = "live"
  /\ \E c \in Available :
       /\ state' = [state EXCEPT ![c] = "live"]
       /\ parent' = [parent EXCEPT ![c] = p]
       /\ group' = IF p \in group THEN group \cup {c} ELSE group
       /\ mine' = mine \cup {c}
       /\ garbled' = IF p \in garbled THEN garbled \cup ({c} \cap Garbling) ELSE garbled
  /\ UNCHANGED <<leader, pc, scanVars, baseline, round, replyVars>>

\* Mutant: the worker is no subreaper, so an orphan is nobody's child.
ExitUnadopted(p) ==
  /\ state[p] = "live"
  /\ state' = [state EXCEPT ![p] = "zombie"]
  /\ UNCHANGED <<parent, group, mine, leader, garbled, pc, scanVars, baseline, round, replyVars>>

\* An exit leaves a zombie to the parent and the children to the worker.
Exit(p) ==
  /\ state[p] = "live"
  /\ state' = [state EXCEPT ![p] = "zombie"]
  /\ parent' = [q \in Pids |-> IF parent[q] = p THEN Worker ELSE parent[q]]
  /\ UNCHANGED <<group, mine, leader, garbled, pc, scanVars, baseline, round, replyVars>>

\* Mutant: a process that was waited for is still counted.
FreeForgetful(S) ==
  /\ state' = [p \in Pids |-> IF p \in S THEN "free" ELSE state[p]]
  /\ parent' = [p \in Pids |-> IF p \in S THEN Worker ELSE parent[p]]
  /\ group' = group \ S /\ mine' = mine /\ garbled' = garbled \ S
  /\ leader' = IF leader \in S THEN NoPid ELSE leader

\* The zombies S are waited for: their PIDs are free.
Free(S) ==
  /\ state' = [p \in Pids |-> IF p \in S THEN "free" ELSE state[p]]
  /\ parent' = [p \in Pids |-> IF p \in S THEN Worker ELSE parent[p]]
  /\ group' = group \ S /\ mine' = mine \ S /\ garbled' = garbled \ S
  /\ leader' = IF leader \in S THEN NoPid ELSE leader

ParentWaits(p) ==
  /\ state[p] = "zombie" /\ parent[p] # Worker
  /\ Free({p})
  /\ UNCHANGED <<pc, scanVars, baseline, round, replyVars>>

\* setsid: out of the command's group.
NewSession(p) ==
  /\ state[p] = "live" /\ p \in group \ {leader}
  /\ group' = group \ {p}
  /\ UNCHANGED <<state, parent, mine, leader, garbled, pc, scanVars, baseline, round, replyVars>>

\* exec of another program or prctl(PR_SET_NAME): the name may not be UTF-8.
Rename(p) ==
  /\ state[p] = "live" /\ p \in mine \cap Garbling
  /\ garbled' = IF p \in garbled THEN garbled \ {p} ELSE garbled \cup {p}
  /\ UNCHANGED <<state, parent, group, mine, leader, pc, scanVars, baseline, round, replyVars>>

-----------------------------------------------------------------------------
(* Reading /proc                                                           *)

Scan(purpose) == pc' = "list" /\ why' = purpose

NothingRead == [p \in Pids |-> NoPid]

ListProc ==
  /\ pc = "list"
  /\ unread' = Used
  /\ pc' = "read"
  /\ UNCHANGED <<procVars, why, table, missed, baseline, round, replyVars>>

\* Mutant: a zombie is not read.
ReadLiveStat(p) ==
  /\ pc = "read" /\ p \in unread
  /\ unread' = unread \ {p}
  /\ table' = IF state[p] = "live" /\ p \notin garbled THEN [table EXCEPT ![p] = parent[p]]
                                                       ELSE table
  /\ missed' = (missed \/ p \in garbled \cap mine)
  /\ UNCHANGED <<procVars, pc, why, baseline, round, replyVars>>

\* An entry that is gone by now is passed over, and so is one whose text does
\* not decode (UnicodeDecodeError is a ValueError).
ReadStat(p) ==
  /\ pc = "read" /\ p \in unread
  /\ unread' = unread \ {p}
  /\ table' = IF p \in Used \ garbled THEN [table EXCEPT ![p] = parent[p]] ELSE table
  /\ missed' = (missed \/ p \in garbled \cap mine)
  /\ UNCHANGED <<procVars, pc, why, baseline, round, replyVars>>

\* The descendants of the worker according to the table: the smallest set
\* that has its children and the children of its members.
Closed(S) == \A p \in Pids : table[p] \in S \cup {Worker} => p \in S
Descendants == {p \in Pids : \A S \in SUBSET Pids : Closed(S) => p \in S}
Targets == Descendants \ baseline

\* A reading is complete; its table is not used twice.
Read(purpose) ==
  /\ pc = "read" /\ unread = {} /\ why = purpose
  /\ table' = NothingRead

-----------------------------------------------------------------------------
(* The worker: one request after the other                                 *)

Accept ==
  /\ pc = "idle"
  /\ Scan("capture")
  /\ timedOut' = FALSE /\ required' = FALSE /\ left' = FALSE
  /\ missed' = (missed /\ mine # {}) /\ baseline' = {} /\ round' = "term"
  /\ UNCHANGED <<procVars, unread, table>>

\* Mutant: zombies are not taken for processes that were there before.
CaptureLive ==
  /\ Read("capture")
  /\ baseline' = Running(Descendants)
  /\ pc' = "spawn"
  /\ UNCHANGED <<procVars, why, unread, missed, round, replyVars>>

Capture ==
  /\ Read("capture")
  /\ baseline' = Descendants
  /\ pc' = "spawn"
  /\ UNCHANGED <<procVars, why, unread, missed, round, replyVars>>

\* Popen with start_new_session, or an exception that the handler answers.
Spawn ==
  /\ pc = "spawn"
  /\ \/ \E c \in Available :
          /\ state' = [state EXCEPT ![c] = "live"]
          /\ parent' = [parent EXCEPT ![c] = Worker]
          /\ group' = {c} /\ mine' = mine \cup {c} /\ leader' = c
          /\ garbled' = garbled /\ pc' = "wait"
     \/ pc' = "idle" /\ UNCHANGED procVars
  /\ UNCHANGED <<scanVars, baseline, round, replyVars>>

GroupAlive == \E p \in group : state[p] # "free"

\* process.wait returned; what is left of the group has to be terminated.
CommandEnds ==
  /\ pc = "wait" /\ leader \in Zombies
  /\ Free({leader})
  /\ left' = (Running(mine) # {})
  /\ IF GroupAlive' THEN required' = TRUE /\ pc' = "terminate" /\ why' = why
                    ELSE required' = required /\ Scan("first")
  /\ UNCHANGED <<unread, table, missed, baseline, round, timedOut>>

CommandTimesOut ==
  /\ pc = "wait" /\ leader \notin Zombies
  /\ timedOut' = TRUE /\ pc' = "terminate"
  /\ UNCHANGED <<procVars, scanVars, baseline, round, required, left>>

\* _terminate_group: the leader is waited for, the group is polled.
ReapLeader ==
  /\ pc \in {"terminate", "again"}
  /\ leader \in Zombies
  /\ Free({leader})
  /\ UNCHANGED <<pc, scanVars, baseline, round, replyVars>>

\* The group is gone, or its last grace period is over.  A leader that is
\* still there (poll) is terminated a second time; after that nothing in the
\* code looks at the group or at the leader any more.
GroupTerminated ==
  /\ pc \in {"terminate", "again"}
  /\ leader \notin Zombies
  /\ IF pc = "terminate" /\ leader # NoPid
     THEN pc' = "again" /\ UNCHANGED <<why, group, leader>>
     ELSE Scan("first") /\ group' = {} /\ leader' = NoPid
  /\ UNCHANGED <<state, parent, mine, garbled, unread, table, missed, baseline, round, replyVars>>

\* Mutant: only the group's own survivors count as left behind.
FirstLookUnreported ==
  /\ Read("first")
  /\ IF Targets = {} THEN pc' = "answer" /\ UNCHANGED <<why, required>>
     ELSE Scan("signal") /\ required' = required
  /\ UNCHANGED <<procVars, unread, missed, baseline, round, timedOut, left>>

\* cleanup: nobody left, or SIGTERM.
FirstLook ==
  /\ Read("first")
  /\ IF Targets = {} THEN pc' = "answer" /\ UNCHANGED <<why, required>>
     ELSE Scan("signal") /\ required' = TRUE
  /\ UNCHANGED <<procVars, unread, missed, baseline, round, timedOut, left>>

\* _signal_until_gone: targets are signalled, and those that are the
\* worker's own children waited for.
SignalTargets ==
  /\ Read("signal")
  /\ IF Targets = {} THEN pc' = "answer" /\ UNCHANGED <<procVars, why>>
     ELSE Free({p \in Targets \cap Zombies : table[p] = Worker /\ parent[p] = Worker}) /\ Scan("look")
  /\ UNCHANGED <<unread, missed, baseline, round, replyVars>>

LookAgain ==
  /\ Read("look")
  /\ \/ Targets = {} /\ pc' = "answer" /\ why' = why
     \/ Targets # {} /\ Scan("signal")
  /\ UNCHANGED <<procVars, unread, missed, baseline, round, replyVars>>

\* Mutant: the last grace period starts again instead of ending the sidecar.
GiveUpNever ==
  /\ Read("look") /\ Targets # {}
  /\ round' = "kill" /\ Scan("signal")
  /\ UNCHANGED <<procVars, unread, missed, baseline, replyVars>>

\* The grace period is over with targets left: SIGKILL, and after that
\* os._exit(70), which ends PID 1 and with it every process.
GiveUp ==
  /\ Read("look") /\ Targets # {}
  /\ IF round = "term"
     THEN round' = "kill" /\ Scan("signal") /\ UNCHANGED procVars
     ELSE /\ pc' = "dead" /\ Free(Pids) /\ UNCHANGED <<why, round>>
  /\ UNCHANGED <<unread, missed, baseline, replyVars>>

Answer ==
  /\ pc = "answer"
  /\ pc' = "idle"
  /\ UNCHANGED <<procVars, scanVars, baseline, round, replyVars>>

-----------------------------------------------------------------------------
Environment ==
  \E p \in Pids : Fork(p) \/ Exit(p) \/ ParentWaits(p) \/ NewSession(p) \/ Rename(p)

WorkerNext ==
  \/ ListProc \/ \E p \in Pids : ReadStat(p)
  \/ Capture \/ Spawn \/ CommandEnds \/ CommandTimesOut \/ ReapLeader \/ GroupTerminated
  \/ FirstLook \/ SignalTargets \/ LookAgain \/ GiveUp \/ Answer

Next == Accept \/ WorkerNext \/ Environment

Spec == Init /\ [][Next]_vars

\* The worker keeps running, and the deadline of its loop passes.
FairSpec == Spec /\ WF_vars(WorkerNext) /\ SF_vars(GiveUp)

-----------------------------------------------------------------------------
(* Properties                                                              *)

\* Every variable has its type, in every reachable state of a sidecar.
TypeOK ==
  /\ state \in [Pids -> {"free", "live", "zombie"}]
  /\ parent \in [Pids -> Pids \cup {Worker}]
  /\ group \subseteq Pids /\ mine \subseteq Used /\ leader \in Pids \cup {NoPid}
  /\ garbled \subseteq Used \cap Garbling /\ missed \in BOOLEAN
  /\ pc \in {"idle", "list", "read", "spawn", "wait", "terminate", "again", "answer", "dead"}
  /\ why \in {"capture", "first", "signal", "look"}
  /\ unread \subseteq Pids /\ table \in [Pids -> Pids \cup {Worker, NoPid}]
  /\ baseline \subseteq Pids /\ round \in {"term", "kill"}
  /\ timedOut \in BOOLEAN /\ required \in BOOLEAN /\ left \in BOOLEAN

\* A reply is sent, and the next request accepted, only when no process of
\* the command is left: no fork, exit or new session between two reads of
\* /proc hides one from the cleanup.  One thing does: a name that does not
\* decode, when a reading comes across it.  A name that no reading came across
\* is no excuse, and one that was is none either once that process is gone.
AnsweredMeansGone == pc \in {"answer", "idle", "dead"} => mine = {} \/ missed

\* The cleanup acts on no process but the command's: one left by start-up is
\* never a target, alive or zombie, however stale the entry it was read from,
\* and whether or not the reading that took the baseline could decode it.
OnlyOwnTargets == pc = "read" /\ why # "capture" => Targets \cap Used \subseteq mine

\* A request ends: it is answered, or the sidecar is gone.
RequestEnds == pc = "wait" ~> pc \in {"idle", "dead"}

\* What a command leaves running is reported, although it may have left the
\* group, and may exit before or while the cleanup reads /proc; or a reading
\* passed over a process of the command.
LeftoverIsReported == pc = "answer" /\ left => required \/ missed

-----------------------------------------------------------------------------
Containing == pc \in {"list", "read"} /\ why # "capture"

\* The phase as the evaluation sees it.
Phase == CASE pc = "wait" -> "command"
           [] pc \in {"terminate", "again", "dead"} -> pc
           [] Containing -> "contain"
           [] pc = "answer" -> "drain"
           [] OTHER -> "idle"

Executing == Phase \notin {"idle", "dead"}

Sidecar == INSTANCE ToolSidecar WITH
             phase <- Phase, present <- mine # {},
             left <- left /\ Executing /\ pc # "answer",
             swept <- required /\ Executing, late <- timedOut /\ Executing,
             blind <- missed

\* The worker with its processes is a sidecar as EvalTools takes it to be:
\* whatever a command forks, and whenever, the phases in which its processes
\* exist end before the reply, which owns up to what was left and to a timeout,
\* but for processes that the reading of /proc cannot decode.
ImplementsSidecar == Sidecar!Spec
=============================================================================
