----------------------- MODULE ToolContainmentProofs -----------------------
(***************************************************************************)
(* Proofs about ToolContainment: whatever a command forks, and whenever,   *)
(* the reply is sent only when all of it is gone.                          *)
(*                                                                         *)
(* The argument: the processes of a command form a forest whose roots are  *)
(* children of the worker (Family, Rooted).  A root stays a root until the *)
(* worker itself waits for it, and the worker reads /proc and waits for    *)
(* children by turns: so every reading finds a root (RootSeen), and a      *)
(* reading that finds nobody proves that nobody is left, unless it passed  *)
(* over a process of the command (missed): then the root may be that one.  *)
(***************************************************************************)
EXTENDS ToolContainment, TLAPS

USE ContainmentAssumption

Family ==
  /\ \A p \in mine : parent[p] # Worker => parent[p] \in mine /\ state[parent[p]] = "live"
  /\ \A p \in Pids \ mine : parent[p] = Worker
  /\ leader # NoPid => leader \in mine

Rooted == \A S \in SUBSET mine : S # {} => \E d \in S : parent[d] \notin S

NoCommand ==
  pc \in {"idle", "spawn", "answer", "dead"} \/ Capturing => mine = {} \/ missed

\* What start-up left behind.
Strangers == Used \ mine

\* Of these, one that does not decode is in no table, ...
Hidden == \A p \in Strangers \cap garbled : table[p] = NoPid

\* ... and every other one is in the table that becomes the baseline.
CaptureSees ==
  pc = "read" /\ why = "capture" =>
    \A p \in Strangers \ garbled : p \in unread \/ table[p] = Worker

Parted ==
  pc \notin {"idle", "dead"} /\ ~Capturing =>
    Strangers \ garbled \subseteq baseline /\ (baseline \cap mine = {} \/ missed)

RootSeen ==
  pc = "read" /\ why # "capture" /\ mine # {} =>
    \/ missed
    \/ \E d \in mine : parent[d] = Worker /\ (d \in unread \/ table[d] = Worker)

IInv == TypeOK /\ Family /\ Rooted /\ NoCommand /\ Hidden /\ CaptureSees /\ Parted /\ RootSeen

-----------------------------------------------------------------------------
(* Lemmas                                                                  *)

\* Zombies that are waited for leave the forest as it was without them.
LEMMA FreeKeeps ==
  ASSUME TypeOK, Family, Rooted, NEW S \in SUBSET Zombies, Free(S)
  PROVE  /\ Family' /\ Rooted'
         /\ state' \in [Pids -> {"free", "live", "zombie"}]
         /\ parent' \in [Pids -> Pids \cup {Worker}]
         /\ group' \subseteq Pids /\ leader' \in Pids \cup {NoPid}
         /\ mine' = mine \ S /\ Used' = Used \ S /\ garbled' = garbled \ S
         /\ \A p \in Pids \ S : state'[p] = state[p] /\ parent'[p] = parent[p]
<1>1. /\ S \subseteq Pids /\ mine' = mine \ S /\ group' = group \ S
      /\ garbled' = garbled \ S
      /\ \A p \in S : state[p] = "zombie"
  BY DEF Free, Zombies
<1>2. \A p \in Pids : state'[p] = IF p \in S THEN "free" ELSE state[p]
  BY DEF Free
<1>3. \A p \in Pids : parent'[p] = IF p \in S THEN Worker ELSE parent[p]
  BY DEF Free
<1>4. leader' = IF leader \in S THEN NoPid ELSE leader
  BY DEF Free
<1>5. /\ state' \in [Pids -> {"free", "live", "zombie"}]
      /\ parent' \in [Pids -> Pids \cup {Worker}]
  BY DEF Free, TypeOK
<1>6. mine \subseteq Pids /\ group \subseteq Pids /\ leader \in Pids \cup {NoPid}
  BY DEF TypeOK, Used
<1>7. Used' = Used \ S
  BY <1>1, <1>2 DEF Used
<1>8. Family'
  <2>1. ASSUME NEW p \in mine', parent'[p] # Worker
        PROVE  parent'[p] \in mine' /\ state'[parent'[p]] = "live"
    <3>1. p \in mine /\ p \notin S /\ parent'[p] = parent[p]
      BY <1>1, <1>3, <1>6, <2>1
    <3>2. parent[p] \in mine /\ state[parent[p]] = "live"
      BY <2>1, <3>1 DEF Family
    <3>3. parent[p] \notin S
      BY <1>1, <3>2
    <3> QED BY <1>1, <1>2, <1>6, <3>1, <3>2, <3>3
  <2>2. \A p \in Pids \ mine' : parent'[p] = Worker
    BY <1>1, <1>3 DEF Family
  <2>3. leader' # NoPid => leader' \in mine'
    BY <1>1, <1>4 DEF Family
  <2> QED BY <2>1, <2>2, <2>3 DEF Family
<1>9. Rooted'
  <2> SUFFICES ASSUME NEW T \in SUBSET mine', T # {}
               PROVE  \E d \in T : parent'[d] \notin T
    BY DEF Rooted
  <2>1. T \in SUBSET mine
    BY <1>1
  <2>2. PICK d \in T : parent[d] \notin T
    BY <2>1 DEF Rooted
  <2>3. parent'[d] = parent[d]
    BY <1>1, <1>3, <1>6
  <2> QED BY <2>2, <2>3
<1> QED BY <1>1, <1>2, <1>3, <1>4, <1>5, <1>6, <1>7, <1>8, <1>9

\* What does not change for strangers when some processes are waited for.
LEMMA StrangersFreed ==
  ASSUME NEW S, mine' = mine \ S, Used' = Used \ S, garbled' = garbled \ S
  PROVE  /\ Strangers' \subseteq Strangers
         /\ Strangers' \ garbled' \subseteq Strangers \ garbled
         /\ Strangers' \cap garbled' \subseteq Strangers \cap garbled
BY DEF Strangers

\* A process whose parent was read as the worker is found.
LEMMA ChildrenFound ==
  ASSUME NEW d \in Pids, table[d] = Worker
  PROVE  d \in Descendants
BY DEF Descendants, Closed

\* A command that still runs has a process that is the worker's own child.
LEMMA SomeRoot ==
  ASSUME TypeOK, Family, Rooted, mine # {}
  PROVE  \E d \in mine : parent[d] = Worker
<1>1. PICK d \in mine : parent[d] \notin mine
  BY DEF Rooted
<1> QED BY <1>1 DEF Family

\* A reading that leaves no target leaves no process.
LEMMA NobodyLeft ==
  ASSUME IInv, pc = "read", unread = {}, why # "capture", Targets = {}
  PROVE  mine = {} \/ missed
<1> SUFFICES ASSUME mine # {}, ~missed
             PROVE  FALSE
  OBVIOUS
<1>1. PICK d \in mine : parent[d] = Worker /\ (d \in unread \/ table[d] = Worker)
  BY DEF IInv, RootSeen
<1>2. d \in Pids
  BY DEF IInv, TypeOK, Used
<1>3. d \in Descendants
  BY <1>1, <1>2, ChildrenFound
<1>4. d \notin baseline
  BY <1>1 DEF IInv, Parted, Capturing
<1> QED BY <1>3, <1>4 DEF Targets

-----------------------------------------------------------------------------
(* The invariant                                                           *)

LEMMA InvInit == Init => IInv
<1> SUFFICES ASSUME Init
             PROVE  IInv
  OBVIOUS
<1>1. TypeOK
  BY DEF Init, TypeOK, Used
<1> QED BY <1>1
    DEF Init, IInv, Family, Rooted, NoCommand, Capturing, Hidden, CaptureSees, Parted, RootSeen

\* What a command does leaves the worker's part of the state alone.
LEMMA ForkStep ==
  ASSUME IInv, NEW p \in Pids, Fork(p)
  PROVE  IInv'
<1>1. PICK c \in Available :
        /\ state' = [state EXCEPT ![c] = "live"]
        /\ parent' = [parent EXCEPT ![c] = p]
        /\ group' = IF p \in group THEN group \cup {c} ELSE group
        /\ mine' = mine \cup {c}
        /\ garbled' = IF p \in garbled THEN garbled \cup ({c} \cap Garbling) ELSE garbled
  BY Zenon DEF Fork
<1>2. /\ p \in mine /\ state[p] = "live"
      /\ UNCHANGED <<leader, pc, why, unread, table, missed, baseline, round,
                     timedOut, required, left>>
  BY DEF Fork, scanVars, replyVars
<1>3. TypeOK /\ Family /\ Rooted /\ NoCommand /\ Hidden /\ CaptureSees /\ Parted /\ RootSeen
  BY DEF IInv
<1>0. c \in Pids /\ state[c] = "free" /\ c \notin baseline
  BY DEF Available
<1>4. c \notin mine /\ p # c /\ c \notin Used
  BY <1>0, <1>2, <1>3 DEF TypeOK, Used
<1>5. /\ \A q \in Pids : state'[q] = IF q = c THEN "live" ELSE state[q]
      /\ \A q \in Pids : parent'[q] = IF q = c THEN p ELSE parent[q]
  BY <1>0, <1>1, <1>3 DEF TypeOK
<1>6. Used' = Used \cup {c} /\ mine \subseteq Pids
  BY <1>0, <1>3, <1>5 DEF Used, TypeOK
<1>13. /\ Strangers' = Strangers
       /\ Strangers' \cap garbled' = Strangers \cap garbled
       /\ Strangers' \ garbled' = Strangers \ garbled
  BY <1>1, <1>4, <1>6 DEF Strangers
<1>7. TypeOK'
  BY <1>0, <1>1, <1>2, <1>3, <1>6 DEF TypeOK
<1>8. Family'
  BY <1>0, <1>1, <1>2, <1>3, <1>4, <1>5, <1>6 DEF Family
<1>9. Rooted'
  <2> SUFFICES ASSUME NEW S \in SUBSET mine', S # {}
               PROVE  \E d \in S : parent'[d] \notin S
    BY DEF Rooted
  <2>1. CASE S = {c}
    BY <2>1, <1>0, <1>4, <1>5
  <2>2. CASE S # {c}
    <3>1. S \ {c} \in SUBSET mine /\ S \ {c} # {}
      BY <1>1, <2>2
    <3>2. PICK d \in S \ {c} : parent[d] \notin S \ {c}
      BY <1>3, <3>1 DEF Rooted
    <3>3. d \in mine /\ d \in Pids
      BY <1>6, <3>1
    <3>4. parent[d] # c
      BY <1>0, <1>1, <1>3, <1>4, <3>3, ContainmentAssumption DEF Family
    <3> QED BY <1>5, <3>2, <3>3, <3>4
  <2> QED BY <2>1, <2>2
<1>10. NoCommand'
  BY <1>2, <1>3 DEF NoCommand, Capturing
<1>11. Parted'
  BY <1>0, <1>1, <1>2, <1>3, <1>13 DEF Parted, Capturing
<1>12. RootSeen'
  BY <1>0, <1>1, <1>2, <1>3, <1>4, <1>5, <1>6 DEF RootSeen
<1>14. Hidden' /\ CaptureSees'
  BY <1>2, <1>3, <1>13 DEF Hidden, CaptureSees
<1> QED BY <1>7, <1>8, <1>9, <1>10, <1>11, <1>12, <1>14 DEF IInv

LEMMA ExitStep ==
  ASSUME IInv, NEW p \in Pids, Exit(p)
  PROVE  IInv'
<1>1. /\ state[p] = "live"
      /\ state' = [state EXCEPT ![p] = "zombie"]
      /\ parent' = [q \in Pids |-> IF parent[q] = p THEN Worker ELSE parent[q]]
      /\ UNCHANGED <<group, mine, leader, garbled, pc, why, unread, table, missed, baseline,
                     round, timedOut, required, left>>
  BY DEF Exit, scanVars, replyVars
<1>2. TypeOK /\ Family /\ Rooted /\ NoCommand /\ Hidden /\ CaptureSees /\ Parted /\ RootSeen
  BY DEF IInv
<1>3. /\ \A q \in Pids : state'[q] = IF q = p THEN "zombie" ELSE state[q]
      /\ \A q \in Pids : parent'[q] = IF parent[q] = p THEN Worker ELSE parent[q]
  BY <1>1, <1>2 DEF TypeOK
<1>4. Used' = Used /\ mine \subseteq Pids /\ Strangers' = Strangers
  BY <1>1, <1>2, <1>3 DEF Used, TypeOK, Strangers
<1>5. TypeOK'
  BY <1>1, <1>2, <1>4 DEF TypeOK
<1>6. Family'
  BY <1>1, <1>2, <1>3, <1>4 DEF Family
<1>7. Rooted'
  <2> SUFFICES ASSUME NEW S \in SUBSET mine', S # {}
               PROVE  \E d \in S : parent'[d] \notin S
    BY DEF Rooted
  <2>1. PICK d \in S : parent[d] \notin S
    BY <1>1, <1>2 DEF Rooted
  <2>2. d \in Pids /\ S \subseteq Pids
    BY <1>1, <1>4
  <2>3. parent'[d] \in {Worker, parent[d]}
    BY <1>3, <2>2
  <2> QED BY <2>1, <2>2, <2>3
<1>8. NoCommand'
  BY <1>1, <1>2 DEF NoCommand, Capturing
<1>9. Hidden' /\ CaptureSees'
  BY <1>1, <1>2, <1>4 DEF Hidden, CaptureSees
<1>10. Parted'
  BY <1>1, <1>2, <1>4 DEF Parted, Capturing
<1>11. RootSeen'
  BY <1>1, <1>2, <1>3, <1>4 DEF RootSeen
<1> QED BY <1>5, <1>6, <1>7, <1>8, <1>9, <1>10, <1>11 DEF IInv

LEMMA ParentWaitsStep ==
  ASSUME IInv, NEW p \in Pids, ParentWaits(p)
  PROVE  IInv'
<1>1. /\ state[p] = "zombie" /\ parent[p] # Worker /\ Free({p})
      /\ UNCHANGED <<pc, why, unread, table, missed, baseline, round,
                     timedOut, required, left>>
  BY DEF ParentWaits, scanVars, replyVars
<1>2. TypeOK /\ Family /\ Rooted /\ NoCommand /\ Hidden /\ CaptureSees /\ Parted /\ RootSeen
  BY DEF IInv
<1>3. {p} \in SUBSET Zombies
  BY <1>1 DEF Zombies
<1>4. /\ Family' /\ Rooted'
      /\ state' \in [Pids -> {"free", "live", "zombie"}]
      /\ parent' \in [Pids -> Pids \cup {Worker}]
      /\ group' \subseteq Pids /\ leader' \in Pids \cup {NoPid}
      /\ mine' = mine \ {p} /\ Used' = Used \ {p} /\ garbled' = garbled \ {p}
      /\ \A q \in Pids \ {p} : state'[q] = state[q] /\ parent'[q] = parent[q]
  BY <1>1, <1>2, <1>3, FreeKeeps, Zenon
<1>5. p \in mine /\ mine \subseteq Pids
  BY <1>1, <1>2 DEF Family, TypeOK, Used
<1>10. /\ Strangers' \cap garbled' \subseteq Strangers \cap garbled
       /\ Strangers' \ garbled' \subseteq Strangers \ garbled
  BY <1>4, StrangersFreed
<1>6. TypeOK'
  BY <1>1, <1>2, <1>4 DEF TypeOK
<1>7. NoCommand' /\ Hidden' /\ CaptureSees'
  BY <1>1, <1>2, <1>4, <1>10 DEF NoCommand, Capturing, Hidden, CaptureSees
<1>8. Parted'
  BY <1>1, <1>2, <1>4, <1>10 DEF Parted, Capturing
<1>9. RootSeen'
  BY <1>1, <1>2, <1>4, <1>5 DEF RootSeen
<1> QED BY <1>4, <1>6, <1>7, <1>8, <1>9 DEF IInv

LEMMA NewSessionStep ==
  ASSUME IInv, NEW p \in Pids, NewSession(p)
  PROVE  IInv'
<1>1. /\ group' = group \ {p}
      /\ UNCHANGED <<state, parent, mine, leader, garbled, pc, why, unread, table, missed,
                     baseline, round, timedOut, required, left>>
  BY DEF NewSession, scanVars, replyVars
<1>2. Used' = Used /\ Strangers' = Strangers
  BY <1>1 DEF Used, Strangers
<1> QED BY <1>1, <1>2 DEF IInv, TypeOK, Family, Rooted, NoCommand, Capturing,
                          Hidden, CaptureSees, Parted, RootSeen

\* A command's process that changes its name is no stranger.
LEMMA RenameStep ==
  ASSUME IInv, NEW p \in Pids, Rename(p)
  PROVE  IInv'
<1>1. /\ p \in mine \cap Garbling
      /\ garbled' = IF p \in garbled THEN garbled \ {p} ELSE garbled \cup {p}
      /\ UNCHANGED <<state, parent, group, mine, leader, pc, why, unread, table, missed,
                     baseline, round, timedOut, required, left>>
  BY DEF Rename, scanVars, replyVars
<1>2. Used' = Used /\ Strangers' = Strangers
  BY <1>1 DEF Used, Strangers
<1>3. /\ Strangers' \cap garbled' = Strangers \cap garbled
      /\ Strangers' \ garbled' = Strangers \ garbled
  BY <1>1, <1>2 DEF Strangers
<1>4. TypeOK'
  BY <1>1, <1>2 DEF IInv, TypeOK
<1> QED BY <1>1, <1>2, <1>3, <1>4 DEF IInv, Family, Rooted, NoCommand, Capturing,
                          Hidden, CaptureSees, Parted, RootSeen

\* A step of the worker that leaves the processes alone leaves the forest.
LEMMA Untouched ==
  ASSUME IInv, UNCHANGED <<state, parent, mine, garbled>>,
         group' \subseteq Pids, leader' \in {leader, NoPid}
  PROVE  /\ Family' /\ Rooted' /\ Used' = Used /\ mine' = mine
         /\ Strangers' = Strangers /\ garbled' = garbled
         /\ \A p \in Pids : state'[p] = state[p] /\ parent'[p] = parent[p]
         /\ state' \in [Pids -> {"free", "live", "zombie"}]
         /\ parent' \in [Pids -> Pids \cup {Worker}]
         /\ group' \subseteq Pids /\ mine' \subseteq Used'
         /\ leader' \in Pids \cup {NoPid} /\ garbled' \subseteq Used' \cap Garbling
<1>1. Used' = Used
  BY DEF Used
<1> QED BY <1>1 DEF IInv, TypeOK, Family, Rooted, Strangers

\* ... as a step that does not concern them does.
LEMMA Kept ==
  ASSUME IInv, UNCHANGED procVars
  PROVE  /\ UNCHANGED <<state, parent, mine, garbled>>
         /\ group' \subseteq Pids /\ leader' \in {leader, NoPid}
BY DEF procVars, IInv, TypeOK

LEMMA AcceptStep ==
  ASSUME IInv, Accept
  PROVE  IInv'
<1>1. UNCHANGED procVars /\ pc = "idle" /\ baseline' = {} /\ missed' = (missed /\ mine # {})
  BY DEF Accept
<1>2. TypeOK'
  BY <1>1, Untouched, Kept DEF IInv, TypeOK, Accept, Scan
<1>3. NoCommand'
  BY <1>1, Untouched, Kept DEF IInv, NoCommand
<1> QED BY <1>1, <1>2, <1>3, Untouched, Kept
        DEF IInv, Accept, Scan, Capturing, Hidden, CaptureSees, Parted, RootSeen

LEMMA ListStep ==
  ASSUME IInv, ListProc
  PROVE  IInv'
<1>1. /\ UNCHANGED procVars
      /\ UNCHANGED <<why, table, missed, baseline, round, timedOut, required, left>>
      /\ pc = "list" /\ pc' = "read" /\ unread' = Used
  BY DEF ListProc, replyVars
<1>2. TypeOK'
  BY <1>1, Untouched, Kept DEF IInv, TypeOK, Used
<1>3. NoCommand' /\ Parted' /\ Hidden'
  BY <1>1, Untouched, Kept DEF IInv, NoCommand, Parted, Hidden, Capturing
<1>4. CaptureSees'
  BY <1>1, Untouched, Kept DEF CaptureSees, Strangers
<1>5. RootSeen'
  BY <1>1, Untouched, Kept, SomeRoot DEF IInv, TypeOK, RootSeen
<1> QED BY <1>1, <1>2, <1>3, <1>4, <1>5, Untouched, Kept DEF IInv

LEMMA ReadStep ==
  ASSUME IInv, NEW p \in Pids, ReadStat(p)
  PROVE  IInv'
<1>1. /\ UNCHANGED procVars
      /\ UNCHANGED <<pc, why, baseline, round, timedOut, required, left>>
      /\ pc = "read" /\ p \in unread /\ unread' = unread \ {p}
      /\ table' = IF p \in Used \ garbled THEN [table EXCEPT ![p] = parent[p]] ELSE table
      /\ missed' = (missed \/ p \in garbled \cap mine)
  BY DEF ReadStat, replyVars
<1>2. table \in [Pids -> Pids \cup {Worker, NoPid}] /\ parent \in [Pids -> Pids \cup {Worker}]
  BY DEF IInv, TypeOK
<1>3. /\ table' \in [Pids -> Pids \cup {Worker, NoPid}]
      /\ \A q \in Pids : table'[q] = IF q = p /\ p \in Used \ garbled THEN parent[p] ELSE table[q]
  BY <1>1, <1>2
<1>0. UNCHANGED <<state, parent, mine, garbled>> /\ Strangers' = Strangers /\ Strangers \subseteq Pids
  BY <1>1, Untouched, Kept DEF Strangers, Used
<1>4. TypeOK'
  <2>1. missed' \in BOOLEAN /\ unread' \subseteq Pids
    BY <1>1 DEF IInv, TypeOK
  <2> QED BY <1>1, <1>3, <2>1, Untouched, Kept DEF IInv, TypeOK
<1>5. NoCommand' /\ Parted'
  BY <1>0, <1>1 DEF IInv, NoCommand, Parted, Capturing
<1>8. Hidden'
  BY <1>0, <1>3 DEF IInv, Hidden
<1>6. CaptureSees'
  <2> SUFFICES ASSUME why = "capture", NEW q \in Strangers \ garbled
               PROVE  q \in unread' \/ table'[q] = Worker
    BY <1>0, <1>1 DEF CaptureSees
  <2>1. q \in unread \/ table[q] = Worker
    BY <1>1 DEF IInv, CaptureSees
  <2>2. parent[q] = Worker /\ q \in Pids /\ q \in Used
    BY <1>0 DEF IInv, Family, Strangers
  <2> QED BY <1>1, <1>3, <2>1, <2>2
<1>7. RootSeen'
  <2> SUFFICES ASSUME why # "capture", mine # {}, ~missed'
               PROVE  \E d \in mine : parent'[d] = Worker
                                      /\ (d \in unread' \/ table'[d] = Worker)
    BY <1>0, <1>1 DEF RootSeen
  <2>1. PICK d \in mine : parent[d] = Worker /\ (d \in unread \/ table[d] = Worker)
    BY <1>1 DEF IInv, RootSeen
  <2>2. d \in Pids /\ d \in Used
    BY DEF IInv, TypeOK, Used
  <2>3. d = p => d \notin garbled
    BY <1>1
  <2> QED BY <1>0, <1>1, <1>3, <2>1, <2>2, <2>3
<1> QED BY <1>1, <1>4, <1>5, <1>6, <1>7, <1>8, Untouched, Kept DEF IInv

LEMMA CaptureStep ==
  ASSUME IInv, Capture
  PROVE  IInv'
<1>1. /\ UNCHANGED procVars
      /\ UNCHANGED <<why, unread, missed, round, timedOut, required, left>>
      /\ pc = "read" /\ unread = {} /\ why = "capture" /\ table' = NothingRead
      /\ baseline' = Descendants /\ pc' = "spawn"
  BY DEF Capture, Read, replyVars
<1>2. mine = {} \/ missed
  BY <1>1 DEF IInv, NoCommand, Capturing
<1>3. \A p \in Strangers \ garbled : table[p] = Worker
  BY <1>1 DEF IInv, CaptureSees
<1>4. Strangers \subseteq Pids
  BY DEF Strangers, Used
<1>5. Strangers \ garbled \subseteq Descendants /\ Descendants \subseteq Pids
  BY <1>3, <1>4, ChildrenFound DEF Descendants
<1>6. TypeOK'
  <2>1. table' \in [Pids -> Pids \cup {Worker, NoPid}]
    BY <1>1 DEF NothingRead
  <2> QED BY <1>1, <1>5, <2>1, Untouched, Kept DEF IInv, TypeOK
<1>7. NoCommand' /\ CaptureSees' /\ RootSeen'
  BY <1>1, <1>2, Untouched, Kept DEF NoCommand, CaptureSees, RootSeen
<1>8. Parted' /\ Hidden'
  BY <1>1, <1>2, <1>4, <1>5, Untouched, Kept DEF Parted, Hidden, NothingRead
<1> QED BY <1>1, <1>6, <1>7, <1>8, Untouched, Kept DEF IInv

LEMMA SpawnStep ==
  ASSUME IInv, Spawn
  PROVE  IInv'
<1>1. /\ pc = "spawn"
      /\ UNCHANGED <<why, unread, table, missed, baseline, round, timedOut, required, left>>
  BY DEF Spawn, scanVars, replyVars
<1>2. /\ TypeOK /\ Family /\ Rooted /\ Hidden /\ (mine = {} \/ missed)
      /\ Strangers \ garbled \subseteq baseline /\ (baseline \cap mine = {} \/ missed)
  BY <1>1 DEF IInv, NoCommand, Parted, Capturing
<1>3. CASE pc' = "idle" /\ UNCHANGED procVars
  <2>1. TypeOK'
    BY <1>1, <1>2, <1>3, Untouched, Kept DEF TypeOK
  <2> QED BY <1>1, <1>2, <1>3, <2>1, Untouched, Kept
          DEF IInv, NoCommand, Hidden, CaptureSees, Parted, RootSeen
<1>4. ASSUME NEW c \in Available,
             state' = [state EXCEPT ![c] = "live"],
             parent' = [parent EXCEPT ![c] = Worker],
             group' = {c} /\ mine' = mine \cup {c} /\ leader' = c,
             garbled' = garbled /\ pc' = "wait"
      PROVE  IInv'
  <2>0. c \in Pids /\ state[c] = "free" /\ c \notin baseline
    BY DEF Available
  <2>1. /\ \A q \in Pids : state'[q] = IF q = c THEN "live" ELSE state[q]
        /\ \A q \in Pids : parent'[q] = IF q = c THEN Worker ELSE parent[q]
    BY <1>2, <1>4, <2>0 DEF TypeOK
  <2>2. Used' = Used \cup {c} /\ c \notin Used /\ c \notin mine /\ mine \subseteq Pids
    BY <1>2, <1>4, <2>0, <2>1 DEF Used, TypeOK
  <2>8. Strangers' = Strangers
    BY <1>4, <2>2 DEF Strangers
  <2>3. TypeOK'
    BY <1>1, <1>2, <1>4, <2>0, <2>2 DEF TypeOK
  <2>4. Family'
    <3>1. \A q \in mine : parent[q] # c
      BY <1>2, <2>0, <2>2, ContainmentAssumption DEF Family
    <3> QED BY <1>2, <1>4, <2>0, <2>1, <2>2, <3>1 DEF Family
  <2>5. Rooted'
    <3> SUFFICES ASSUME NEW S \in SUBSET mine', S # {}
                 PROVE  \E d \in S : parent'[d] \notin S
      BY DEF Rooted
    <3>1. CASE c \in S
      <4>1. Worker \notin S
        BY <1>4, <2>0, <2>2, ContainmentAssumption
      <4> QED BY <2>0, <2>1, <3>1, <4>1
    <3>2. CASE c \notin S
      <4>1. S \in SUBSET mine
        BY <1>4, <3>2
      <4>2. PICK d \in S : parent[d] \notin S
        BY <1>2, <4>1 DEF Rooted
      <4> QED BY <2>1, <2>2, <3>2, <4>1, <4>2
    <3> QED BY <3>1, <3>2
  <2>6. NoCommand' /\ CaptureSees' /\ RootSeen'
    BY <1>4 DEF NoCommand, Capturing, CaptureSees, RootSeen
  <2>7. Parted' /\ Hidden'
    BY <1>1, <1>2, <1>4, <2>0, <2>8 DEF Parted, Hidden
  <2> QED BY <2>3, <2>4, <2>5, <2>6, <2>7 DEF IInv
<1> QED BY <1>3, <1>4, Zenon DEF Spawn

\* The zombies S are waited for by the worker, which is not reading /proc.
LEMMA WorkerWaits ==
  ASSUME IInv, NEW S \in SUBSET Zombies, Free(S),
         pc \notin {"idle", "dead"}, ~Capturing, UNCHANGED <<baseline, missed>>,
         table' \in {table, NothingRead}
  PROVE  /\ Family' /\ Rooted' /\ Hidden' /\ Parted'
         /\ state' \in [Pids -> {"free", "live", "zombie"}]
         /\ parent' \in [Pids -> Pids \cup {Worker}]
         /\ group' \subseteq Pids /\ leader' \in Pids \cup {NoPid}
         /\ mine' \subseteq Used' /\ garbled' \subseteq Used' \cap Garbling
<1>1. TypeOK /\ Family /\ Rooted /\ Hidden /\ Parted
  BY DEF IInv
<1>2. /\ Family' /\ Rooted'
      /\ state' \in [Pids -> {"free", "live", "zombie"}]
      /\ parent' \in [Pids -> Pids \cup {Worker}]
      /\ group' \subseteq Pids /\ leader' \in Pids \cup {NoPid}
      /\ mine' = mine \ S /\ Used' = Used \ S /\ garbled' = garbled \ S
  BY <1>1, FreeKeeps, Zenon
<1>3. /\ Strangers' \cap garbled' \subseteq Strangers \cap garbled
      /\ Strangers' \ garbled' \subseteq Strangers \ garbled
  BY <1>2, StrangersFreed
<1>4. mine' \subseteq Used' /\ garbled' \subseteq Used' \cap Garbling
  BY <1>1, <1>2 DEF TypeOK
<1>5. Hidden'
  <2>1. \A p \in Strangers \cap garbled : p \in Pids
    BY DEF Strangers, Used
  <2> QED BY <1>1, <1>3, <2>1 DEF Hidden, NothingRead
<1>6. Parted'
  BY <1>1, <1>2, <1>3 DEF Parted
<1> QED BY <1>2, <1>4, <1>5, <1>6

LEMMA CommandEndsStep ==
  ASSUME IInv, CommandEnds
  PROVE  IInv'
<1>1. /\ pc = "wait" /\ leader \in Zombies /\ Free({leader})
      /\ UNCHANGED <<unread, table, missed, baseline, round, timedOut>>
      /\ left' = (Running(mine) # {})
  BY DEF CommandEnds
<1>2. \/ pc' = "terminate" /\ why' = why /\ required' = TRUE
      \/ pc' = "list" /\ why' = "first" /\ required' = required
  BY DEF CommandEnds, Scan
<1>3. /\ unread' \subseteq Pids /\ table' \in [Pids -> Pids \cup {Worker, NoPid}]
      /\ baseline' \subseteq Pids /\ round' \in {"term", "kill"} /\ missed' \in BOOLEAN
      /\ timedOut' \in BOOLEAN /\ required' \in BOOLEAN /\ left' \in BOOLEAN
      /\ why' \in {"capture", "first", "signal", "look"}
  BY <1>1, <1>2 DEF IInv, TypeOK
<1>7. {leader} \in SUBSET Zombies /\ ~Capturing
  BY <1>1 DEF Capturing
<1>8. /\ Family' /\ Rooted' /\ Hidden' /\ Parted'
      /\ state' \in [Pids -> {"free", "live", "zombie"}]
      /\ parent' \in [Pids -> Pids \cup {Worker}]
      /\ group' \subseteq Pids /\ leader' \in Pids \cup {NoPid}
      /\ mine' \subseteq Used' /\ garbled' \subseteq Used' \cap Garbling
  BY <1>1, <1>7, WorkerWaits
<1>4. TypeOK'
  BY <1>2, <1>3, <1>8 DEF TypeOK
<1>5. NoCommand' /\ CaptureSees' /\ RootSeen'
  BY <1>2 DEF NoCommand, Capturing, CaptureSees, RootSeen
<1> QED BY <1>4, <1>5, <1>8 DEF IInv

LEMMA ReapLeaderStep ==
  ASSUME IInv, ReapLeader
  PROVE  IInv'
<1>1. /\ pc \in {"terminate", "again"} /\ leader \in Zombies /\ Free({leader})
      /\ UNCHANGED <<pc, why, unread, table, missed, baseline, round, timedOut, required, left>>
  BY DEF ReapLeader, scanVars, replyVars
<1>2. {leader} \in SUBSET Zombies /\ ~Capturing
  BY <1>1 DEF Capturing
<1>3. /\ Family' /\ Rooted' /\ Hidden' /\ Parted'
      /\ state' \in [Pids -> {"free", "live", "zombie"}]
      /\ parent' \in [Pids -> Pids \cup {Worker}]
      /\ group' \subseteq Pids /\ leader' \in Pids \cup {NoPid}
      /\ mine' \subseteq Used' /\ garbled' \subseteq Used' \cap Garbling
  BY <1>1, <1>2, WorkerWaits
<1>4. TypeOK'
  BY <1>1, <1>3 DEF IInv, TypeOK
<1>5. NoCommand' /\ CaptureSees' /\ RootSeen'
  BY <1>1 DEF NoCommand, Capturing, CaptureSees, RootSeen
<1> QED BY <1>3, <1>4, <1>5 DEF IInv

\* A step of the worker, after its command was started, that leaves the
\* processes alone.
LEMMA WorkerTurns ==
  ASSUME IInv, UNCHANGED <<state, parent, mine, garbled>>,
         group' \subseteq Pids, leader' \in {leader, NoPid},
         UNCHANGED <<unread, missed, baseline>>, table' \in {table, NothingRead},
         pc \notin {"idle", "dead"}, ~Capturing,
         pc' \in {"list", "terminate", "again", "answer", "idle"},
         why' \in {why, "first", "signal", "look"},
         pc' = "list" => why' # "capture",
         pc' \in {"answer", "idle"} => mine = {} \/ missed,
         round' \in {"term", "kill"},
         timedOut' \in BOOLEAN, required' \in BOOLEAN, left' \in BOOLEAN
  PROVE  IInv'
<1>1. TypeOK'
  <2>1. table' \in [Pids -> Pids \cup {Worker, NoPid}]
    BY DEF IInv, TypeOK, NothingRead
  <2> QED BY <2>1, Untouched DEF IInv, TypeOK
<1>2. NoCommand' /\ CaptureSees' /\ RootSeen'
  BY Untouched DEF NoCommand, Capturing, CaptureSees, RootSeen
<1>3. Parted'
  BY Untouched DEF IInv, Parted
<1>4. Hidden'
  <2>1. \A p \in Strangers \cap garbled : p \in Pids
    BY DEF Strangers, Used
  <2> QED BY <2>1, Untouched DEF IInv, Hidden, NothingRead
<1> QED BY <1>1, <1>2, <1>3, <1>4, Untouched DEF IInv

LEMMA TimesOutStep ==
  ASSUME IInv, CommandTimesOut
  PROVE  IInv'
BY WorkerTurns, Kept DEF CommandTimesOut, IInv, TypeOK, Capturing, scanVars

LEMMA GroupTerminatedStep ==
  ASSUME IInv, GroupTerminated
  PROVE  IInv'
<1>1. /\ pc \in {"terminate", "again"} /\ UNCHANGED <<state, parent, mine, garbled>>
      /\ UNCHANGED <<unread, table, missed, baseline, round, timedOut, required, left>>
      /\ \/ pc' = "again" /\ why' = why /\ UNCHANGED <<group, leader>>
         \/ pc' = "list" /\ why' = "first" /\ group' = {} /\ leader' = NoPid
  BY DEF GroupTerminated, Scan, replyVars
<1>3. group' \subseteq Pids /\ leader' \in {leader, NoPid}
  BY <1>1 DEF IInv, TypeOK
<1>2. /\ round' \in {"term", "kill"}
      /\ timedOut' \in BOOLEAN /\ required' \in BOOLEAN /\ left' \in BOOLEAN
  BY <1>1 DEF IInv, TypeOK
<1> QED BY <1>1, <1>2, <1>3, WorkerTurns DEF Capturing

LEMMA FirstLookStep ==
  ASSUME IInv, FirstLook
  PROVE  IInv'
<1>1. /\ pc = "read" /\ unread = {} /\ why = "first"
      /\ UNCHANGED procVars /\ UNCHANGED <<unread, missed, baseline, round, timedOut, left>>
      /\ table' = NothingRead
  BY DEF FirstLook, Read
<1>2. /\ round' \in {"term", "kill"}
      /\ timedOut' \in BOOLEAN /\ required \in BOOLEAN /\ left' \in BOOLEAN
  BY <1>1 DEF IInv, TypeOK
<1>3. CASE Targets = {}
  <2>1. pc' = "answer" /\ UNCHANGED <<why, required>>
    BY <1>3 DEF FirstLook
  <2>2. mine = {} \/ missed
    BY <1>1, <1>3, NobodyLeft
  <2> QED BY <1>1, <1>2, <2>1, <2>2, Kept, WorkerTurns DEF Capturing
<1>4. CASE Targets # {}
  <2>1. pc' = "list" /\ why' = "signal" /\ required' = TRUE
    BY <1>4 DEF FirstLook, Scan
  <2> QED BY <1>1, <1>2, <2>1, Kept, WorkerTurns DEF Capturing
<1> QED BY <1>3, <1>4

LEMMA SignalStep ==
  ASSUME IInv, SignalTargets
  PROVE  IInv'
<1>1. /\ pc = "read" /\ unread = {} /\ why = "signal"
      /\ UNCHANGED <<unread, missed, baseline, round, timedOut, required, left>>
      /\ table' = NothingRead
  BY DEF SignalTargets, Read, replyVars
<1>2. /\ round' \in {"term", "kill"}
      /\ timedOut' \in BOOLEAN /\ required' \in BOOLEAN /\ left' \in BOOLEAN
  BY <1>1 DEF IInv, TypeOK
<1>3. CASE Targets = {}
  <2>1. pc' = "answer" /\ UNCHANGED procVars /\ UNCHANGED why
    BY <1>3 DEF SignalTargets
  <2>2. mine = {} \/ missed
    BY <1>1, <1>3, NobodyLeft
  <2> QED BY <1>1, <1>2, <2>1, <2>2, Kept, WorkerTurns DEF Capturing
<1>4. CASE Targets # {}
  <2> DEFINE S == {p \in Targets \cap Zombies : table[p] = Worker /\ parent[p] = Worker}
  <2>1. pc' = "list" /\ why' = "look" /\ Free(S)
    BY <1>4 DEF SignalTargets, Scan
  <2>2. S \in SUBSET Zombies
    BY DEF Targets
  <2> HIDE DEF S
  <2>3. ~Capturing
    BY <1>1 DEF Capturing
  <2>4. /\ Family' /\ Rooted' /\ Hidden' /\ Parted'
        /\ state' \in [Pids -> {"free", "live", "zombie"}]
        /\ parent' \in [Pids -> Pids \cup {Worker}]
        /\ group' \subseteq Pids /\ leader' \in Pids \cup {NoPid}
        /\ mine' \subseteq Used' /\ garbled' \subseteq Used' \cap Garbling
    BY <1>1, <2>1, <2>2, <2>3, WorkerWaits
  <2>5. table' \in [Pids -> Pids \cup {Worker, NoPid}]
    BY <1>1 DEF NothingRead
  <2>6. TypeOK'
    BY <1>1, <1>2, <2>1, <2>4, <2>5 DEF IInv, TypeOK
  <2>7. NoCommand' /\ CaptureSees' /\ RootSeen'
    BY <2>1 DEF NoCommand, Capturing, CaptureSees, RootSeen
  <2> QED BY <2>4, <2>6, <2>7 DEF IInv
<1> QED BY <1>3, <1>4

LEMMA LookStep ==
  ASSUME IInv, LookAgain
  PROVE  IInv'
<1>1. /\ pc = "read" /\ unread = {} /\ why = "look" /\ UNCHANGED procVars
      /\ UNCHANGED <<unread, missed, baseline, round, timedOut, required, left>>
      /\ table' = NothingRead
  BY DEF LookAgain, Read, replyVars
<1>2. /\ round' \in {"term", "kill"}
      /\ timedOut' \in BOOLEAN /\ required' \in BOOLEAN /\ left' \in BOOLEAN
  BY <1>1 DEF IInv, TypeOK
<1>3. CASE Targets = {} /\ pc' = "answer" /\ why' = why
  BY <1>1, <1>2, <1>3, NobodyLeft, Kept, WorkerTurns DEF Capturing
<1>4. CASE pc' = "list" /\ why' = "signal"
  BY <1>1, <1>2, <1>4, Kept, WorkerTurns DEF Capturing
<1> QED BY <1>3, <1>4 DEF LookAgain, Scan

LEMMA GiveUpStep ==
  ASSUME IInv, GiveUp
  PROVE  IInv'
<1>1. /\ pc = "read" /\ unread = {} /\ why = "look"
      /\ UNCHANGED <<unread, missed, baseline, timedOut, required, left>>
      /\ table' = NothingRead
  BY DEF GiveUp, Read, replyVars
<1>2. CASE round = "term"
  <2>1. UNCHANGED procVars /\ round' = "kill" /\ pc' = "list" /\ why' = "signal"
    BY <1>2 DEF GiveUp, Scan
  <2>2. timedOut' \in BOOLEAN /\ required' \in BOOLEAN /\ left' \in BOOLEAN
    BY <1>1 DEF IInv, TypeOK
  <2> QED BY <1>1, <2>1, <2>2, Kept, WorkerTurns DEF Capturing
<1>3. CASE round # "term"
  <2>1. pc' = "dead" /\ Free(Pids) /\ UNCHANGED <<why, round>>
    BY <1>3 DEF GiveUp
  <2>2. /\ state' = [p \in Pids |-> "free"] /\ parent' = [p \in Pids |-> Worker]
        /\ mine' = {} /\ group' = {} /\ leader' = NoPid /\ garbled' = {}
    BY <2>1 DEF Free, IInv, TypeOK, Used
  <2>3. Used' = {}
    BY <2>2 DEF Used
  <2>4. TypeOK'
    BY <1>1, <2>1, <2>2, <2>3 DEF IInv, TypeOK, NothingRead
  <2> QED BY <2>1, <2>2, <2>4
          DEF IInv, Family, Rooted, NoCommand, Hidden, CaptureSees, Parted, RootSeen
<1> QED BY <1>2, <1>3

LEMMA AnswerStep ==
  ASSUME IInv, Answer
  PROVE  IInv'
<1>1. /\ pc = "answer" /\ pc' = "idle" /\ UNCHANGED procVars
      /\ UNCHANGED <<why, unread, table, missed, baseline, round, timedOut, required, left>>
  BY DEF Answer, scanVars, replyVars
<1>2. /\ mine = {} \/ missed
      /\ round' \in {"term", "kill"}
      /\ timedOut' \in BOOLEAN /\ required' \in BOOLEAN /\ left' \in BOOLEAN
  BY <1>1 DEF IInv, TypeOK, NoCommand
<1> QED BY <1>1, <1>2, Kept, WorkerTurns DEF Capturing

LEMMA InvNext == IInv /\ [Next]_vars => IInv'
<1> SUFFICES ASSUME IInv, [Next]_vars
             PROVE  IInv'
  OBVIOUS
<1>1. CASE Accept
  BY <1>1, AcceptStep
<1>2. CASE WorkerNext
  BY <1>2, ListStep, ReadStep, CaptureStep, SpawnStep, CommandEndsStep, TimesOutStep,
     ReapLeaderStep, GroupTerminatedStep, FirstLookStep, SignalStep, LookStep, GiveUpStep,
     AnswerStep, Zenon DEF WorkerNext
<1>3. CASE Environment
  BY <1>3, ForkStep, ExitStep, ParentWaitsStep, NewSessionStep, RenameStep, Zenon
     DEF Environment
<1>4. CASE UNCHANGED vars
  BY <1>4 DEF vars, procVars, scanVars, replyVars, IInv, TypeOK, Used, Family, Rooted,
     NoCommand, Strangers, Hidden, Capturing, CaptureSees, Parted, RootSeen
<1> QED BY <1>1, <1>2, <1>3, <1>4 DEF Next

LEMMA InvAlways == Spec => []IInv
BY InvInit, InvNext, PTL DEF Spec

\* While what a command left is not reported yet, it is there to be found.
Pending ==
  left /\ ~required => missed \/ (pc \in {"list", "read"} /\ why = "first" /\ mine # {})

LEMMA PendingNext == IInv /\ Pending /\ [Next]_vars => Pending'
<1> SUFFICES ASSUME IInv, Pending, [Next]_vars
             PROVE  Pending'
  OBVIOUS
<1>1. CASE Accept
  BY <1>1 DEF Accept, Pending
<1>2. CASE CommandEnds
  <2>1. CASE required' = TRUE
    BY <2>1 DEF Pending
  <2>2. CASE pc' = "list" /\ why' = "first" /\ left' = (Running(mine) # {})
    <3>1. mine' = mine \ {leader} /\ leader \notin Running(mine)
      BY <1>2 DEF CommandEnds, Free, Zombies, Running
    <3>2. Running(mine) \subseteq mine
      BY DEF Running
    <3> QED BY <2>2, <3>1, <3>2 DEF Pending
  <2> QED BY <1>2, <2>1, <2>2 DEF CommandEnds, Scan
<1>3. CASE FirstLook
  <2>1. Targets = {} => mine = {} \/ missed
    BY <1>3, NobodyLeft DEF FirstLook, Read
  <2> QED BY <1>3, <2>1 DEF FirstLook, Read, Pending
<1>4. CASE ListProc \/ \E p \in Pids : ReadStat(p)
  BY <1>4 DEF ListProc, ReadStat, Pending, procVars, replyVars
<1>5. CASE \/ Capture \/ Spawn \/ CommandTimesOut \/ ReapLeader \/ GroupTerminated
           \/ SignalTargets \/ LookAgain \/ GiveUp \/ Answer
  BY <1>5 DEF Capture, Spawn, CommandTimesOut, ReapLeader, GroupTerminated, SignalTargets,
              LookAgain, GiveUp, Answer, Read, Pending, scanVars, replyVars
<1>6. CASE Environment
  <2>1. UNCHANGED <<pc, why, missed, left, required>>
    BY <1>6 DEF Environment, Fork, Exit, ParentWaits, NewSession, Rename, scanVars, replyVars
  <2>2. mine # {} => mine' # {}
    <3>1. CASE \E p \in Pids : Fork(p) \/ Exit(p) \/ NewSession(p) \/ Rename(p)
      BY <3>1 DEF Fork, Exit, NewSession, Rename
    <3>2. ASSUME NEW p \in Pids, ParentWaits(p), mine # {}
          PROVE  mine' # {}
      <4>1. PICK d \in mine : parent[d] = Worker
        BY <3>2, SomeRoot DEF IInv
      <4>2. mine' = mine \ {p} /\ d # p
        BY <3>2, <4>1 DEF ParentWaits, Free
      <4> QED BY <4>2
    <3> QED BY <1>6, <3>1, <3>2 DEF Environment
  <2> QED BY <2>1, <2>2 DEF Pending
<1>7. CASE UNCHANGED vars
  BY <1>7 DEF vars, procVars, scanVars, replyVars, Pending
<1> QED BY <1>1, <1>2, <1>3, <1>4, <1>5, <1>6, <1>7 DEF Next, WorkerNext

-----------------------------------------------------------------------------
(* Theorems                                                                *)

\* Types hold for any number of PIDs.
THEOREM ContainmentTypes == Spec => []TypeOK
<1>1. IInv => TypeOK
  BY DEF IInv
<1> QED BY <1>1, InvAlways, PTL

\* execute_command returns, and the next request is served, only when no
\* process of the command is left, whatever it forked while /proc was read,
\* unless a reading of /proc came across a process of the command whose name it
\* could not decode.
THEOREM ContainmentAnswers == Spec => []AnsweredMeansGone
<1>1. IInv => AnsweredMeansGone
  BY DEF IInv, NoCommand, AnsweredMeansGone
<1> QED BY <1>1, InvAlways, PTL

\* No process but the command's is a target.
LEMMA StrangersSpared ==
  ASSUME IInv, pc = "read", why # "capture"
  PROVE  Targets \cap Used \subseteq mine
<1> SUFFICES ASSUME NEW p \in Targets \cap Used, p \notin mine
             PROVE  FALSE
  OBVIOUS
<1>1. p \in Pids /\ p \in Strangers /\ p \notin baseline /\ p \in Descendants
  BY DEF Targets, Used, Strangers
<1>2. p \in garbled
  BY <1>1 DEF IInv, Parted, Capturing
<1>3. table[p] = NoPid
  BY <1>1, <1>2 DEF IInv, Hidden
<1>4. Closed(Pids \ {p})
  BY <1>3, ContainmentAssumption DEF Closed
<1> QED BY <1>1, <1>4 DEF Descendants

\* The cleanup has no other process among its targets, at any time.
THEOREM ContainmentTargets == Spec => []OnlyOwnTargets
<1>1. IInv => OnlyOwnTargets
  BY StrangersSpared DEF OnlyOwnTargets
<1> QED BY <1>1, InvAlways, PTL

\* A process that a command leaves running makes its reply withhold the exit
\* status (cleanup_required), whenever it leaves the group, forks or exits,
\* unless a reading of /proc passed over one of the command's processes.
THEOREM ContainmentReports == Spec => []LeftoverIsReported
<1>1. Init => Pending
  BY DEF Init, Pending
<1>2. Pending => LeftoverIsReported
  BY DEF Pending, LeftoverIsReported
<1> QED BY <1>1, <1>2, InvAlways, PendingNext, PTL DEF Spec

-----------------------------------------------------------------------------
(* The worker is a sidecar                                                 *)

\* Until its command is waited for, a request has nothing to own up to.
Fresh == pc \in {"spawn", "wait"} \/ Capturing => ~left /\ ~required /\ ~timedOut

\* The command is there until the worker waits for it.
CommandThere == pc = "wait" => mine # {}

SInv == IInv /\ Pending /\ Fresh /\ CommandThere

LEMMA Phases ==
  /\ pc \in {"idle", "spawn"} \/ Capturing => Phase = "idle" /\ ~Executing
  /\ pc = "wait" => Phase = "command" /\ Executing
  /\ pc \in {"terminate", "again"} => Phase = pc /\ Executing
  /\ pc \in {"list", "read"} /\ why # "capture" => Phase = "contain" /\ Executing
  /\ pc = "answer" => Phase = "drain" /\ Executing
  /\ pc = "dead" => Phase = "dead" /\ ~Executing
BY DEF Phase, Containing, Capturing, Executing

LEMMA PhasesNext ==
  /\ pc' \in {"idle", "spawn"} \/ Capturing' => Phase' = "idle" /\ ~Executing'
  /\ pc' = "wait" => Phase' = "command" /\ Executing'
  /\ pc' \in {"terminate", "again"} => Phase' = pc' /\ Executing'
  /\ pc' \in {"list", "read"} /\ why' # "capture" => Phase' = "contain" /\ Executing'
  /\ pc' = "answer" => Phase' = "drain" /\ Executing'
  /\ pc' = "dead" => Phase' = "dead" /\ ~Executing'
BY DEF Phase, Containing, Capturing, Executing

\* A command cannot end behind the worker's back: one of its processes is the
\* worker's own child, and no other process can wait for that one.
LEMMA EnvironmentKeeps ==
  ASSUME IInv, Environment
  PROVE  /\ (mine' # {}) <=> (mine # {})
         /\ UNCHANGED <<pc, why, missed, timedOut, required, left>>
<1>1. UNCHANGED <<pc, why, missed, timedOut, required, left>>
  BY DEF Environment, Fork, Exit, ParentWaits, NewSession, Rename, scanVars, replyVars
<1>2. CASE \E p \in Pids : Fork(p) \/ Exit(p) \/ NewSession(p) \/ Rename(p)
  BY <1>1, <1>2 DEF Fork, Exit, NewSession, Rename
<1>3. ASSUME NEW p \in Pids, ParentWaits(p)
      PROVE  (mine' # {}) <=> (mine # {})
  <2>1. mine' = mine \ {p} /\ parent[p] # Worker
    BY <1>3 DEF ParentWaits, Free
  <2>2. mine # {} => \E d \in mine : parent[d] = Worker
    BY SomeRoot DEF IInv
  <2> QED BY <2>1, <2>2
<1> QED BY <1>1, <1>2, <1>3 DEF Environment

LEMMA FreshNext == SInv /\ [Next]_vars => Fresh' /\ CommandThere'
<1> SUFFICES ASSUME SInv, [Next]_vars
             PROVE  Fresh' /\ CommandThere'
  OBVIOUS
<1>1. CASE Accept
  BY <1>1 DEF Accept, Scan, Fresh, CommandThere
<1>2. CASE Spawn
  <2>1. UNCHANGED <<timedOut, required, left, why>> /\ pc = "spawn"
    BY <1>2 DEF Spawn, scanVars, replyVars
  <2>2. pc' = "wait" => mine' # {}
    BY <1>2 DEF Spawn
  <2>3. pc' \in {"wait", "idle"}
    BY <1>2 DEF Spawn
  <2> QED BY <2>1, <2>2, <2>3 DEF SInv, Fresh, Capturing, CommandThere
<1>3. CASE ListProc \/ (\E p \in Pids : ReadStat(p)) \/ Capture
  <2>1. /\ UNCHANGED <<timedOut, required, left, why>>
        /\ pc \in {"list", "read"} /\ pc' \in {"read", "spawn"}
        /\ pc' = "spawn" => why = "capture"
    BY <1>3 DEF ListProc, ReadStat, Capture, Read, scanVars, replyVars
  <2> QED BY <2>1 DEF SInv, Fresh, Capturing, CommandThere
<1>4. CASE CommandEnds \/ CommandTimesOut \/ ReapLeader \/ GroupTerminated
  <2>1. pc' \in {"terminate", "again"} \/ (pc' = "list" /\ why' = "first")
    BY <1>4 DEF CommandEnds, CommandTimesOut, ReapLeader, GroupTerminated, Scan
  <2> QED BY <2>1 DEF Fresh, Capturing, CommandThere
<1>5. CASE FirstLook \/ SignalTargets \/ LookAgain \/ GiveUp \/ Answer
  <2>1. \/ pc' \in {"answer", "dead", "idle"}
        \/ pc' = "list" /\ why' \in {"signal", "look"}
    BY <1>5 DEF FirstLook, SignalTargets, LookAgain, GiveUp, Answer, Scan
  <2> QED BY <2>1 DEF Fresh, Capturing, CommandThere
<1>6. CASE Environment
  BY <1>6, EnvironmentKeeps DEF SInv, Fresh, Capturing, CommandThere
<1>7. CASE UNCHANGED vars
  BY <1>7 DEF vars, procVars, scanVars, replyVars, SInv, Fresh, Capturing, CommandThere
<1> QED BY <1>1, <1>2, <1>3, <1>4, <1>5, <1>6, <1>7 DEF Next, WorkerNext

LEMMA SInvAlways == Spec => []SInv
<1>1. Init => SInv
  BY InvInit DEF SInv, Init, Pending, Fresh, CommandThere
<1>2. SInv /\ [Next]_vars => SInv'
  BY InvNext, PendingNext, FreshNext DEF SInv
<1> QED BY <1>1, <1>2, PTL DEF Spec

\* A step that the evaluation does not see.
LEMMA Unseen ==
  ASSUME Phase' = Phase, Executing' <=> Executing, (mine' # {}) <=> (mine # {}),
         UNCHANGED <<left, required, timedOut>>, (pc' = "answer") <=> (pc = "answer")
  PROVE  UNCHANGED Sidecar!sidecarVars
BY DEF Sidecar!sidecarVars

\* The steps of a request before its command, and the readings of /proc.
LEMMA UnseenStep ==
  ASSUME SInv, Accept \/ ListProc \/ (\E p \in Pids : ReadStat(p)) \/ Capture
  PROVE  [Sidecar!Next]_(Sidecar!sidecarVars)
<1>1. mine' = mine
  BY DEF Accept, ListProc, ReadStat, Capture, procVars
<1>2. CASE Accept
  <2>1. pc = "idle" /\ Capturing'
    BY <1>2 DEF Accept, Scan, Capturing
  <2>2. Phase' = Phase /\ ~Executing /\ ~Executing'
    BY <2>1, Phases, PhasesNext
  <2> QED BY <1>1, <2>2 DEF Sidecar!sidecarVars
<1>3. CASE ListProc \/ (\E p \in Pids : ReadStat(p)) \/ Capture
  <2>1. /\ pc \in {"list", "read"} /\ UNCHANGED <<why, left, required, timedOut>>
        /\ \/ pc' \in {"list", "read"}
           \/ pc' = "spawn" /\ why = "capture"
    BY <1>3 DEF ListProc, ReadStat, Capture, Read, scanVars, replyVars
  <2>2. Phase' = Phase /\ (Executing' <=> Executing)
    BY <2>1, Phases, PhasesNext DEF Capturing
  <2> QED BY <1>1, <2>1, <2>2, Unseen
<1> QED BY <1>2, <1>3

LEMMA SpawnSeen ==
  ASSUME SInv, Spawn
  PROVE  [Sidecar!Next]_(Sidecar!sidecarVars)
<1>1. /\ pc = "spawn" /\ pc' \in {"wait", "idle"}
      /\ UNCHANGED <<why, left, required, timedOut>>
      /\ pc' = "wait" => mine' # {}
      /\ pc' = "idle" => mine' = mine
  BY DEF Spawn, scanVars, replyVars, procVars
<1>2. ~left /\ ~required /\ ~timedOut
  BY <1>1 DEF SInv, Fresh
<1>3. CASE pc' = "idle"
  BY <1>1, <1>3, Phases, PhasesNext, Unseen
<1>4. CASE pc' = "wait"
  <2>1. Phase = "idle" /\ Phase' = "command"
    BY <1>1, <1>4, Phases, PhasesNext
  <2>2. Sidecar!Start
    BY <1>1, <1>2, <1>4, <2>1 DEF Sidecar!Start
  <2> QED BY <2>2 DEF Sidecar!Next
<1> QED BY <1>1, <1>3, <1>4

LEMMA CommandEndsSeen ==
  ASSUME SInv, CommandEnds
  PROVE  [Sidecar!Next]_(Sidecar!sidecarVars)
<1>1. /\ pc = "wait" /\ leader \in Zombies /\ mine' = mine \ {leader}
      /\ left' = (Running(mine) # {}) /\ timedOut' = timedOut
  BY DEF CommandEnds, Free
<1>2. ~left /\ ~required /\ ~timedOut
  BY <1>1 DEF SInv, Fresh
<1>3. left' => mine' # {}
  BY <1>1 DEF Running, Zombies
<1>4. \/ pc' = "terminate" /\ required' = TRUE
      \/ pc' = "list" /\ why' = "first" /\ required' = FALSE
  BY <1>2 DEF CommandEnds, Scan, SInv, IInv, TypeOK
<1>5. /\ Phase = "command" /\ Executing /\ Executing'
      /\ Phase' = IF required' THEN "terminate" ELSE "contain"
  BY <1>1, <1>4, Phases, PhasesNext
<1>6. required' \in BOOLEAN /\ left' \in BOOLEAN
  BY <1>1, <1>4
<1>7. pc' # "answer" /\ pc # "answer"
  BY <1>1, <1>4
<1>8. Sidecar!CommandEnds
  BY <1>1, <1>3, <1>5, <1>6, <1>7 DEF Sidecar!CommandEnds
<1> QED BY <1>8 DEF Sidecar!Next

LEMMA TimesOutSeen ==
  ASSUME SInv, CommandTimesOut
  PROVE  [Sidecar!Next]_(Sidecar!sidecarVars)
<1>1. /\ pc = "wait" /\ pc' = "terminate" /\ timedOut' = TRUE
      /\ mine' = mine /\ UNCHANGED <<left, required>>
  BY DEF CommandTimesOut, procVars
<1>2. Phase = "command" /\ Executing /\ Phase' = "terminate" /\ Executing'
  BY <1>1, Phases, PhasesNext
<1>3. Sidecar!CommandTimesOut
  BY <1>1, <1>2 DEF Sidecar!CommandTimesOut
<1> QED BY <1>3 DEF Sidecar!Next

LEMMA GroupTerminatedSeen ==
  ASSUME SInv, GroupTerminated
  PROVE  [Sidecar!Next]_(Sidecar!sidecarVars)
<1>1. /\ pc \in {"terminate", "again"} /\ mine' = mine
      /\ UNCHANGED <<left, required, timedOut>>
      /\ \/ pc = "terminate" /\ pc' = "again"
         \/ pc' = "list" /\ why' = "first"
  BY DEF GroupTerminated, Scan, procVars, replyVars
<1>2. /\ Phase = pc /\ Executing /\ Executing'
      /\ Phase' = IF pc' = "again" THEN "again" ELSE "contain"
  BY <1>1, Phases, PhasesNext
<1>3. Sidecar!GroupTerminated
  BY <1>1, <1>2 DEF Sidecar!GroupTerminated
<1> QED BY <1>3 DEF Sidecar!Next

\* Processes that are waited for while the command is being contained.
LEMMA FewerSeen ==
  ASSUME NEW S, mine' = mine \ S, Phase' = Phase, Executing, Executing',
         Phase \in {"terminate", "again", "contain"},
         UNCHANGED <<left, required, timedOut>>, pc # "answer", pc' # "answer"
  PROVE  [Sidecar!Next]_(Sidecar!sidecarVars)
<1>1. CASE mine' = {}
  <2>1. Sidecar!Vanish
    BY <1>1 DEF Sidecar!Vanish
  <2> QED BY <2>1 DEF Sidecar!Next
<1>2. CASE mine' # {}
  <2>1. mine # {}
    BY <1>2
  <2> QED BY <1>2, <2>1, Unseen
<1> QED BY <1>1, <1>2

LEMMA ReapLeaderSeen ==
  ASSUME SInv, ReapLeader
  PROVE  [Sidecar!Next]_(Sidecar!sidecarVars)
<1>1. /\ pc \in {"terminate", "again"} /\ pc' = pc /\ mine' = mine \ {leader}
      /\ UNCHANGED <<left, required, timedOut>>
  BY DEF ReapLeader, Free, replyVars
<1> QED BY <1>1, Phases, PhasesNext, FewerSeen

\* A reading that found nobody: nobody is left, and what was left is reported.
LEMMA ContainedSeen ==
  ASSUME SInv, pc = "read", unread = {}, why # "capture", Targets = {},
         pc' = "answer", mine' = mine, UNCHANGED <<missed, left, required, timedOut>>
  PROVE  [Sidecar!Next]_(Sidecar!sidecarVars)
<1>1. mine = {} \/ missed
  BY NobodyLeft DEF SInv
<1>2. left => required \/ missed
  BY <1>1 DEF SInv, Pending
<1>3. Phase = "contain" /\ Executing /\ Phase' = "drain" /\ Executing'
  BY Phases, PhasesNext
<1>4. Sidecar!Contained
  BY <1>1, <1>2, <1>3 DEF Sidecar!Contained
<1> QED BY <1>4 DEF Sidecar!Next

LEMMA FirstLookSeen ==
  ASSUME SInv, FirstLook
  PROVE  [Sidecar!Next]_(Sidecar!sidecarVars)
<1>1. /\ pc = "read" /\ unread = {} /\ why = "first" /\ mine' = mine
      /\ UNCHANGED <<left, timedOut>>
  BY DEF FirstLook, Read, procVars
<1>2. CASE Targets = {}
  BY <1>1, <1>2, ContainedSeen DEF FirstLook
<1>3. CASE Targets # {}
  <2>1. pc' = "list" /\ why' = "signal" /\ required' = TRUE
    BY <1>3 DEF FirstLook, Scan
  <2>2. Phase = "contain" /\ Executing /\ Phase' = "contain" /\ Executing'
    BY <1>1, <2>1, Phases, PhasesNext
  <2>3. Sidecar!Find
    BY <1>1, <2>1, <2>2 DEF Sidecar!Find
  <2> QED BY <2>3 DEF Sidecar!Next
<1> QED BY <1>2, <1>3

LEMMA SignalSeen ==
  ASSUME SInv, SignalTargets
  PROVE  [Sidecar!Next]_(Sidecar!sidecarVars)
<1>1. /\ pc = "read" /\ unread = {} /\ why = "signal"
      /\ UNCHANGED <<missed, left, required, timedOut>>
  BY DEF SignalTargets, Read, replyVars
<1>2. CASE Targets = {}
  <2>1. pc' = "answer" /\ mine' = mine
    BY <1>2 DEF SignalTargets, procVars
  <2> QED BY <1>1, <1>2, <2>1, ContainedSeen
<1>3. CASE Targets # {}
  <2>1. /\ pc' = "list" /\ why' = "look"
        /\ mine' = mine \ {p \in Targets \cap Zombies : table[p] = Worker /\ parent[p] = Worker}
    BY <1>3 DEF SignalTargets, Scan, Free
  <2>2. Phase = "contain" /\ Executing /\ Phase' = "contain" /\ Executing'
    BY <1>1, <2>1, Phases, PhasesNext
  <2> QED BY <1>1, <2>1, <2>2, FewerSeen
<1> QED BY <1>2, <1>3

LEMMA LookSeen ==
  ASSUME SInv, LookAgain
  PROVE  [Sidecar!Next]_(Sidecar!sidecarVars)
<1>1. /\ pc = "read" /\ unread = {} /\ why = "look" /\ mine' = mine
      /\ UNCHANGED <<missed, left, required, timedOut>>
  BY DEF LookAgain, Read, procVars, replyVars
<1>2. CASE Targets = {} /\ pc' = "answer"
  BY <1>1, <1>2, ContainedSeen
<1>3. CASE pc' = "list" /\ why' = "signal"
  BY <1>1, <1>3, Phases, PhasesNext, Unseen
<1> QED BY <1>2, <1>3 DEF LookAgain, Scan

LEMMA GiveUpSeen ==
  ASSUME SInv, GiveUp
  PROVE  [Sidecar!Next]_(Sidecar!sidecarVars)
<1>1. pc = "read" /\ why = "look" /\ UNCHANGED <<left, required, timedOut>>
  BY DEF GiveUp, Read, replyVars
<1>2. CASE round = "term"
  <2>1. pc' = "list" /\ why' = "signal" /\ mine' = mine
    BY <1>2 DEF GiveUp, Scan, procVars
  <2> QED BY <1>1, <2>1, Phases, PhasesNext, Unseen
<1>3. CASE round # "term"
  <2>1. pc' = "dead" /\ mine' = mine \ Pids
    BY <1>3 DEF GiveUp, Free
  <2>2. mine' = {}
    BY <2>1 DEF SInv, IInv, TypeOK, Used
  <2>3. Phase' = "dead" /\ ~Executing'
    BY <2>1, PhasesNext
  <2>4. Sidecar!Dies
    BY <2>2, <2>3 DEF Sidecar!Dies
  <2> QED BY <2>4 DEF Sidecar!Next
<1> QED BY <1>2, <1>3

LEMMA AnswerSeen ==
  ASSUME SInv, Answer
  PROVE  [Sidecar!Next]_(Sidecar!sidecarVars)
<1>1. pc = "answer" /\ pc' = "idle" /\ mine' = mine
  BY DEF Answer, procVars
<1>2. Phase = "drain" /\ Phase' = "idle" /\ ~Executing'
  BY <1>1, Phases, PhasesNext
<1>3. Sidecar!Reply
  BY <1>1, <1>2 DEF Sidecar!Reply
<1> QED BY <1>3 DEF Sidecar!Next

\* The worker keeps the promise of a ToolSidecar, the one that EvalTools'
\* evaluation counts on: however a command's processes fork, exit, leave the
\* group and orphan each other while /proc is read, they exist only until the
\* command is contained, and the reply owns up to what was left running.  What a
\* reading passes over because it does not decode is outside the promise.
THEOREM ContainmentImplementsSidecar == Spec => ImplementsSidecar
<1>1. Init => Sidecar!Init
  BY Phases DEF Init, Sidecar!Init
<1>2. SInv /\ [Next]_vars => [Sidecar!Next]_(Sidecar!sidecarVars)
  <2> SUFFICES ASSUME SInv, [Next]_vars
               PROVE  [Sidecar!Next]_(Sidecar!sidecarVars)
    OBVIOUS
  <2>1. CASE Accept
    BY <2>1, UnseenStep
  <2>2. CASE WorkerNext
    BY <2>2, UnseenStep, SpawnSeen, CommandEndsSeen, TimesOutSeen, ReapLeaderSeen,
       GroupTerminatedSeen, FirstLookSeen, SignalSeen, LookSeen, GiveUpSeen, AnswerSeen,
       Zenon DEF WorkerNext
  <2>3. CASE Environment
    <3>1. /\ (mine' # {}) <=> (mine # {})
          /\ UNCHANGED <<pc, why, timedOut, required, left>>
      BY <2>3, EnvironmentKeeps DEF SInv
    <3>2. Phase' = Phase /\ (Executing' <=> Executing)
      BY <3>1 DEF Phase, Containing, Executing
    <3> QED BY <3>1, <3>2, Unseen
  <2>4. CASE UNCHANGED vars
    <3>1. UNCHANGED <<pc, why, mine, timedOut, required, left>>
      BY <2>4 DEF vars, procVars, scanVars, replyVars
    <3>2. Phase' = Phase /\ (Executing' <=> Executing)
      BY <3>1 DEF Phase, Containing, Executing
    <3> QED BY <3>1, <3>2, Unseen
  <2> QED BY <2>1, <2>2, <2>3, <2>4 DEF Next
<1> QED BY <1>1, <1>2, SInvAlways, PTL DEF Spec, ImplementsSidecar, Sidecar!Spec
=============================================================================
