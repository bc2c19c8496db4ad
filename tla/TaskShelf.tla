----------------------------- MODULE TaskShelf -----------------------------
(***************************************************************************)
(* What the campaigns of the task builder promise to whoever uses their    *)
(* output directory, without drafts, generators, copies, locks or          *)
(* processes: a shelf with one place for each task.  A campaign puts a     *)
(* content on a free place if it has accepted that content and may have    *)
(* it; others may find it there, but never replace it.  Each campaign      *)
(* keeps a register in which a task gets one verdict, for good, and        *)
(* "installed" only for what the shelf holds at that moment.               *)
(***************************************************************************)
CONSTANTS Campaigns, Tasks, Contents, Absent,
          Legal      \* campaign -> contents it may put on the shelf

VARIABLES
  accepted,  \* <<campaign, task, content>> that the campaign accepted
  shelf,     \* task -> what is in its place
  touched,   \* places that somebody else has changed
  register,  \* campaign -> task -> its verdict
  barred     \* campaigns that may put and register nothing more as installed

shelfVars == <<accepted, shelf, touched, register, barred>>

Files == Contents \cup {Absent}
Open == [state |-> "open", digest |-> Absent]

Init ==
  /\ accepted = {}
  /\ shelf = [t \in Tasks |-> Absent] /\ touched = {}
  /\ register = [c \in Campaigns |-> [t \in Tasks |-> Open]]
  /\ barred = {}

Accept(c, t) ==
  /\ \E f \in Files : accepted' = accepted \cup {<<c, t, f>>}
  /\ UNCHANGED <<shelf, touched, register, barred>>

\* What a campaign may vouch for.
Good(c, t, f) == c \notin barred /\ f \in Legal[c] /\ <<c, t, f>> \in accepted

Put(c, t) ==
  /\ shelf[t] = Absent
  /\ \E f \in Files : Good(c, t, f) /\ shelf' = [shelf EXCEPT ![t] = f]
  /\ UNCHANGED <<accepted, touched, register, barred>>

Enter(c, t, entry) ==
  register' = [register EXCEPT ![c] = [register[c] EXCEPT ![t] = entry]]

Install(c, t) ==
  /\ register[c][t] = Open
  /\ \E f \in Files :
       /\ Good(c, t, f) /\ (shelf[t] = f \/ t \in touched)
       /\ Enter(c, t, [state |-> "installed", digest |-> f])
  /\ UNCHANGED <<accepted, shelf, touched, barred>>

GiveUp(c, t) ==
  /\ register[c][t] = Open
  /\ Enter(c, t, [state |-> "failed", digest |-> Absent])
  /\ UNCHANGED <<accepted, shelf, touched, barred>>

Bar(c) ==
  /\ barred' = barred \cup {c}
  /\ UNCHANGED <<accepted, shelf, touched, register>>

Touch(t) ==
  /\ shelf[t] # Absent
  /\ touched' = touched \cup {t}
  /\ \E f \in Files : shelf' = [shelf EXCEPT ![t] = f]
  /\ UNCHANGED <<accepted, register, barred>>

Next ==
  \/ \E c \in Campaigns, t \in Tasks :
       Accept(c, t) \/ Put(c, t) \/ Install(c, t) \/ GiveUp(c, t)
  \/ \E c \in Campaigns : Bar(c)
  \/ \E t \in Tasks : Touch(t)

Spec == Init /\ [][Next]_shelfVars

=============================================================================
