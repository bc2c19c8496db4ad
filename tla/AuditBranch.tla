---------------------------- MODULE AuditBranch ----------------------------
(***************************************************************************)
(* The branch of a quality_loop campaign and what its manifest says of it, *)
(* without worktree, index, agents, kills or resumes.  Contents pass a     *)
(* validation before the manifest accepts them, accepted contents are      *)
(* settled once the branch has them, and a campaign whose commits are left *)
(* to the host is published when all that is settled is on the branch.     *)
(* Contents are what git takes of a package: files it ignores are no part  *)
(* of them.                                                                *)
(***************************************************************************)
CONSTANTS Tasks, Contents, Original

VARIABLES
  deferred,   \* commits are left to the host; never changes
  passed,     \* contents that passed a validation, by task
  entry,      \* of the manifest, by task: open, accepted or settled
  branch,     \* contents of the last commit, by task
  published

branchVars == <<deferred, passed, entry, branch, published>>

Open == [state |-> "open", content |-> Original]
Accepted(t) == entry[t].state = "accepted"
OnBranch(t) == branch[t] = entry[t].content

Init ==
  /\ deferred \in BOOLEAN /\ published = FALSE
  /\ passed = [t \in Tasks |-> {}] /\ entry = [t \in Tasks |-> Open]
  /\ branch = [t \in Tasks |-> Original]

Pass(t, c) ==
  /\ entry[t] = Open
  /\ passed' = [passed EXCEPT ![t] = @ \cup {c}]
  /\ UNCHANGED <<deferred, entry, branch, published>>

\* An audit ends: with changes for the host, or with contents that are as
\* they were or were committed at once.
Conclude(t, c) ==
  /\ entry[t] = Open
  /\ \/ /\ deferred /\ c \in passed[t]
        /\ entry' = [entry EXCEPT ![t] = [state |-> "accepted", content |-> c]]
     \/ entry' = [entry EXCEPT ![t] = [state |-> "settled", content |-> c]]
  /\ UNCHANGED <<deferred, passed, branch, published>>

\* The files are no longer those of the entry: the task is audited again.
Reopen(t) ==
  /\ entry' = [entry EXCEPT ![t] = Open]
  /\ UNCHANGED <<deferred, passed, branch, published>>

\* The host commits the contents of an accepted task, perhaps with what was
\* staged of others that it will commit.
Commit ==
  /\ \A t \in Tasks : branch'[t] # branch[t] => branch'[t] \in passed[t] /\ (deferred => Accepted(t))
  /\ deferred => \E t \in Tasks : Accepted(t) /\ branch'[t] = entry[t].content
  /\ UNCHANGED <<deferred, passed, entry, published>>

Settle(t) ==
  /\ Accepted(t) /\ OnBranch(t)
  /\ entry' = [entry EXCEPT ![t].state = "settled"]
  /\ UNCHANGED <<deferred, passed, branch, published>>

Publish ==
  /\ deferred => \A t \in Tasks : entry[t] # Open => entry[t].state = "settled" /\ OnBranch(t)
  /\ published' = TRUE
  /\ UNCHANGED <<deferred, passed, entry, branch>>

\* A resume found tasks to audit again.
Withdraw ==
  /\ published' = FALSE
  /\ UNCHANGED <<deferred, passed, entry, branch>>

Next ==
  \/ \E t \in Tasks : Reopen(t) \/ Settle(t) \/ \E c \in Contents : Pass(t, c) \/ Conclude(t, c)
  \/ Commit \/ Publish \/ Withdraw

Spec == Init /\ [][Next]_branchVars

=============================================================================
