----------------------------- MODULE Worktrees -----------------------------
(***************************************************************************)
(* The git repository of a project: a worktree and a branch for each ticket, *)
(* the merges of finished tickets into the base branch, and the operator who  *)
(* works in the main checkout and has hooks of his own.                       *)
(*                                                                            *)
(* A branch is the set of edits it holds; two branches conflict when each has *)
(* an edit the other lacks and the tickets of the two overlap.  What linters, *)
(* boundary rules and reviewers say about an edit is a choice.                *)
(***************************************************************************)
EXTENDS Naturals, Sequences, FiniteSets

CONSTANTS
  WtTickets,
  BlockedBy,     \* ticket -> the tickets it depends on
  Overlaps,      \* the pairs of tickets whose edits touch the same lines
  Strategies,    \* the merge strategies a project may be configured with
  MaxStarts,     \* bound: starts of tickets
  MaxGitFaults   \* bound: restarts of the daemon and acts of the operator

ASSUME WorktreesAssumption ==
  /\ Strategies \subseteq {"squash", "merge", "feature_branch", "pr"}
  /\ {MaxStarts, MaxGitFaults} \subseteq Nat

VARIABLES
  strategy,  \* project.merge_strategy
  base,      \* the commits of the base branch: [by, adds]
  branch,    \* ticket -> [exists, edits] of jig/<ticket>
  feature,   \* ticket -> the edits of feature/<ticket>
  tree,      \* ticket -> [exists, dirty, deps, context] of its worktree
  main,      \* the main checkout: [staged, dirty], and what the operator did while
             \* a merge was under way in it: [amid, lost], edits he staged, threw out
  job,       \* ticket -> what its task is doing
  mergeLock, \* the tickets inside _do_merge
  merged,    \* ticket -> its edits when a merge was reported
  replans,   \* the tickets whose worktree a replan task will remove
  excluded,  \* info/exclude names the context file
  starts, gitFaults \* the bounds' counters

gitVars == <<strategy, base, branch, feature, tree, main, job, mergeLock, merged, replans, excluded, starts, gitFaults>>

ContextFile == [of |-> "context", n |-> 0]
NoTree == [exists |-> FALSE, dirty |-> {}, deps |-> {}, context |-> FALSE]
BaseEdits == UNION {base[i].adds : i \in DOMAIN base}
Dirty(t) == tree[t].dirty # {}
Overlap(x, y) == \E e \in x \ y, f \in y \ x : {e.of, f.of} \in Overlaps
To(t, step) == job' = [job EXCEPT ![t] = step]

-----------------------------------------------------------------------------
(* The worktree of a ticket. *)

StartTicket(t) ==
  /\ job[t] = "off" /\ starts < MaxStarts /\ starts' = starts + 1 /\ To(t, "ensure")
  /\ UNCHANGED <<base, branch, feature, tree, main, mergeLock, merged, replans, excluded, gitFaults>>

\* _ensure_worktree: one that is there is taken as it is; otherwise a branch of
\* that name is deleted and both are made anew from the base branch.
EnsureWorktree(t) ==
  /\ job[t] = "ensure"
  /\ IF tree[t].exists
     THEN To(t, "sync") /\ UNCHANGED <<branch, tree>>
     ELSE /\ To(t, "deps")
          /\ branch' = [branch EXCEPT ![t] = [exists |-> TRUE, edits |-> BaseEdits]]
          /\ tree' = [tree EXCEPT ![t] = [NoTree EXCEPT !.exists = TRUE, !.deps = BlockedBy[t]]]
  /\ UNCHANGED <<base, feature, main, mergeLock, merged, replans, excluded, starts, gitFaults>>
\* merge_dep_into_worktree for each dependency; a missing or conflicting branch
\* fails the ticket, and the worktree stays.
MergeDependency(t, d) ==
  /\ job[t] = "deps" /\ d \in tree[t].deps
  /\ IF branch[d].exists /\ ~Overlap(branch[t].edits, branch[d].edits)
     THEN /\ branch' = [branch EXCEPT ![t].edits = @ \cup branch[d].edits]
          /\ tree' = [tree EXCEPT ![t].deps = @ \ {d}] /\ UNCHANGED job
     ELSE To(t, "off") /\ UNCHANGED <<branch, tree>>
  /\ UNCHANGED <<base, feature, main, mergeLock, merged, replans, excluded, starts, gitFaults>>
WorktreeReady(t) ==
  /\ job[t] = "deps" /\ tree[t].deps = {} /\ To(t, "sync")
  /\ UNCHANGED <<base, branch, feature, tree, main, mergeLock, merged, replans, excluded, starts, gitFaults>>

\* sync_project_claude_md: the project's context is written into the worktree
\* before every agent, and the file is then kept out of what git adds.
WriteContext(t) ==
  /\ job[t] = "sync" /\ tree[t].exists
  /\ tree' = [tree EXCEPT ![t].context = TRUE] /\ To(t, "exclude")
  /\ UNCHANGED <<base, branch, feature, main, mergeLock, merged, replans, excluded, starts, gitFaults>>
ExcludeContext(t) ==
  /\ job[t] = "exclude" /\ excluded' = TRUE /\ To(t, "work")
  /\ UNCHANGED <<base, branch, feature, tree, main, mergeLock, merged, replans, starts, gitFaults>>

AgentEdits(t) ==
  LET e == [of |-> t, n |-> starts]
  IN  /\ job[t] = "work" /\ tree[t].exists /\ e \notin branch[t].edits \cup tree[t].dirty
      /\ tree' = [tree EXCEPT ![t].dirty = @ \cup {e}]
      /\ UNCHANGED <<base, branch, feature, main, job, mergeLock, merged, replans, excluded, starts, gitFaults>>
\* commit_worktree: format, lint and boundaries first, then everything that is
\* not excluded is added.  A LintError or violation leaves it uncommitted.
Added(t) == tree[t].dirty \cup (IF tree[t].context /\ ~excluded THEN {ContextFile} ELSE {})
CommitWorktree(t) ==
  /\ job[t] = "work" /\ Dirty(t)
  /\ branch' = [branch EXCEPT ![t].edits = @ \cup Added(t)]
  /\ tree' = [tree EXCEPT ![t].dirty = {}]
  /\ UNCHANGED <<base, feature, main, job, mergeLock, merged, replans, excluded, starts, gitFaults>>

\* The last phase is over.
PhasesDone(t) ==
  /\ job[t] = "work" /\ tree[t].exists /\ To(t, "merge")
  /\ UNCHANGED <<base, branch, feature, tree, main, mergeLock, merged, replans, excluded, starts, gitFaults>>

-----------------------------------------------------------------------------
(* merge_ticket *)

MergeLockFree == mergeLock = {}

\* FEATURE_BRANCH and PR: no lock, the branch is replaced; a failing push or PR
\* only changes the message.
FeatureBranch(t) ==
  /\ job[t] = "merge" /\ strategy \in {"feature_branch", "pr"}
  /\ feature' = [feature EXCEPT ![t] = branch[t].edits] /\ To(t, "finish")
  /\ UNCHANGED <<base, branch, tree, main, mergeLock, merged, replans, excluded, starts, gitFaults>>

EnterMerge(t) ==
  /\ job[t] \in {"merge", "again"} /\ strategy \in {"squash", "merge"} /\ MergeLockFree
  /\ mergeLock' = mergeLock \cup {t}
  /\ To(t, IF job[t] = "merge" THEN "check" ELSE "recheck")
  /\ UNCHANGED <<base, branch, feature, tree, main, merged, replans, excluded, starts, gitFaults>>

\* The first conflict goes to the resolver, the second to the operator.
ConflictStep(t) == IF job[t] \in {"check", "stage", "commit"} THEN "resolving" ELSE "off"
LeaveMerge(t, step) == mergeLock' = mergeLock \ {t} /\ To(t, step)

(* Mutant: only what is not staged makes the checkout unfit. *)
CleanButForIndex == ~main.dirty
\* git status --porcelain is empty.
CheckoutClean == main.staged = {} /\ ~main.dirty

\* The main checkout and the worktree must be clean; then the base is merged
\* into the branch, in the worktree.
Integrate(t) ==
  /\ job[t] \in {"check", "recheck"}
  /\ \/ /\ ~CheckoutClean \/ (tree[t].exists /\ Dirty(t))
        /\ LeaveMerge(t, "off") /\ UNCHANGED branch
     \/ /\ CheckoutClean /\ ~(tree[t].exists /\ Dirty(t))
        /\ IF tree[t].exists /\ Overlap(branch[t].edits, BaseEdits)
           THEN LeaveMerge(t, ConflictStep(t)) /\ UNCHANGED branch
           ELSE /\ To(t, IF job[t] = "check" THEN "stage" ELSE "restage") /\ UNCHANGED mergeLock
                /\ branch' = IF tree[t].exists THEN [branch EXCEPT ![t].edits = @ \cup BaseEdits] ELSE branch
  /\ UNCHANGED <<base, feature, tree, main, merged, replans, excluded, starts, gitFaults>>

\* The merge is reported.  After a conflict that the resolver settled, a replan
\* task takes over the removal of the worktree.
Landed(t, adds) ==
  /\ base' = IF adds = {} THEN base ELSE Append(base, [by |-> t, adds |-> adds])
  /\ merged' = [merged EXCEPT ![t] = {e \in branch[t].edits : e.of = t}]
  /\ replans' = IF job[t] \in {"restage", "recommit"} THEN replans \cup {t} ELSE replans
  /\ LeaveMerge(t, IF job[t] \in {"restage", "recommit"} THEN "off" ELSE "finish")
  /\ UNCHANGED <<branch, feature, tree, excluded, starts, gitFaults>>

\* git merge fails: a conflict, a hook of the operator's or a file of his in the
\* way.  A plain merge that had begun is aborted and leaves what he edited; after
\* merge --squash, or where git refused to begin, the checkout is reset hard.
MergeConflict(t, aborted) ==
  /\ job[t] \in {"stage", "restage"} /\ (aborted => strategy = "merge")
  /\ LeaveMerge(t, ConflictStep(t))
  /\ main' = [main EXCEPT !.staged = {}, !.dirty = @ /\ aborted]
  /\ UNCHANGED <<base, branch, feature, tree, merged, replans, excluded, starts, gitFaults>>
\* A plain merge commits at once; merge --squash only stages.
PlainMerge(t) ==
  /\ job[t] \in {"stage", "restage"} /\ strategy = "merge" /\ ~Overlap(branch[t].edits, BaseEdits)
  /\ Landed(t, branch[t].edits \ BaseEdits) /\ UNCHANGED main
StageSquash(t) ==
  /\ job[t] \in {"stage", "restage"} /\ strategy = "squash" /\ ~Overlap(branch[t].edits, BaseEdits)
  /\ To(t, IF job[t] = "stage" THEN "commit" ELSE "recommit")
  /\ main' = [main EXCEPT !.staged = @ \cup (branch[t].edits \ BaseEdits)]
  /\ UNCHANGED <<base, branch, feature, tree, mergeLock, merged, replans, excluded, starts, gitFaults>>
\* git commit takes all that is staged by then; if nothing is, the branch is
\* taken to be on the base already.
CommitSquash(t) ==
  /\ job[t] \in {"commit", "recommit"}
  /\ Landed(t, main.staged) /\ main' = [main EXCEPT !.staged = {}]
\* git commit fails, by a hook or for want of an identity: a merge conflict too,
\* and the checkout is reset hard.
CommitFails(t) ==
  /\ job[t] \in {"commit", "recommit"} /\ main.staged # {}
  /\ LeaveMerge(t, ConflictStep(t))
  /\ main' = [main EXCEPT !.staged = {}, !.dirty = FALSE]
  /\ UNCHANGED <<base, branch, feature, tree, merged, replans, excluded, starts, gitFaults>>

\* _try_resolve_conflict: the agent merges the base into the branch, or gives up.
ResolveConflict(t, ok) ==
  /\ job[t] = "resolving" /\ To(t, IF ok THEN "again" ELSE "off")
  /\ branch' = IF ok THEN [branch EXCEPT ![t].edits = @ \cup BaseEdits] ELSE branch
  /\ UNCHANGED <<base, feature, tree, main, mergeLock, merged, replans, excluded, starts, gitFaults>>

\* remove_worktree(keep_branch): now, or when the replan is over, whoever may
\* have taken up the ticket again.
RemoveTree(t) ==
  /\ \/ job[t] = "finish" /\ To(t, "off") /\ UNCHANGED replans
     \/ t \in replans /\ replans' = replans \ {t} /\ UNCHANGED job
  /\ tree' = [tree EXCEPT ![t] = NoTree]
  /\ UNCHANGED <<base, branch, feature, main, mergeLock, merged, excluded, starts, gitFaults>>
\* The agent is in a worktree that is gone: its run fails.
WorktreeGone(t) ==
  /\ job[t] \in {"sync", "work", "exclude"} /\ ~tree[t].exists /\ To(t, "off")
  /\ UNCHANGED <<base, branch, feature, tree, main, mergeLock, merged, replans, excluded, starts, gitFaults>>

-----------------------------------------------------------------------------
(* Faults and the operator. *)

GitFault == gitFaults < MaxGitFaults /\ gitFaults' = gitFaults + 1

DaemonRestart ==
  /\ GitFault /\ job' = [t \in WtTickets |-> "off"] /\ mergeLock' = {} /\ replans' = {}
  /\ UNCHANGED <<base, branch, feature, tree, main, merged, excluded, starts>>
OperatorEdit == [of |-> "operator", n |-> gitFaults]
\* A merge has seen a clean checkout and is not done with it.
MergeUnderWay == \E t \in WtTickets : job[t] \in {"stage", "restage", "commit", "recommit"}
WhileMerging(edits) == IF MergeUnderWay THEN edits ELSE {}

\* The lock is the daemon's: nothing keeps the operator out at any moment.
OperatorEdits ==
  /\ GitFault /\ main' = [main EXCEPT !.dirty = TRUE]
  /\ UNCHANGED <<base, branch, feature, tree, job, mergeLock, merged, replans, excluded, starts>>
OperatorStages ==
  /\ GitFault
  /\ main' = [main EXCEPT !.staged = @ \cup {OperatorEdit}, !.amid = @ \cup WhileMerging({OperatorEdit})]
  /\ UNCHANGED <<base, branch, feature, tree, job, mergeLock, merged, replans, excluded, starts>>
\* He commits or throws out what the checkout holds.
OperatorTidies(commits) ==
  /\ GitFault /\ ~CheckoutClean
  /\ base' = IF commits
             THEN Append(base, [by |-> "operator",
                                adds |-> main.staged \cup IF main.dirty THEN {OperatorEdit} ELSE {}])
             ELSE base
  /\ main' = [main EXCEPT !.staged = {}, !.dirty = FALSE,
                          !.lost = @ \cup IF commits THEN {} ELSE WhileMerging(main.staged)]
  /\ UNCHANGED <<branch, feature, tree, job, mergeLock, merged, replans, excluded, starts>>
\* jig validate <ticket>: the worktree and the branch go.
ValidateTicket(t) ==
  /\ GitFault /\ tree[t].exists
  /\ tree' = [tree EXCEPT ![t] = NoTree]
  /\ branch' = [branch EXCEPT ![t] = [exists |-> FALSE, edits |-> {}]]
  /\ UNCHANGED <<base, feature, main, job, mergeLock, merged, replans, excluded, starts>>

-----------------------------------------------------------------------------
GitInit ==
  /\ strategy \in Strategies
  /\ base = <<>> /\ branch = [t \in WtTickets |-> [exists |-> FALSE, edits |-> {}]]
  /\ feature = [t \in WtTickets |-> {}] /\ tree = [t \in WtTickets |-> NoTree]
  /\ main = [staged |-> {}, dirty |-> FALSE, amid |-> {}, lost |-> {}] /\ job = [t \in WtTickets |-> "off"]
  /\ mergeLock = {} /\ merged = [t \in WtTickets |-> {}] /\ replans = {}
  /\ excluded = FALSE /\ starts = 0 /\ gitFaults = 0

GitNext ==
  /\ UNCHANGED strategy
  /\ \/ \E t \in WtTickets :
          \/ StartTicket(t) \/ EnsureWorktree(t) \/ \E d \in WtTickets : MergeDependency(t, d)
          \/ WorktreeReady(t) \/ WriteContext(t) \/ ExcludeContext(t) \/ AgentEdits(t)
          \/ CommitWorktree(t) \/ PhasesDone(t) \/ FeatureBranch(t) \/ EnterMerge(t)
          \/ Integrate(t) \/ PlainMerge(t) \/ StageSquash(t)
          \/ CommitSquash(t) \/ CommitFails(t) \/ RemoveTree(t) \/ WorktreeGone(t)
          \/ \E ok \in BOOLEAN : ResolveConflict(t, ok) \/ MergeConflict(t, ok)
          \/ ValidateTicket(t)
     \/ DaemonRestart \/ OperatorEdits \/ OperatorStages \/ \E commits \in BOOLEAN : OperatorTidies(commits)

GitSpec == GitInit /\ [][GitNext]_gitVars

GitTypeOK ==
  /\ strategy \in Strategies /\ mergeLock \subseteq WtTickets /\ replans \subseteq WtTickets
  /\ \A t \in WtTickets : ~tree[t].exists => tree[t] = NoTree
  /\ \A t \in WtTickets : job[t] \in {"off", "ensure", "deps", "sync", "work", "exclude", "merge", "again", "check",
       "recheck", "stage", "restage", "commit", "recommit", "resolving", "finish"}

\* A commit that a merge puts on the base holds edits of its own ticket and of
\* those it depends on, directly or through others, never what another merge or
\* a crash left in the checkout or the operator had staged before the merge
\* looked, and never the context file.  What he stages between that look and the
\* commit goes with it: _do_merge does not look again.
ClosedSets == {S \in SUBSET WtTickets : \A t \in S : BlockedBy[t] \subseteq S}
OfTickets(S, edits) == \A e \in edits : e.of \in S
MergesAreTheirOwn ==
  \A i \in DOMAIN base : base[i].by # "operator" =>
    \A S \in ClosedSets : base[i].by \in S => OfTickets(S, base[i].adds \ main.amid)
\* What was reported as merged is on the base, whatever happens to branches
\* and worktrees afterwards and whatever fails on the way, but for what the
\* operator threw out of the checkout while the merge was under way: nothing is
\* staged then, and _do_merge reports a branch that is on the base already.
MergedIsOnBase == \A t \in WtTickets : merged[t] \subseteq BaseEdits \cup main.lost
============================================================================
