------------------------------ MODULE GitHooks ------------------------------
(***************************************************************************)
(* The hooks of the repository: jig installs its own over the operator's,    *)
(* keeps a backup and puts it back; and what the hooks decide when somebody   *)
(* commits or pushes.                                                         *)
(*                                                                            *)
(* A hook file is "none", "jig" or the number of a script the operator wrote. *)
(* Scripts, messages and what checks do are left out: a check passes, fails   *)
(* or times out, a message is conventional or not.                            *)
(***************************************************************************)
EXTENDS Naturals, Sequences

CONSTANTS
  HookNames,     \* in the order of HOOK_NAMES
  HookChecks,    \* check -> [scripted, required, eligible]
  PhaseChecks,   \* the automated checks of the ticket's current phase
  MaxScripts,    \* bound: scripts the operator writes
  MaxHookKills   \* bound: installs and uninstalls that are killed

ASSUME HooksAssumption == {MaxScripts, MaxHookKills} \subseteq Nat /\ HookNames \in Seq(STRING)

VARIABLES
  target,    \* hook -> its file
  backup,    \* hook -> its .jig-backup
  own,       \* hook -> the operator's scripts that he did not give up himself
  acting,    \* the install or uninstall under way: [what, force, todo, moved]
  written,   \* scripts written
  outcome,   \* what commits and pushes led to: "comments", "crashed", "pushed"
  hookKills

hookVars == <<target, backup, own, acting, written, outcome, hookKills>>

None0 == 0
JigHook == MaxScripts + 1
Hooks == {HookNames[i] : i \in DOMAIN HookNames}
NotActing == [what |-> "none", force |-> FALSE, todo |-> <<>>, moved |-> FALSE]
Own(x) == x \notin {None0, JigHook}
Cur == Head(acting.todo)
NextHook == acting' = [acting EXCEPT !.todo = Tail(@), !.moved = FALSE]

-----------------------------------------------------------------------------
(* install_hooks, uninstall_hooks: one hook after the other. *)

BeginHooks(what, force) ==
  /\ acting = NotActing
  /\ acting' = [what |-> what, force |-> force, todo |-> HookNames, moved |-> FALSE]
  /\ UNCHANGED <<target, backup, own, written, outcome, hookKills>>
EndHooks ==
  /\ acting # NotActing /\ acting.todo = <<>> /\ acting' = NotActing
  /\ UNCHANGED <<target, backup, own, written, outcome, hookKills>>

\* Nothing there, or a hook of jig's: it is written.
InstallHook ==
  /\ acting.what = "install" /\ acting.todo # <<>> /\ ~Own(target[Cur])
  /\ target' = [target EXCEPT ![Cur] = JigHook] /\ NextHook
  /\ UNCHANGED <<backup, own, written, outcome, hookKills>>

(* Mutant: an old backup is never in the way. *)
BackupMayBeLost(h) == TRUE
\* A second script of the operator's is only backed up over the first by force.
MayBackUp(h) == backup[h] = None0 \/ acting.force
RefuseHook ==
  /\ acting.what = "install" /\ acting.todo # <<>> /\ Own(target[Cur]) /\ ~MayBackUp(Cur)
  /\ acting' = NotActing
  /\ UNCHANGED <<target, backup, own, written, outcome, hookKills>>
BackUpHook ==
  /\ acting.what = "install" /\ acting.todo # <<>> /\ Own(target[Cur]) /\ MayBackUp(Cur)
  /\ backup' = [backup EXCEPT ![Cur] = target[Cur]] /\ target' = [target EXCEPT ![Cur] = None0]
  /\ own' = IF acting.force THEN [own EXCEPT ![Cur] = @ \ {backup[Cur]}] ELSE own
  /\ UNCHANGED <<acting, written, outcome, hookKills>>

\* Only a hook of jig's is removed; what was backed up comes back.
UninstallHook ==
  /\ acting.what = "uninstall" /\ acting.todo # <<>> /\ ~acting.moved
  /\ IF target[Cur] = JigHook
     THEN target' = [target EXCEPT ![Cur] = None0] /\ acting' = [acting EXCEPT !.moved = TRUE]
     ELSE NextHook /\ UNCHANGED target
  /\ UNCHANGED <<backup, own, written, outcome, hookKills>>
RestoreHook ==
  /\ acting.what = "uninstall" /\ acting.moved /\ NextHook
  /\ IF backup[Cur] # None0
     THEN target' = [target EXCEPT ![Cur] = backup[Cur]] /\ backup' = [backup EXCEPT ![Cur] = None0]
     ELSE UNCHANGED <<target, backup>>
  /\ UNCHANGED <<own, written, outcome, hookKills>>
KilledHooks ==
  /\ acting # NotActing /\ hookKills < MaxHookKills /\ hookKills' = hookKills + 1
  /\ acting' = NotActing
  /\ UNCHANGED <<target, backup, own, written, outcome>>

\* The operator writes a script of his own over whatever is there, or deletes
\* what is there.
OperatorWrites(h) ==
  /\ acting = NotActing /\ written < MaxScripts /\ written' = written + 1
  /\ target' = [target EXCEPT ![h] = written + 1]
  /\ own' = [own EXCEPT ![h] = (@ \ {target[h]}) \cup {written + 1}]
  /\ UNCHANGED <<backup, acting, outcome, hookKills>>
OperatorDeletes(h) ==
  /\ acting = NotActing /\ Own(target[h]) /\ target' = [target EXCEPT ![h] = None0]
  /\ own' = [own EXCEPT ![h] = @ \ {target[h]}]
  /\ UNCHANGED <<backup, acting, written, outcome, hookKills>>

-----------------------------------------------------------------------------
(* What the hooks do. *)

\* run_pre_commit: every required scripted check that may run in a hook.
PreCommitChecks == {c \in DOMAIN HookChecks : HookChecks[c].scripted /\ HookChecks[c].required /\ HookChecks[c].eligible}
\* run_pre_push: in a ticket's worktree the scripted checks of its phase; where
\* project, ticket or workflow cannot be read, the fallback command or nothing.
PrePushChecks(where) ==
  CASE where = "worktree" -> {c \in PhaseChecks : HookChecks[c].scripted}
    [] where = "fallback" -> {"pre_push_command"}
    [] OTHER -> {}
\* _run_scripted: a check that cannot be spawned, fails or times out fails.
HookPasses(checks, failing) == checks \cap failing = {}
\* run_commit_msg: conventional, or one of git's own.
MessagePasses(msg) == msg \in {"conventional", "autobypass"}

\* A commit goes through the hooks of jig's that are installed; afterwards the
\* mechanical reviewers are run, and whatever comes of it the commit stands.
CommitThroughHooks(failing, msg, review) ==
  /\ acting = NotActing
  /\ "pre-commit" \in Hooks /\ target["pre-commit"] = JigHook => HookPasses(PreCommitChecks, failing)
  /\ "commit-msg" \in Hooks /\ target["commit-msg"] = JigHook => MessagePasses(msg)
  /\ outcome' = IF review = "clean" THEN outcome ELSE outcome \cup {review}
  /\ UNCHANGED <<target, backup, own, acting, written, hookKills>>

PushThroughHooks(where, failing) ==
  /\ acting = NotActing
  /\ "pre-push" \in Hooks /\ target["pre-push"] = JigHook => HookPasses(PrePushChecks(where), failing)
  /\ outcome' = outcome \cup {"pushed"}
  /\ UNCHANGED <<target, backup, own, acting, written, hookKills>>

-----------------------------------------------------------------------------
HooksInit ==
  /\ target = [h \in Hooks |-> None0] /\ backup = [h \in Hooks |-> None0]
  /\ own = [h \in Hooks |-> {}] /\ acting = NotActing
  /\ written = 0 /\ outcome = {} /\ hookKills = 0

HooksNext ==
  \/ \E what \in {"install", "uninstall"}, force \in BOOLEAN : BeginHooks(what, force)
  \/ EndHooks \/ InstallHook \/ RefuseHook \/ BackUpHook \/ UninstallHook \/ RestoreHook \/ KilledHooks
  \/ \E h \in Hooks : OperatorWrites(h) \/ OperatorDeletes(h)
  \/ \E failing \in SUBSET DOMAIN HookChecks, msg \in {"conventional", "autobypass", "other"},
        review \in {"clean", "comments", "crashed"} : CommitThroughHooks(failing, msg, review)
  \/ \E failing \in SUBSET (DOMAIN HookChecks \cup {"pre_push_command"}),
        where \in {"worktree", "fallback", "nowhere"} : PushThroughHooks(where, failing)

HooksSpec == HooksInit /\ [][HooksNext]_hookVars

HooksTypeOK ==
  /\ written \in 0..MaxScripts /\ acting.what \in {"none", "install", "uninstall"}
  /\ \A h \in Hooks : {target[h], backup[h]} \subseteq (0..written) \cup {JigHook} /\ backup[h] # JigHook

\* A script of the operator's is never lost: it is the hook or its backup,
\* however often jig's hooks are installed and removed and wherever that is cut
\* short, until he replaces it, deletes it or forces an install.
OwnHooksKept == \A h \in Hooks : own[h] \subseteq {target[h], backup[h]}
=============================================================================
