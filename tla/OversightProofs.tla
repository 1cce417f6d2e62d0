-------------------------- MODULE OversightProofs --------------------------
(* What is set up for a run, a prompt, a hook, a branch or a proposal is kept *)
(* or cleaned up as promised; and what holds of each part of the suite alone  *)
(* holds of the suite, as its steps are steps of one part, or leave it.  The *)
(* types of all parts are proved here too, the suite's last.                  *)
EXTENDS MCOversight, SharingProofs, VerdictProofs, FiniteSetTheorems, SequenceTheorems,
        WellFoundedInduction, TLAPS

-----------------------------------------------------------------------------
(* AgentSession: what a run that is over can have left, and after which     *)
(* failure.  By the step a run has come to, what it may still hold.          *)
SessionHolds ==
  /\ DOMAIN ses = Spawns /\ \A s \in Spawns : "at" \in DOMAIN ses[s]
  /\ \A s \in Spawns : s \in subs => At(s, "run") \/ At(s, "finally") \/ At(s, "unsubscribed_never")
                                     \/ At(s, "over_subscribed")
  /\ \A s \in Spawns : s \in beating => At(s, "run") \/ At(s, "finally")
  /\ \A s \in Spawns : At(s, "over") \/ At(s, "off") \/ At(s, "prompt") \/ At(s, "policy")
                       \/ At(s, "server") \/ At(s, "config") \/ At(s, "over_subscribed") => s \notin cfgDirs

(* LEMMA: no run of an agent starts with anything set up.                    *)
LEMMA SessionHoldsInit == SessionInit => SessionHolds
  BY DEF SessionInit, SessionHolds, NoSession, At

(* LEMMA: what a run holds follows its steps, and the last one lets go.      *)
LEMMA SessionHoldsStep ==
  ASSUME SessionHolds, [SessionNext]_sesVars
  PROVE  SessionHolds'
<1> USE DEF SessionHolds, At
<1>1. ASSUME NEW s \in Spawns, NEW role, NEW t, StartSession(s, role, t) PROVE SessionHolds'
  BY <1>1 DEF StartSession, NoSession
<1>2. ASSUME NEW s \in Spawns, NEW has, BuildAgentPrompt(s, has) PROVE SessionHolds'
  BY <1>2 DEF BuildAgentPrompt, Moves
<1>3. ASSUME NEW s \in Spawns, NEW b, MaterializePolicy(s, b) PROVE SessionHolds'
  BY <1>3 DEF MaterializePolicy
<1>4. ASSUME NEW s \in Spawns, NEW b, MakeConfigDir(s, b) PROVE SessionHolds'
  BY <1>4 DEF MakeConfigDir, Moves
<1>5. ASSUME NEW s \in Spawns, NEW o, SubscribeAgent(s, o) PROVE SessionHolds'
  BY <1>5 DEF SubscribeAgent, Moves
<1>6. ASSUME NEW s \in Spawns, CreateServer(s) PROVE SessionHolds'
  BY <1>6 DEF CreateServer
<1>7. ASSUME NEW s \in Spawns, PromptStream(s) PROVE SessionHolds'
  <2>1. DOMAIN ses' = DOMAIN ses /\ \A x \in Spawns : DOMAIN ses'[x] = DOMAIN ses[x] /\ ses'[x].at = ses[x].at
    BY <1>7 DEF PromptStream
  <2> QED BY <1>7, <2>1 DEF PromptStream
<1>8. ASSUME NEW s \in Spawns, StopHeartbeat(s) PROVE SessionHolds'
  BY <1>8 DEF StopHeartbeat
<1>9. ASSUME NEW s \in Spawns, LeaveTopic(s) PROVE SessionHolds'
  BY <1>9 DEF LeaveTopic, Moves, Unsubscribed
<1>10. ASSUME NEW s \in Spawns, RunAgentEnds(s) PROVE SessionHolds'
  <2>1. /\ DOMAIN ses' = Spawns /\ \A x \in Spawns : "at" \in DOMAIN ses'[x]
        /\ \A x \in Spawns \ {s} : ses'[x] = ses[x]
    BY <1>10 DEF RunAgentEnds
  <2>2. ses'[s].at = CASE ses[s].at = "out" -> "over" [] ses[s].at = "orphaned" -> "over_orphaned"
                       [] OTHER -> "over_subscribed"
    BY <1>10 DEF RunAgentEnds
  <2>3. /\ ses[s].at \in {"out", "orphaned", "unsubscribed_never"} /\ UNCHANGED <<subs, beating>>
        /\ cfgDirs' = IF ses[s].at = "orphaned" THEN cfgDirs ELSE cfgDirs \ {s}
    BY <1>10 DEF RunAgentEnds
  <2> QED BY <2>1, <2>2, <2>3
<1>11. ASSUME NEW s \in Spawns, NEW tool, NEW t, BeginToolCall(s, tool, t) PROVE SessionHolds'
  BY <1>11 DEF BeginToolCall
<1>12. ASSUME NEW s \in Spawns, NEW status, EndToolCall(s, status) PROVE SessionHolds'
  BY <1>12 DEF EndToolCall
<1>13. ASSUME NEW s \in Spawns, NEW how, AgentStops(s, how) PROVE SessionHolds'
  BY <1>13 DEF AgentStops
<1>14. CASE UNCHANGED sesVars
  BY <1>14 DEF sesVars
<1> QED
  BY <1>1, <1>2, <1>3, <1>4, <1>5, <1>6, <1>7, <1>8, <1>9, <1>10, <1>11, <1>12, <1>13, <1>14
  DEF SessionNext

(* THEOREM: an agent's run that is over has no heartbeat; its directory      *)
(* stays only when ensure_agent_config_dir failed, its subscription only     *)
(* when the set-up failed between subscribe_agent and the inner try          *)
(* (run_agent's two finally blocks and what lies outside them).              *)
THEOREM SessionEndsClean == SessionSpec => []EndsClean
<1>1. SessionHolds => EndsClean BY DEF SessionHolds, EndsClean, IsOver, At
<1> QED BY SessionHoldsInit, SessionHoldsStep, <1>1, PTL DEF SessionSpec

-----------------------------------------------------------------------------
(* GitHooks: the operator's scripts.  What is under way names hooks only, a  *)
(* hook that was removed and not yet restored is empty, and the scripts that *)
(* still count were written, so that none of them is taken for one of jig's. *)
Actings == [what : {"none", "install", "uninstall"}, force : BOOLEAN, todo : Seq(Hooks), moved : BOOLEAN]
HooksShape ==
  /\ written \in 0..MaxScripts
  /\ DOMAIN target = Hooks /\ DOMAIN backup = Hooks /\ DOMAIN own = Hooks
  /\ acting \in Actings
HooksTidy ==
  /\ \A h \in Hooks : own[h] \subseteq 1..written
  /\ acting.moved => acting.todo # <<>> /\ target[Cur] = None0
HooksInv == HooksShape /\ HooksTidy /\ OwnHooksKept

(* LEMMA: the record of a command that is not at work is one of its records. *)
LEMMA IdleIsActing == NotActing \in Actings
<1>1. <<>> \in Seq(Hooks) BY EmptySeq
<1> QED BY <1>1 DEF NotActing, Actings

(* LEMMA: no hook is there yet, so nothing of the operator's is out of       *)
(* place.                                                                    *)
LEMMA HooksInitOK == HooksInit => HooksInv
<1> SUFFICES ASSUME HooksInit PROVE HooksInv OBVIOUS
<1>1. MaxScripts \in Nat BY HooksAssumption
<1>2. HooksShape BY <1>1, IdleIsActing DEF HooksInit, HooksShape
<1>3. HooksTidy /\ OwnHooksKept BY DEF HooksInit, HooksTidy, OwnHooksKept, NotActing
<1> QED BY <1>2, <1>3 DEF HooksInv

(* LEMMA: going on to the next hook keeps the shape of what is under way. *)
LEMMA NextHookOK ==
  ASSUME HooksShape, acting.todo # <<>>, NextHook
  PROVE  /\ acting' \in Actings
         /\ acting'.moved = FALSE
<1>1. Tail(acting.todo) \in Seq(Hooks) BY HeadTailProperties DEF HooksShape, Actings
<1> QED BY <1>1 DEF HooksShape, Actings, NextHook

(* LEMMA: each step of install, uninstall or the operator's, killed or not,  *)
(* leaves his scripts where they can be found.                               *)
LEMMA HooksStepOK ==
  ASSUME HooksInv, [HooksNext]_hookVars
  PROVE  HooksInv'
<1> USE DEF HooksInv
<1>a. MaxScripts \in Nat /\ JigHook = MaxScripts + 1 /\ None0 = 0 /\ HookNames \in Seq(Hooks)
  BY HooksAssumption DEF JigHook, None0, Hooks
<1>b. \A h \in Hooks : JigHook \notin own[h] /\ None0 \notin own[h]
  BY <1>a DEF HooksShape, HooksTidy
<1>c. acting.todo # <<>> => Cur \in Hooks
  BY HeadTailProperties DEF HooksShape, Actings, Cur
<1>1. ASSUME NEW what \in {"install", "uninstall"}, NEW force \in BOOLEAN, BeginHooks(what, force)
      PROVE  HooksInv'
  <2>a. acting' \in Actings
    <3>1. what \in {"none", "install", "uninstall"} OBVIOUS
    <3> QED BY <1>a, <1>1, <3>1 DEF BeginHooks, Actings
  <2>1. HooksShape' BY <1>1, <2>a DEF BeginHooks, HooksShape
  <2>2. HooksTidy' /\ OwnHooksKept' BY <1>1 DEF BeginHooks, HooksTidy, OwnHooksKept
  <2> QED BY <2>1, <2>2
<1>2. CASE EndHooks \/ RefuseHook \/ KilledHooks
  <2>1. acting' = NotActing /\ UNCHANGED <<target, backup, own, written>>
    BY <1>2 DEF EndHooks, RefuseHook, KilledHooks
  <2>2. HooksShape' BY <2>1, IdleIsActing DEF HooksShape
  <2>3. HooksTidy' /\ OwnHooksKept' BY <2>1 DEF HooksTidy, OwnHooksKept, NotActing
  <2> QED BY <2>2, <2>3
<1>3. CASE InstallHook
  <2>1. acting.todo # <<>> /\ NextHook /\ UNCHANGED <<backup, own, written>>
    BY <1>3 DEF InstallHook
  <2>2. target[Cur] \notin own[Cur] /\ target' = [target EXCEPT ![Cur] = JigHook]
    BY <1>3, <1>b, <1>c DEF InstallHook, Own
  <2>3. HooksShape' BY <2>1, <2>2, NextHookOK DEF HooksShape
  <2>4. HooksTidy' BY <2>1, NextHookOK DEF HooksTidy
  <2>5. OwnHooksKept' BY <1>c, <2>1, <2>2 DEF OwnHooksKept, HooksShape
  <2> QED BY <2>3, <2>4, <2>5
<1>4. CASE BackUpHook
  <2>1. /\ acting.todo # <<>> /\ UNCHANGED <<acting, written>>
        /\ target' = [target EXCEPT ![Cur] = None0] /\ backup' = [backup EXCEPT ![Cur] = target[Cur]]
        /\ own' = IF acting.force THEN [own EXCEPT ![Cur] = @ \ {backup[Cur]}] ELSE own
        /\ backup[Cur] = None0 \/ acting.force
    BY <1>4 DEF BackUpHook, MayBackUp
  <2>2. HooksShape' BY <2>1 DEF HooksShape
  <2>3. \A h \in Hooks : own'[h] \subseteq own[h] BY <1>c, <2>1 DEF HooksShape
  <2>4. target'[Cur] = None0 BY <1>c, <2>1 DEF HooksShape
  <2>5. HooksTidy' BY <2>1, <2>3, <2>4 DEF HooksTidy, Cur
  <2>6. own'[Cur] \subseteq {target[Cur]} BY <1>b, <1>c, <2>1 DEF OwnHooksKept, HooksShape
  <2>7. OwnHooksKept' BY <1>c, <2>1, <2>3, <2>6 DEF OwnHooksKept, HooksShape
  <2> QED BY <2>2, <2>5, <2>7
<1>5. CASE UninstallHook
  <2>1. acting.todo # <<>> /\ ~acting.moved /\ UNCHANGED <<backup, own, written>>
    BY <1>5 DEF UninstallHook
  <2>2. CASE target[Cur] = JigHook
    <3>1. /\ target' = [target EXCEPT ![Cur] = None0] /\ acting' = [acting EXCEPT !.moved = TRUE]
      BY <1>5, <2>2 DEF UninstallHook
    <3>2. HooksShape' BY <2>1, <3>1 DEF HooksShape, Actings
    <3>3. acting'.todo = acting.todo /\ target'[Cur] = None0 BY <1>c, <2>1, <3>1 DEF HooksShape, Actings
    <3>4. HooksTidy' BY <2>1, <3>3 DEF HooksTidy, Cur
    <3>5. OwnHooksKept' BY <1>b, <1>c, <2>1, <2>2, <3>1 DEF OwnHooksKept, HooksShape
    <3> QED BY <3>2, <3>4, <3>5
  <2>3. CASE target[Cur] # JigHook
    <3>1. NextHook /\ UNCHANGED target BY <1>5, <2>3 DEF UninstallHook
    <3>2. HooksShape' /\ HooksTidy' BY <2>1, <3>1, NextHookOK DEF HooksShape, HooksTidy
    <3>3. OwnHooksKept' BY <2>1, <3>1 DEF OwnHooksKept
    <3> QED BY <3>2, <3>3
  <2> QED BY <2>2, <2>3
<1>6. CASE RestoreHook
  <2>1. acting.moved /\ NextHook /\ UNCHANGED <<own, written>> BY <1>6 DEF RestoreHook
  <2>2. acting.todo # <<>> /\ target[Cur] = None0 BY <2>1 DEF HooksTidy
  <2>3. \/ UNCHANGED <<target, backup>>
        \/ target' = [target EXCEPT ![Cur] = backup[Cur]] /\ backup' = [backup EXCEPT ![Cur] = None0]
    BY <1>6 DEF RestoreHook
  <2>4. HooksShape' BY <2>1, <2>2, <2>3, NextHookOK DEF HooksShape
  <2>5. HooksTidy' BY <2>1, <2>2, NextHookOK DEF HooksTidy
  <2>6. OwnHooksKept' BY <1>b, <1>c, <2>1, <2>2, <2>3 DEF OwnHooksKept, HooksShape
  <2> QED BY <2>4, <2>5, <2>6
<1>7. ASSUME NEW h \in Hooks, OperatorWrites(h) PROVE HooksInv'
  <2>1. /\ acting = NotActing /\ written < MaxScripts /\ written' = written + 1
        /\ target' = [target EXCEPT ![h] = written + 1] /\ UNCHANGED <<backup, acting>>
        /\ own' = [own EXCEPT ![h] = (@ \ {target[h]}) \cup {written + 1}]
    BY <1>7 DEF OperatorWrites
  <2>2. HooksShape' BY <1>a, <2>1 DEF HooksShape
  <2>3. \A k \in Hooks : own'[k] \subseteq own[k] \cup {written + 1} BY <2>1 DEF HooksShape
  <2>4. HooksTidy' BY <1>a, <2>1, <2>3 DEF HooksTidy, HooksShape, NotActing
  <2>5. OwnHooksKept' BY <2>1 DEF OwnHooksKept, HooksShape
  <2> QED BY <2>2, <2>4, <2>5
<1>8. ASSUME NEW h \in Hooks, OperatorDeletes(h) PROVE HooksInv'
  <2>1. /\ acting = NotActing /\ UNCHANGED <<backup, acting, written>>
        /\ target' = [target EXCEPT ![h] = None0] /\ own' = [own EXCEPT ![h] = @ \ {target[h]}]
    BY <1>8 DEF OperatorDeletes
  <2>2. HooksShape' /\ HooksTidy' BY <2>1 DEF HooksShape, HooksTidy, NotActing
  <2>3. OwnHooksKept' BY <2>1 DEF OwnHooksKept, HooksShape
  <2> QED BY <2>2, <2>3
<1>9. ASSUME UNCHANGED <<target, backup, own, acting, written>> PROVE HooksInv'
  BY <1>9 DEF HooksShape, HooksTidy, OwnHooksKept, Cur
<1>10. CASE UNCHANGED hookVars BY <1>9, <1>10 DEF hookVars
<1>11. ASSUME NEW failing, NEW msg, NEW review, CommitThroughHooks(failing, msg, review) PROVE HooksInv'
  BY <1>9, <1>11 DEF CommitThroughHooks
<1>12. ASSUME NEW where, NEW failing, PushThroughHooks(where, failing) PROVE HooksInv'
  BY <1>9, <1>12 DEF PushThroughHooks
<1> QED
  BY <1>1, <1>2, <1>3, <1>4, <1>5, <1>6, <1>7, <1>8, <1>10, <1>11, <1>12 DEF HooksNext

(* THEOREM: a script of the operator's that he did not give up is the hook  *)
(* or its backup, however installs and uninstalls follow and are killed.    *)
THEOREM HooksKeepOwn == HooksSpec => []OwnHooksKept
<1>1. HooksInv => OwnHooksKept BY DEF HooksInv
<1> QED BY HooksInitOK, HooksStepOK, <1>1, PTL DEF HooksSpec

-----------------------------------------------------------------------------
(* Operator: whoever waits can still be answered.  Prompts have numbers that *)
(* were used once, each by one asker; a replay only drops what has left the  *)
(* registry, and nothing returns to it.                                      *)
Asked == 1..prompts
OpShape ==
  /\ prompts \in Nat /\ DOMAIN asker = OpAskers
  /\ \A a \in OpAskers : DOMAIN asker[a] = {"at", "pid"} /\ asker[a].pid \in 0..prompts
  /\ events \in Seq(Asked) /\ registry \cup answered \cup kept \subseteq Asked
  /\ DOMAIN stale = Terminals
PromptsApart ==
  /\ registry \cap answered = {}
  /\ \A a, b \in OpAskers : asker[a].pid = asker[b].pid /\ asker[a].pid # 0 => a = b
  /\ \A c \in Terminals : stale[c] \subseteq Asked \ registry
PromptInv == OpShape /\ PromptsApart /\ PromptStaysAnswerable

(* LEMMA: nobody waits and nothing is registered.                            *)
LEMMA PromptInit == OperatorInit => PromptInv
<1> SUFFICES ASSUME OperatorInit PROVE PromptInv OBVIOUS
<1>1. OpShape
  <2>1. events \in Seq(Asked) BY EmptySeq DEF OperatorInit
  <2> QED BY <2>1 DEF OperatorInit, OpShape, IdleAsker
<1>2. PromptsApart /\ PromptStaysAnswerable
  BY DEF OperatorInit, PromptsApart, PromptStaysAnswerable, IdleAsker
<1> QED BY <1>1, <1>2 DEF PromptInv

Queued(p) == \E i \in DOMAIN events : events[i] = p

(* LEMMA: a new prompt can be answered, and so can those before it, the     *)
(* asker's own apart, which was answered.                                   *)
LEMMA RegisterOK ==
  ASSUME PromptInv, NEW a \in OpAskers, RegisterPrompt(a),
         \/ answered' = answered
         \/ answered' = answered \ {asker[a].pid}
  PROVE  PromptInv'
<1> USE DEF PromptInv
<1>1. /\ prompts' = prompts + 1 /\ registry' = registry \cup {prompts + 1}
      /\ asker' = [asker EXCEPT ![a] = [at |-> "waiting", pid |-> prompts + 1]]
      /\ events' = Append(events, prompts + 1) /\ UNCHANGED <<kept, stale>>
  BY DEF RegisterPrompt, clientVars
<1>2. prompts \in Nat /\ Asked' = Asked \cup {prompts + 1} /\ prompts + 1 \notin Asked
  BY <1>1 DEF OpShape, Asked
<1>3. events' \in Seq(Asked') /\ \A p : Queued(p)' <=> Queued(p) \/ p = prompts + 1
  <2>1. events \in Seq(Asked') BY <1>2, SeqMonotonic DEF OpShape
  <2>2. /\ events' \in Seq(Asked') /\ Len(events') = Len(events) + 1
        /\ \A i \in 1..Len(events) : events'[i] = events[i]
        /\ events'[Len(events) + 1] = prompts + 1
    BY <1>1, <1>2, <2>1, AppendProperties
  <2>3. /\ DOMAIN events = 1..Len(events) /\ Len(events) \in Nat
        /\ DOMAIN events' = 1..(Len(events) + 1)
    BY <2>1, <2>2, LenProperties
  <2> QED BY <2>2, <2>3 DEF Queued
<1>4. /\ asker'[a].at = "waiting" /\ asker'[a].pid = prompts + 1 /\ DOMAIN asker' = OpAskers
      /\ DOMAIN asker'[a] = {"at", "pid"} /\ \A b \in OpAskers \ {a} : asker'[b] = asker[b]
  BY <1>1 DEF OpShape
<1>5. OpShape' BY <1>1, <1>2, <1>3, <1>4 DEF OpShape
<1>6. PromptsApart'
  <2>1. registry' \cap answered' = {} BY <1>1, <1>2 DEF PromptsApart, OpShape
  <2>2. \A b, c \in OpAskers : asker'[b].pid = asker'[c].pid /\ asker'[b].pid # 0 => b = c
    BY <1>2, <1>4 DEF PromptsApart, OpShape
  <2>3. \A c \in Terminals : stale'[c] \subseteq Asked' \ registry'
    BY <1>1, <1>2 DEF PromptsApart
  <2> QED BY <2>1, <2>2, <2>3 DEF PromptsApart
<1>7. PromptStaysAnswerable'
  <2>1. \A b \in OpAskers \ {a} : asker[b].pid # asker[a].pid \/ asker[b].pid = 0
    BY DEF PromptsApart
  <2>2. \A b \in OpAskers \ {a} : asker[b].pid \in answered => asker[b].pid \in answered'
    BY <2>1 DEF OpShape, Asked
  <2> QED BY <1>1, <1>3, <1>4, <2>2 DEF PromptStaysAnswerable, Queued
<1> QED BY <1>5, <1>6, <1>7

(* LEMMA: what only concerns links, screens and tickets changes no prompt. *)
LEMMA PromptsUntouched ==
  ASSUME PromptInv, UNCHANGED <<asker, registry, answered, events, prompts>>,
         DOMAIN stale' = Terminals, \A c \in Terminals : stale'[c] \subseteq stale[c] \cup (kept \ registry),
         kept' \subseteq kept, \A p \in kept \ kept' : p \notin registry
  PROVE  PromptInv'
<1> USE DEF PromptInv
<1>1. OpShape' BY DEF OpShape, Asked
<1>2. PromptsApart' BY DEF PromptsApart, OpShape, Asked
<1>3. PromptStaysAnswerable' BY DEF PromptStaysAnswerable
<1> QED BY <1>1, <1>2, <1>3

(* LEMMA: whatever answers, replays, drops or restarts, who waits stays      *)
(* answerable.                                                               *)
LEMMA PromptStep ==
  ASSUME PromptInv, [OperatorNext]_opVars
  PROVE  PromptInv'
<1> USE DEF PromptInv
<1>a. DOMAIN asker = OpAskers /\ DOMAIN stale = Terminals BY DEF OpShape
<1>1. ASSUME NEW a \in PausedTasks, PromptForNeedsInfo(a) PROVE PromptInv'
  BY <1>1, RegisterOK DEF PromptForNeedsInfo, OpAskers
<1>2. ASSUME NEW a \in Dialogs, RoundTrip(a) PROVE PromptInv'
  BY <1>2, RegisterOK DEF RoundTrip, OpAskers
<1>3. ASSUME NEW a \in OpAskers, asker[a].pid \in answered, asker' = [asker EXCEPT ![a] = IdleAsker],
             answered' = answered \ {asker[a].pid},
             UNCHANGED <<registry, events, kept, stale, prompts>>
      PROVE  PromptInv'
  <2>1. asker'[a] = IdleAsker /\ \A b \in OpAskers \ {a} : asker'[b] = asker[b] BY <1>a, <1>3
  <2>2. OpShape' BY <1>a, <1>3, <2>1 DEF OpShape, Asked, IdleAsker
  <2>3. PromptsApart' BY <1>3, <2>1 DEF PromptsApart, Asked, IdleAsker
  <2>4. \A b \in OpAskers \ {a} : asker[b].pid \in answered => asker[b].pid \in answered'
    BY <1>3 DEF PromptsApart, OpShape, Asked
  <2>5. PromptStaysAnswerable'
    BY <1>3, <2>1, <2>4 DEF PromptStaysAnswerable, IdleAsker
  <2> QED BY <2>2, <2>3, <2>5
<1>4. ASSUME NEW a \in PausedTasks, TaskResumes(a) PROVE PromptInv'
  BY <1>3, <1>4 DEF TaskResumes, OpAskers, clientVars
<1>5. ASSUME NEW a \in Dialogs, NEW reply, DialogGoesOn(a, reply) PROVE PromptInv'
  <2>1. CASE asker' = [asker EXCEPT ![a] = IdleAsker] /\ UNCHANGED <<registry, events, kept, clientVars, prompts, faults>>
    BY <1>3, <1>5, <2>1 DEF DialogGoesOn, OpAskers, clientVars
  <2>2. CASE RegisterPrompt(a)
    BY <1>5, <2>2, RegisterOK DEF DialogGoesOn, OpAskers
  <2> QED BY <1>5, <2>1, <2>2 DEF DialogGoesOn
<1>6. ASSUME NEW a \in PausedTasks, SilentWait(a) \/ SilentWaitOver(a) PROVE PromptInv'
  <2>1. /\ asker'[a].pid = 0 /\ asker'[a].at # "waiting" /\ DOMAIN asker'[a] = {"at", "pid"}
        /\ DOMAIN asker' = OpAskers /\ \A b \in OpAskers \ {a} : asker'[b] = asker[b]
    BY <1>a, <1>6 DEF SilentWait, SilentWaitOver, OpAskers, IdleAsker
  <2>2. UNCHANGED <<serverVars, clientVars, prompts>> BY <1>6 DEF SilentWait, SilentWaitOver
  <2>a. UNCHANGED <<registry, answered, kept, events, stale, prompts>> BY <2>2 DEF serverVars, clientVars
  <2>b. \A b \in OpAskers : DOMAIN asker'[b] = {"at", "pid"} /\ asker'[b].pid \in 0..prompts
    BY <2>1 DEF OpShape
  <2>3. OpShape' BY <2>1, <2>a, <2>b DEF OpShape, Asked
  <2>4. PromptsApart' BY <2>1, <2>2 DEF PromptsApart, Asked, serverVars, clientVars
  <2>5. PromptStaysAnswerable' BY <2>1, <2>2 DEF PromptStaysAnswerable, serverVars
  <2> QED BY <2>3, <2>4, <2>5
<1>7. CASE RelayEvents
  <2>1. /\ events # <<>> /\ kept' = kept \cup {Head(events)} /\ events' = Tail(events)
        /\ UNCHANGED <<asker, registry, answered, stale, prompts>>
    BY <1>7 DEF RelayEvents
  <2>2. events \in Seq(Asked) BY DEF OpShape
  <2>3. /\ Head(events) \in Asked /\ Tail(events) \in Seq(Asked)
        /\ Len(events) \in Nat /\ DOMAIN events = 1..Len(events) /\ Head(events) = events[1]
        /\ DOMAIN events' = 1..(Len(events) - 1)
        /\ \A i \in 1..(Len(events) - 1) : events'[i] = events[i + 1]
    BY <2>1, <2>2, HeadTailProperties, LenProperties
  <2>4. OpShape' BY <2>1, <2>3 DEF OpShape, Asked
  <2>5. PromptsApart' BY <2>1 DEF PromptsApart, Asked
  <2>6. \A p : Queued(p) => p \in kept' \/ Queued(p)'
    <3> SUFFICES ASSUME NEW i \in DOMAIN events
                 PROVE  events[i] \in kept' \/ \E j \in DOMAIN events' : events'[j] = events[i]
      BY DEF Queued
    <3>1. CASE i = 1 BY <2>1, <2>3, <3>1
    <3>2. CASE i # 1
      <4>1. i - 1 \in DOMAIN events' /\ events'[i - 1] = events[i] BY <2>3, <3>2
      <4> QED BY <4>1
    <3> QED BY <3>1, <3>2
  <2>7. PromptStaysAnswerable' BY <2>1, <2>6 DEF PromptStaysAnswerable, Queued
  <2> QED BY <2>4, <2>5, <2>7
<1>8. ASSUME NEW c \in Terminals, ReplayPrompts(c) PROVE PromptInv'
  <2>1. /\ UNCHANGED <<asker, registry, answered, events, kept, prompts>>
        /\ stale' = [stale EXCEPT ![c] = kept \ registry]
    BY <1>8 DEF ReplayPrompts, StaleIn, serverVars
  <2> QED BY <1>a, <2>1, PromptsUntouched
<1>9. ASSUME NEW c \in Terminals, ReplayDrops(c) PROVE PromptInv'
  <2>1. /\ UNCHANGED <<asker, registry, answered, events, prompts>>
        /\ stale' = [stale EXCEPT ![c] = {}]
        /\ kept' \subseteq kept /\ \A p \in kept \ kept' : p \in stale[c]
    BY <1>9 DEF ReplayDrops
  <2>2. \A p \in kept \ kept' : p \notin registry BY <2>1 DEF PromptsApart
  <2> QED BY <1>a, <2>1, <2>2, PromptsUntouched
<1>10. ASSUME NEW r \in replies, DeliverReply(r) PROVE PromptInv'
  <2>1. /\ registry' = registry \ {r.pid} /\ UNCHANGED <<asker, events, kept, stale, prompts>>
        /\ answered' = IF r.pid \in registry THEN answered \cup {r.pid} ELSE answered
    BY <1>10 DEF DeliverReply
  <2>2. OpShape' BY <2>1 DEF OpShape, Asked
  <2>3. PromptsApart' BY <2>1 DEF PromptsApart, Asked
  <2>4. PromptStaysAnswerable' BY <2>1 DEF PromptStaysAnswerable
  <2> QED BY <2>2, <2>3, <2>4
<1>11. CASE DaemonRestarts
  <2>1. /\ asker' = [a \in OpAskers |-> IdleAsker] /\ registry' = {} /\ answered' = {}
        /\ events' = <<>> /\ kept' = {} /\ prompts' = prompts
        /\ stale' = [c \in Terminals |-> {}]
    BY <1>11 DEF DaemonRestarts
  <2>2. events' \in Seq(Asked') BY <2>1, EmptySeq
  <2>3. OpShape' BY <2>1, <2>2 DEF OpShape, IdleAsker
  <2>4. PromptsApart' /\ PromptStaysAnswerable'
    BY <2>1 DEF PromptsApart, PromptStaysAnswerable, IdleAsker
  <2> QED BY <2>3, <2>4
<1>12. ASSUME UNCHANGED <<asker, serverVars, prompts, stale>> PROVE PromptInv'
  BY <1>a, <1>12, PromptsUntouched DEF serverVars
<1>13. ASSUME NEW a \in PausedTasks, NEW why, PauseTicket(a, why) \/ ResumedElsewhere(a) PROVE PromptInv'
  BY <1>12, <1>13 DEF PauseTicket, ResumedElsewhere, clientVars
<1>14. ASSUME NEW c \in Terminals, ConnectClient(c) \/ RenderPromptRequest(c) \/ SubmitReply(c)
       PROVE  PromptInv'
  BY <1>12, <1>14 DEF ConnectClient, RenderPromptRequest, SubmitReply
<1>15. ASSUME NEW c \in Terminals, NEW lost, DropLink(c, lost) PROVE PromptInv'
  <2>1. stale' = [stale EXCEPT ![c] = {}] /\ UNCHANGED <<asker, serverVars, prompts>>
    BY <1>15 DEF DropLink
  <2> QED BY <1>a, <2>1, PromptsUntouched DEF serverVars
<1>16. CASE UNCHANGED opVars
  BY <1>12, <1>16 DEF opVars, serverVars, clientVars
<1> QED
  BY <1>1, <1>2, <1>4, <1>5, <1>6, <1>7, <1>8, <1>9, <1>10, <1>11, <1>13, <1>14, <1>15, <1>16
  DEF OperatorNext

(* THEOREM: whoever waits for the operator has been answered or is asked    *)
(* again of whoever subscribes, whatever links drop and restarts happen.    *)
THEOREM OperatorStaysAnswerable == OperatorSpec => []PromptStaysAnswerable
<1>1. PromptInv => PromptStaysAnswerable BY DEF PromptInv
<1> QED BY PromptInit, PromptStep, <1>1, PTL DEF OperatorSpec

-----------------------------------------------------------------------------
(* Worktrees: what was merged is on the base, and nothing else came with it. *)
(* A ticket inside a merge holds the lock alone; between its check and its   *)
(* commit the checkout holds what its branch has and the base has not, less   *)
(* what the operator threw out and with what he staged; what a branch has     *)
(* beyond the base is its ticket's and its dependencies'.                     *)
InMerge == {"check", "recheck", "stage", "restage", "commit", "recommit"}
Edits == [of : WtTickets \cup {"operator"}, n : Nat]
Commits == [by : WtTickets \cup {"operator"}, adds : SUBSET Edits]

GitShape ==
  /\ base \in Seq(Commits) /\ {starts, gitFaults} \subseteq Nat
  /\ DOMAIN job = WtTickets /\ DOMAIN branch = WtTickets /\ DOMAIN tree = WtTickets
  /\ DOMAIN merged = WtTickets /\ DOMAIN main = {"staged", "dirty", "amid", "lost"} /\ main.staged \subseteq Edits
  /\ \A t \in WtTickets :
       /\ DOMAIN branch[t] = {"exists", "edits"} /\ branch[t].edits \subseteq Edits
       /\ DOMAIN tree[t] = {"exists", "dirty", "deps", "context"} /\ tree[t].dirty \subseteq Edits
OneMerge == \A t \in WtTickets : job[t] \in InMerge => mergeLock = {t}
EditsOwned ==
  \A t \in WtTickets :
    /\ OfTickets({t}, tree[t].dirty) /\ tree[t].deps \subseteq BlockedBy[t]
    /\ job[t] = "work" => excluded
    /\ \A S \in ClosedSets : t \in S => OfTickets(S, branch[t].edits \ BaseEdits)
StagedOwned ==
  \A t \in WtTickets :
    /\ job[t] \in {"stage", "restage"} => main.staged \subseteq main.amid
    /\ job[t] \in {"commit", "recommit"} =>
         /\ branch[t].edits \subseteq BaseEdits \cup main.staged \cup main.lost
         /\ \A S \in ClosedSets : t \in S => OfTickets(S, main.staged \ main.amid)
GitInv == GitShape /\ OneMerge /\ EditsOwned /\ StagedOwned /\ MergedIsOnBase /\ MergesAreTheirOwn

(* LEMMA: no branch or worktree is there, and nothing has been merged.       *)
LEMMA GitInitOK == GitInit => GitInv
<1> SUFFICES ASSUME GitInit PROVE GitInv OBVIOUS
<1>1. GitShape
  <2>1. base \in Seq(Commits) BY EmptySeq DEF GitInit
  <2> QED BY <2>1 DEF GitInit, GitShape, NoTree
<1>2. OneMerge /\ StagedOwned /\ MergedIsOnBase /\ MergesAreTheirOwn
  BY DEF GitInit, OneMerge, InMerge, StagedOwned, MergedIsOnBase, MergesAreTheirOwn
<1>3. EditsOwned BY DEF GitInit, EditsOwned, NoTree, OfTickets
<1> QED BY <1>1, <1>2, <1>3 DEF GitInv

(* LEMMA: a commit adds its edits to the base. *)
LEMMA BaseGrows ==
  ASSUME base \in Seq(Commits), NEW c \in Commits, base' = Append(base, c)
  PROVE  /\ base' \in Seq(Commits) /\ BaseEdits' = BaseEdits \cup c.adds
         /\ \A i \in DOMAIN base' : base'[i] = c \/ (i \in DOMAIN base /\ base'[i] = base[i])
<1>1. /\ base' \in Seq(Commits) /\ Len(base) \in Nat /\ DOMAIN base = 1..Len(base)
      /\ DOMAIN base' = 1..(Len(base) + 1) /\ base'[Len(base) + 1] = c
      /\ \A i \in 1..Len(base) : base'[i] = base[i]
  BY AppendProperties, LenProperties
<1>2. BaseEdits' = BaseEdits \cup c.adds
  <2>1. ASSUME NEW e \in BaseEdits' PROVE e \in BaseEdits \cup c.adds
    BY <1>1, <2>1 DEF BaseEdits
  <2>2. ASSUME NEW e \in BaseEdits PROVE e \in BaseEdits'
    BY <1>1, <2>2 DEF BaseEdits
  <2>3. ASSUME NEW e \in c.adds PROVE e \in BaseEdits'
    <3>1. Len(base) + 1 \in DOMAIN base' BY <1>1
    <3> QED BY <1>1, <2>3, <3>1 DEF BaseEdits
  <2> QED BY <2>1, <2>2, <2>3
<1> QED BY <1>1, <1>2

(* LEMMA: all edits on the base are edits. *)
LEMMA BaseTyped == GitShape => BaseEdits \subseteq Edits
<1> SUFFICES ASSUME GitShape, NEW i \in DOMAIN base PROVE base[i].adds \subseteq Edits
  BY DEF BaseEdits
<1>1. base[i] \in Commits BY ElementOfSeq, LenProperties DEF GitShape
<1> QED BY <1>1 DEF Commits

(* LEMMA: a step that leaves the base alone, stages nothing and gives each   *)
(* branch only its own keeps the invariant.                                  *)
LEMMA GitQuiet ==
  ASSUME GitInv, GitShape', OneMerge', UNCHANGED <<base, merged>>,
         \A x \in WtTickets : OfTickets({x}, tree'[x].dirty) /\ tree'[x].deps \subseteq BlockedBy[x],
         \A x \in WtTickets : job'[x] = "work" => excluded',
         \A x \in WtTickets : \/ branch'[x].edits \subseteq branch[x].edits \cup BaseEdits
                              \/ /\ job'[x] \notin {"commit", "recommit"}
                                 /\ \A S \in ClosedSets : x \in S => OfTickets(S, branch'[x].edits \ BaseEdits),
         main.amid \subseteq main'.amid, main.lost \subseteq main'.lost,
         \A x \in WtTickets : job'[x] \in {"stage", "restage"} => main'.staged \subseteq main'.amid,
         \A x \in WtTickets : job'[x] \in {"commit", "recommit"} =>
           /\ job[x] = job'[x] /\ main.staged \subseteq main'.staged
           /\ main'.staged \ main'.amid \subseteq main.staged \ main.amid
  PROVE  GitInv'
<1> USE DEF GitInv
<1>1. BaseEdits' = BaseEdits BY DEF BaseEdits
<1>2. EditsOwned'
  <2>1. \A x \in WtTickets, S \in ClosedSets : x \in S => OfTickets(S, branch'[x].edits \ BaseEdits)
    BY DEF EditsOwned, OfTickets
  <2> QED BY <1>1, <2>1 DEF EditsOwned, ClosedSets, OfTickets
<1>3. StagedOwned' BY <1>1 DEF StagedOwned, ClosedSets, OfTickets
<1>4. MergedIsOnBase' /\ MergesAreTheirOwn'
  BY <1>1 DEF MergedIsOnBase, MergesAreTheirOwn, ClosedSets, OfTickets
<1> QED BY <1>2, <1>3, <1>4

(* LEMMA: what the operator does is counted, and gives him a new edit. *)
LEMMA FaultCounted ==
  ASSUME GitShape
  PROVE  OperatorEdit \in Edits /\ (GitFault => gitFaults' \in Nat)
  BY DEF GitShape, OperatorEdit, Edits, GitFault

(* LEMMA: the same where only the ticket's task moves on, outside a merge. *)
LEMMA JobMoves ==
  ASSUME GitInv, NEW t \in WtTickets, NEW step, step \notin InMerge, To(t, step),
         step = "work" => excluded', excluded => excluded', {starts', gitFaults'} \subseteq Nat,
         UNCHANGED <<base, branch, tree, main, mergeLock, merged>>
  PROVE  GitInv'
<1> USE DEF GitInv
<1>1. DOMAIN job' = WtTickets /\ \A x \in WtTickets : job'[x] = IF x = t THEN step ELSE job[x]
  BY DEF To, GitShape
<1>2. GitShape' BY <1>1 DEF GitShape
<1>3. OneMerge' BY <1>1 DEF OneMerge
<1> QED BY <1>1, <1>2, <1>3, GitQuiet DEF EditsOwned, StagedOwned, InMerge

(* LEMMA: leaving a merge, and being in one. *)
LEMMA MergeLeft ==
  ASSUME GitInv, NEW t \in WtTickets, job[t] \in InMerge, NEW step, step \notin InMerge, LeaveMerge(t, step)
  PROVE  /\ DOMAIN job' = WtTickets /\ \A x \in WtTickets : job'[x] = IF x = t THEN step ELSE job[x]
         /\ \A x \in WtTickets : job'[x] \notin InMerge
<1>1. DOMAIN job' = WtTickets /\ \A x \in WtTickets : job'[x] = IF x = t THEN step ELSE job[x]
  BY DEF LeaveMerge, To, GitInv, GitShape
<1>2. mergeLock = {t} /\ \A x \in WtTickets \ {t} : job[x] \notin InMerge BY DEF GitInv, OneMerge
<1> QED BY <1>1, <1>2

(* LEMMA: a merge that is reported. *)
LEMMA LandedOK ==
  ASSUME GitInv, NEW t \in WtTickets, job[t] \in InMerge, NEW adds \in SUBSET Edits, Landed(t, adds),
         branch[t].edits \subseteq BaseEdits \cup adds \cup main.lost,
         \A S \in ClosedSets : t \in S => OfTickets(S, adds \ main.amid),
         DOMAIN main' = DOMAIN main, main'.staged \subseteq main.staged,
         main'.amid = main.amid, main'.lost = main.lost
  PROVE  GitInv'
<1> USE DEF GitInv
<1>1. /\ DOMAIN job' = WtTickets /\ \A x \in WtTickets : job'[x] \notin InMerge
      /\ \A x \in WtTickets : job'[x] = "work" => job[x] = "work"
  <2>1. PICK step \in {"off", "finish"} : LeaveMerge(t, step) BY DEF Landed
  <2> QED BY <2>1, MergeLeft DEF InMerge
<1>2. UNCHANGED <<branch, tree, excluded, starts, gitFaults>> BY DEF Landed
<1>3. /\ base' \in Seq(Commits) /\ BaseEdits' = BaseEdits \cup adds
      /\ \A i \in DOMAIN base' : \/ base'[i].by = t /\ base'[i].adds = adds
                                 \/ i \in DOMAIN base /\ base'[i] = base[i]
  <2>1. CASE adds = {} BY <2>1 DEF Landed, GitShape, BaseEdits
  <2>2. CASE adds # {}
    <3> DEFINE c == [by |-> t, adds |-> adds]
    <3>1. base' = Append(base, c) /\ c \in Commits BY <2>2 DEF Landed, Commits
    <3>2. c.by = t /\ c.adds = adds OBVIOUS
    <3> HIDE DEF c
    <3> QED BY <3>1, <3>2, BaseGrows DEF GitShape
  <2> QED BY <2>1, <2>2
<1>4. DOMAIN merged' = WtTickets /\ \A x \in WtTickets : merged'[x] \subseteq merged[x] \cup branch[t].edits
  BY DEF Landed, GitShape
<1>5. GitShape' BY <1>1, <1>2, <1>3, <1>4 DEF GitShape
<1>6. OneMerge' /\ StagedOwned' BY <1>1 DEF OneMerge, StagedOwned, InMerge
<1>7. EditsOwned' BY <1>1, <1>2, <1>3 DEF EditsOwned, OfTickets, ClosedSets
<1>8. MergedIsOnBase' BY <1>3, <1>4 DEF MergedIsOnBase
<1>9. MergesAreTheirOwn' BY <1>3 DEF MergesAreTheirOwn, OfTickets, ClosedSets
<1> QED BY <1>5, <1>6, <1>7, <1>8, <1>9

(* LEMMA: each step of a run, a merge or the operator's leaves merges and    *)
(* branches with what is their own.                                          *)
LEMMA GitStepOK ==
  ASSUME GitInv, [GitNext]_gitVars
  PROVE  GitInv'
<1> USE DEF GitInv
<1>a. /\ DOMAIN job = WtTickets /\ DOMAIN branch = WtTickets /\ DOMAIN tree = WtTickets
      /\ BaseEdits \subseteq Edits
  BY BaseTyped DEF GitShape
<1>b. \A x \in WtTickets, S \in ClosedSets : x \in S => OfTickets(S, branch[x].edits \ BaseEdits)
  BY DEF EditsOwned
<1>1. ASSUME NEW t \in WtTickets, StartTicket(t) \/ WorktreeReady(t) \/ PhasesDone(t)
                                  \/ FeatureBranch(t) \/ WorktreeGone(t) \/ ExcludeContext(t)
      PROVE  GitInv'
  <2>1. PICK step \in {"ensure", "sync", "merge", "finish", "off", "work"} :
          To(t, step) /\ (step = "work" => excluded')
    BY <1>1 DEF StartTicket, WorktreeReady, PhasesDone, FeatureBranch, WorktreeGone, ExcludeContext
  <2>2. /\ UNCHANGED <<base, branch, tree, main, mergeLock, merged>> /\ (excluded => excluded')
        /\ {starts', gitFaults'} \subseteq Nat
    BY <1>1 DEF StartTicket, WorktreeReady, PhasesDone, FeatureBranch, WorktreeGone, ExcludeContext, GitShape
  <2> QED BY <2>1, <2>2, JobMoves DEF InMerge
<1>2. ASSUME NEW t \in WtTickets, EnsureWorktree(t) PROVE GitInv'
  <2>1. UNCHANGED <<base, main, mergeLock, merged, excluded, starts, gitFaults>> BY <1>2 DEF EnsureWorktree
  <2>2. CASE tree[t].exists
    <3>1. To(t, "sync") /\ UNCHANGED <<branch, tree>> BY <1>2, <2>2 DEF EnsureWorktree
    <3> QED BY <2>1, <3>1, JobMoves DEF InMerge, GitShape
  <2>3. CASE ~tree[t].exists
    <3> DEFINE new == [NoTree EXCEPT !.exists = TRUE, !.deps = BlockedBy[t]]
    <3>a. DOMAIN new = {"exists", "dirty", "deps", "context"} /\ new.dirty = {} /\ new.deps = BlockedBy[t]
      BY DEF NoTree
    <3>b. /\ tree' = [tree EXCEPT ![t] = new] /\ To(t, "deps")
          /\ branch' = [branch EXCEPT ![t] = [exists |-> TRUE, edits |-> BaseEdits]]
      BY <1>2, <2>3 DEF EnsureWorktree
    <3> HIDE DEF new
    <3>1. /\ DOMAIN job' = WtTickets /\ \A x \in WtTickets : job'[x] = IF x = t THEN "deps" ELSE job[x]
          /\ DOMAIN branch' = WtTickets /\ \A x \in WtTickets \ {t} : branch'[x] = branch[x]
          /\ DOMAIN branch'[t] = {"exists", "edits"} /\ branch'[t].edits = BaseEdits
          /\ DOMAIN tree' = WtTickets /\ \A x \in WtTickets \ {t} : tree'[x] = tree[x]
          /\ DOMAIN tree'[t] = {"exists", "dirty", "deps", "context"}
          /\ tree'[t].dirty = {} /\ tree'[t].deps = BlockedBy[t]
      BY <1>a, <3>a, <3>b DEF To
    <3>2. GitShape' BY <1>a, <2>1, <3>1 DEF GitShape
    <3>3. OneMerge' BY <2>1, <3>1 DEF OneMerge, InMerge
    <3>4. \A S : OfTickets(S, branch'[t].edits \ BaseEdits) /\ OfTickets(S, tree'[t].dirty)
      BY <3>1 DEF OfTickets
    <3>5. \A x \in WtTickets : OfTickets({x}, tree'[x].dirty) /\ tree'[x].deps \subseteq BlockedBy[x]
      BY <3>1, <3>4 DEF EditsOwned
    <3>6. \A x \in WtTickets, S \in ClosedSets : x \in S => OfTickets(S, branch'[x].edits \ BaseEdits)
      BY <1>b, <3>1, <3>4
    <3> QED BY <2>1, <3>1, <3>2, <3>3, <3>5, <3>6, GitQuiet DEF EditsOwned, StagedOwned
  <2> QED BY <2>2, <2>3
<1>3. ASSUME NEW t \in WtTickets, NEW d \in WtTickets, MergeDependency(t, d) PROVE GitInv'
  <2>1. job[t] = "deps" /\ d \in tree[t].deps /\ UNCHANGED <<base, main, mergeLock, merged, excluded, starts, gitFaults>>
    BY <1>3 DEF MergeDependency
  <2>2. CASE To(t, "off") /\ UNCHANGED <<branch, tree>>
    BY <2>1, <2>2, JobMoves DEF InMerge, GitShape
  <2>3. CASE branch' = [branch EXCEPT ![t].edits = @ \cup branch[d].edits]
             /\ tree' = [tree EXCEPT ![t].deps = @ \ {d}] /\ UNCHANGED job
    <3>1. /\ DOMAIN branch' = WtTickets /\ DOMAIN tree' = WtTickets
          /\ \A x \in WtTickets \ {t} : branch'[x] = branch[x] /\ tree'[x] = tree[x]
          /\ DOMAIN branch'[t] = {"exists", "edits"} /\ branch'[t].edits = branch[t].edits \cup branch[d].edits
          /\ DOMAIN tree'[t] = DOMAIN tree[t] /\ tree'[t].dirty = tree[t].dirty /\ tree'[t].deps = tree[t].deps \ {d}
      BY <2>3 DEF GitShape
    <3>2. GitShape' BY <2>1, <2>3, <3>1 DEF GitShape
    <3>3. OneMerge' BY <2>1, <2>3 DEF OneMerge
    <3>4. d \in BlockedBy[t] BY <2>1 DEF EditsOwned
    <3>5. \A S \in ClosedSets : t \in S => OfTickets(S, branch'[t].edits \ BaseEdits)
      BY <1>b, <3>1, <3>4 DEF ClosedSets, OfTickets
    <3> QED BY <2>1, <2>3, <3>1, <3>2, <3>3, <3>5, GitQuiet DEF EditsOwned, StagedOwned
  <2> QED BY <1>3, <2>2, <2>3 DEF MergeDependency
<1>4. ASSUME NEW t \in WtTickets, WriteContext(t) PROVE GitInv'
  <2>1. /\ tree' = [tree EXCEPT ![t].context = TRUE] /\ To(t, "exclude")
        /\ UNCHANGED <<base, branch, main, mergeLock, merged, excluded, starts, gitFaults>>
    BY <1>4 DEF WriteContext
  <2>2. /\ DOMAIN job' = WtTickets /\ \A x \in WtTickets : job'[x] = IF x = t THEN "exclude" ELSE job[x]
        /\ DOMAIN tree' = WtTickets
        /\ \A x \in WtTickets : DOMAIN tree'[x] = DOMAIN tree[x] /\ tree'[x].dirty = tree[x].dirty
                                /\ tree'[x].deps = tree[x].deps
    BY <1>a, <2>1 DEF To, GitShape
  <2>3. GitShape' /\ OneMerge' BY <2>1, <2>2 DEF GitShape, OneMerge, InMerge
  <2> QED BY <2>1, <2>2, <2>3, GitQuiet DEF EditsOwned, StagedOwned
<1>5. ASSUME NEW t \in WtTickets, AgentEdits(t) PROVE GitInv'
  <2> DEFINE e == [of |-> t, n |-> starts]
  <2>1. /\ tree' = [tree EXCEPT ![t].dirty = @ \cup {e}]
        /\ UNCHANGED <<base, branch, main, job, mergeLock, merged, excluded, starts, gitFaults>>
    BY <1>5 DEF AgentEdits
  <2>2. e \in Edits /\ e.of = t BY DEF Edits, GitShape
  <2> HIDE DEF e
  <2>3. /\ DOMAIN tree' = WtTickets
        /\ \A x \in WtTickets : DOMAIN tree'[x] = DOMAIN tree[x] /\ tree'[x].deps = tree[x].deps
             /\ tree'[x].dirty = IF x = t THEN tree[x].dirty \cup {e} ELSE tree[x].dirty
    BY <1>a, <2>1 DEF GitShape
  <2>4. GitShape' BY <2>1, <2>2, <2>3 DEF GitShape
  <2>5. OneMerge' BY <2>1 DEF OneMerge
  <2>6. \A x \in WtTickets : OfTickets({x}, tree'[x].dirty)
    <3>1. OfTickets({t}, tree[t].dirty \cup {e}) BY <2>2 DEF EditsOwned, OfTickets
    <3> QED BY <2>3, <3>1 DEF EditsOwned
  <2> QED BY <2>1, <2>3, <2>4, <2>5, <2>6, GitQuiet DEF EditsOwned, StagedOwned
<1>6. ASSUME NEW t \in WtTickets, CommitWorktree(t) PROVE GitInv'
  <2>1. Added(t) = tree[t].dirty /\ job[t] = "work" BY <1>6 DEF CommitWorktree, Added, EditsOwned
  <2>2. /\ branch' = [branch EXCEPT ![t].edits = @ \cup tree[t].dirty]
        /\ tree' = [tree EXCEPT ![t].dirty = {}]
        /\ UNCHANGED <<base, main, job, mergeLock, merged, excluded, starts, gitFaults>>
    BY <1>6, <2>1 DEF CommitWorktree
  <2>3. /\ DOMAIN branch' = WtTickets /\ DOMAIN tree' = WtTickets
        /\ \A x \in WtTickets \ {t} : branch'[x] = branch[x] /\ tree'[x] = tree[x]
        /\ DOMAIN branch'[t] = {"exists", "edits"} /\ branch'[t].edits = branch[t].edits \cup tree[t].dirty
        /\ DOMAIN tree'[t] = DOMAIN tree[t] /\ tree'[t].dirty = {} /\ tree'[t].deps = tree[t].deps
    BY <2>2 DEF GitShape
  <2>4. GitShape' BY <2>2, <2>3 DEF GitShape
  <2>5. OneMerge' BY <2>2 DEF OneMerge
  <2>6. \A S \in ClosedSets : t \in S => OfTickets(S, branch'[t].edits \ BaseEdits)
    BY <1>b, <2>3 DEF EditsOwned, OfTickets
  <2> QED BY <2>1, <2>2, <2>3, <2>4, <2>5, <2>6, GitQuiet DEF EditsOwned, StagedOwned, OfTickets
<1>7. ASSUME NEW t \in WtTickets, EnterMerge(t) PROVE GitInv'
  <2>1. /\ mergeLock = {} /\ mergeLock' = {t} /\ UNCHANGED <<base, branch, tree, main, merged, excluded, starts, gitFaults>>
        /\ \E step \in {"check", "recheck"} : To(t, step)
    BY <1>7 DEF EnterMerge, MergeLockFree
  <2>2. \A x \in WtTickets : job[x] \notin InMerge BY <2>1 DEF OneMerge
  <2>3. DOMAIN job' = WtTickets /\ job'[t] \in {"check", "recheck"} /\ \A x \in WtTickets \ {t} : job'[x] = job[x]
    BY <1>a, <2>1 DEF To
  <2>4. GitShape' /\ OneMerge' BY <2>1, <2>2, <2>3 DEF GitShape, OneMerge
  <2> QED BY <2>1, <2>2, <2>3, <2>4, GitQuiet DEF EditsOwned, StagedOwned, InMerge
<1>8. ASSUME NEW t \in WtTickets, NEW step \in {"resolving", "off", "finish"}, job[t] \in InMerge,
             LeaveMerge(t, step), DOMAIN main' = DOMAIN main, main'.staged \subseteq main.staged,
             main'.amid = main.amid, main'.lost = main.lost,
             UNCHANGED <<base, branch, tree, merged, excluded, starts, gitFaults>>
      PROVE  GitInv'
  <2>1. /\ DOMAIN job' = WtTickets /\ \A x \in WtTickets : job'[x] = IF x = t THEN step ELSE job[x]
        /\ \A x \in WtTickets : job'[x] \notin InMerge
    BY <1>8, MergeLeft DEF InMerge
  <2>2. GitShape' /\ OneMerge' BY <1>8, <2>1 DEF GitShape, OneMerge
  <2> QED BY <1>8, <2>1, <2>2, GitQuiet DEF EditsOwned, StagedOwned, InMerge
<1>9. ASSUME NEW t \in WtTickets, Integrate(t) PROVE GitInv'
  <2>1. job[t] \in InMerge /\ UNCHANGED <<base, tree, main, merged, excluded, starts, gitFaults>>
    BY <1>9 DEF Integrate, InMerge
  <2>2. ASSUME NEW step \in {"resolving", "off", "finish"}, LeaveMerge(t, step), UNCHANGED branch
        PROVE  GitInv'
    BY <1>8, <2>1, <2>2
  <2>3. ASSUME main.staged = {}, NEW step \in {"stage", "restage"}, To(t, step), UNCHANGED mergeLock,
               branch' = IF tree[t].exists THEN [branch EXCEPT ![t].edits = @ \cup BaseEdits] ELSE branch
        PROVE  GitInv'
    <3>1. DOMAIN job' = WtTickets /\ \A x \in WtTickets : job'[x] = IF x = t THEN step ELSE job[x]
      BY <1>a, <2>3 DEF To
    <3>2. /\ DOMAIN branch' = WtTickets
          /\ \A x \in WtTickets : /\ DOMAIN branch'[x] = {"exists", "edits"}
                                  /\ branch'[x].edits \subseteq branch[x].edits \cup BaseEdits
      BY <2>3 DEF GitShape
    <3>3. GitShape' BY <1>a, <2>1, <3>1, <3>2 DEF GitShape
    <3>4. OneMerge' BY <2>1, <2>3, <3>1 DEF OneMerge
    <3> QED BY <2>1, <2>3, <3>1, <3>2, <3>3, <3>4, GitQuiet DEF EditsOwned, StagedOwned
  <2> QED BY <1>9, <2>2, <2>3 DEF Integrate, ConflictStep, CheckoutClean
<1>10. ASSUME NEW t \in WtTickets, NEW aborted \in BOOLEAN, MergeConflict(t, aborted) \/ CommitFails(t)
       PROVE  GitInv'
  <2>1. /\ job[t] \in InMerge /\ UNCHANGED <<base, branch, tree, merged, excluded, starts, gitFaults>>
        /\ LeaveMerge(t, ConflictStep(t)) /\ ConflictStep(t) \in {"resolving", "off"}
    BY <1>10 DEF MergeConflict, CommitFails, ConflictStep, InMerge
  <2>2. /\ DOMAIN main' = DOMAIN main /\ main'.staged \subseteq main.staged
        /\ main'.amid = main.amid /\ main'.lost = main.lost
    <3>1. CASE MergeConflict(t, aborted) BY <3>1 DEF MergeConflict, GitShape
    <3>2. CASE CommitFails(t) BY <3>2 DEF CommitFails, GitShape
    <3> QED BY <1>10, <3>1, <3>2
  <2> QED BY <1>8, <2>1, <2>2
<1>11. ASSUME NEW t \in WtTickets, PlainMerge(t) PROVE GitInv'
  <2> DEFINE adds == branch[t].edits \ BaseEdits
  <2>1. Landed(t, adds) /\ UNCHANGED main /\ job[t] \in InMerge BY <1>11 DEF PlainMerge, InMerge
  <2>2. adds \in SUBSET Edits /\ branch[t].edits \subseteq BaseEdits \cup adds BY DEF GitShape
  <2>3. \A S \in ClosedSets : t \in S => OfTickets(S, adds \ main.amid) BY <1>b DEF OfTickets
  <2> HIDE DEF adds
  <2> QED BY <2>1, <2>2, <2>3, LandedOK
<1>12. ASSUME NEW t \in WtTickets, StageSquash(t) PROVE GitInv'
  <2>1. /\ job[t] \in {"stage", "restage"} /\ \E step \in {"commit", "recommit"} : To(t, step)
        /\ main' = [main EXCEPT !.staged = @ \cup (branch[t].edits \ BaseEdits)]
        /\ UNCHANGED <<base, branch, tree, mergeLock, merged, excluded, starts, gitFaults>>
    BY <1>12 DEF StageSquash
  <2>2. DOMAIN job' = WtTickets /\ job'[t] \in {"commit", "recommit"} /\ \A x \in WtTickets \ {t} : job'[x] = job[x]
    BY <1>a, <2>1 DEF To
  <2>3. /\ main.staged \subseteq main.amid /\ main'.amid = main.amid /\ main'.lost = main.lost
        /\ DOMAIN main' = DOMAIN main /\ main'.staged = main.staged \cup (branch[t].edits \ BaseEdits)
    BY <2>1 DEF StagedOwned, GitShape
  <2>4. mergeLock = {t} /\ \A x \in WtTickets \ {t} : job[x] \notin InMerge
    BY <2>1 DEF OneMerge, InMerge
  <2>5. BaseEdits' = BaseEdits BY <2>1 DEF BaseEdits
  <2>6. GitShape' BY <2>1, <2>2, <2>3 DEF GitShape
  <2>7. OneMerge' BY <2>1, <2>2, <2>4 DEF OneMerge
  <2>8. EditsOwned' BY <2>1, <2>2, <2>5 DEF EditsOwned, ClosedSets, OfTickets
  <2>9. StagedOwned'
    <3>1. \A S \in ClosedSets : t \in S => OfTickets(S, main'.staged \ main'.amid)
      BY <1>b, <2>3 DEF OfTickets
    <3>2. branch'[t].edits \subseteq BaseEdits \cup main'.staged BY <2>1, <2>3
    <3> QED BY <2>2, <2>4, <2>5, <3>1, <3>2 DEF StagedOwned, ClosedSets, OfTickets, InMerge
  <2>10. MergedIsOnBase' /\ MergesAreTheirOwn'
    BY <2>1, <2>3, <2>5 DEF MergedIsOnBase, MergesAreTheirOwn, ClosedSets, OfTickets
  <2> QED BY <2>6, <2>7, <2>8, <2>9, <2>10
<1>13. ASSUME NEW t \in WtTickets, CommitSquash(t) PROVE GitInv'
  <2>1. job[t] \in {"commit", "recommit"} /\ Landed(t, main.staged) /\ main' = [main EXCEPT !.staged = {}]
    BY <1>13 DEF CommitSquash
  <2>2. /\ main.staged \in SUBSET Edits /\ branch[t].edits \subseteq BaseEdits \cup main.staged \cup main.lost
        /\ \A S \in ClosedSets : t \in S => OfTickets(S, main.staged \ main.amid)
    BY <2>1 DEF StagedOwned, GitShape
  <2>3. /\ DOMAIN main' = DOMAIN main /\ main'.staged \subseteq main.staged
        /\ main'.amid = main.amid /\ main'.lost = main.lost
    BY <2>1 DEF GitShape
  <2> QED BY <2>1, <2>2, <2>3, LandedOK DEF InMerge
<1>14. ASSUME NEW t \in WtTickets, NEW ok \in BOOLEAN, ResolveConflict(t, ok) PROVE GitInv'
  <2>1. /\ \E step \in {"again", "off"} : To(t, step)
        /\ branch' = IF ok THEN [branch EXCEPT ![t].edits = @ \cup BaseEdits] ELSE branch
        /\ UNCHANGED <<base, tree, main, mergeLock, merged, excluded, starts, gitFaults>>
    BY <1>14 DEF ResolveConflict
  <2>2. DOMAIN job' = WtTickets /\ job'[t] \in {"again", "off"} /\ \A x \in WtTickets \ {t} : job'[x] = job[x]
    BY <1>a, <2>1 DEF To
  <2>3. /\ DOMAIN branch' = WtTickets
        /\ \A x \in WtTickets : /\ DOMAIN branch'[x] = {"exists", "edits"}
                                /\ branch'[x].edits \subseteq branch[x].edits \cup BaseEdits
    BY <2>1 DEF GitShape
  <2>4. GitShape' BY <1>a, <2>1, <2>2, <2>3 DEF GitShape
  <2>5. OneMerge' BY <2>1, <2>2 DEF OneMerge, InMerge
  <2> QED BY <2>1, <2>2, <2>3, <2>4, <2>5, GitQuiet DEF EditsOwned, StagedOwned
<1>15. ASSUME NEW t \in WtTickets, RemoveTree(t) \/ ValidateTicket(t) PROVE GitInv'
  <2>1. /\ tree' = [tree EXCEPT ![t] = NoTree] /\ UNCHANGED <<base, main, mergeLock, merged, excluded, starts>>
        /\ gitFaults' = gitFaults \/ GitFault
        /\ branch' = branch \/ branch' = [branch EXCEPT ![t] = [exists |-> FALSE, edits |-> {}]]
        /\ job' = job \/ To(t, "off")
    BY <1>15 DEF RemoveTree, ValidateTicket
  <2>2. DOMAIN job' = WtTickets /\ \A x \in WtTickets : job'[x] = job[x] \/ job'[x] = "off"
    BY <1>a, <2>1 DEF To
  <2>3. /\ DOMAIN branch' = WtTickets
        /\ \A x \in WtTickets : /\ DOMAIN branch'[x] = {"exists", "edits"}
                                /\ branch'[x].edits \subseteq branch[x].edits
    BY <2>1 DEF GitShape
  <2>4. DOMAIN tree' = WtTickets /\ tree'[t] = NoTree /\ \A x \in WtTickets \ {t} : tree'[x] = tree[x]
    BY <1>a, <2>1
  <2>5. GitShape' BY <1>a, <2>1, <2>2, <2>3, <2>4, FaultCounted DEF GitShape, NoTree
  <2>6. OneMerge' BY <2>1, <2>2 DEF OneMerge, InMerge
  <2> QED BY <2>1, <2>2, <2>3, <2>4, <2>5, <2>6, GitQuiet DEF EditsOwned, StagedOwned, NoTree, OfTickets
<1>16. CASE DaemonRestart
  <2>1. /\ job' = [t \in WtTickets |-> "off"]
        /\ UNCHANGED <<base, branch, tree, main, merged, excluded, starts>> /\ GitFault
    BY <1>16 DEF DaemonRestart
  <2>2. GitShape' /\ OneMerge' BY <2>1, FaultCounted DEF GitShape, OneMerge, InMerge
  <2> QED BY <2>1, <2>2, GitQuiet DEF EditsOwned, StagedOwned
<1>17. CASE OperatorEdits \/ OperatorStages
  <2>1. /\ \/ main' = [main EXCEPT !.dirty = TRUE]
           \/ main' = [main EXCEPT !.staged = @ \cup {OperatorEdit}, !.amid = @ \cup WhileMerging({OperatorEdit})]
        /\ UNCHANGED <<base, branch, tree, job, mergeLock, merged, excluded, starts>> /\ GitFault
    BY <1>17 DEF OperatorEdits, OperatorStages
  <2>2. /\ DOMAIN main' = DOMAIN main /\ main.staged \subseteq main'.staged /\ main'.lost = main.lost
        /\ main'.staged \subseteq main.staged \cup {OperatorEdit} /\ main.amid \subseteq main'.amid
    BY <2>1 DEF GitShape
  <2>3. MergeUnderWay => main'.staged \ main'.amid \subseteq main.staged \ main.amid
    BY <2>1 DEF GitShape, WhileMerging
  <2>4. GitShape' /\ OneMerge' BY <2>1, <2>2, FaultCounted DEF GitShape, OneMerge
  <2>5. ASSUME NEW x \in WtTickets, job[x] \in {"stage", "restage", "commit", "recommit"}
        PROVE  main'.staged \ main'.amid \subseteq main.staged \ main.amid
    BY <2>3, <2>5 DEF MergeUnderWay
  <2> QED BY <2>1, <2>2, <2>4, <2>5, GitQuiet DEF EditsOwned, StagedOwned
<1>18. ASSUME NEW tidied \in BOOLEAN, OperatorTidies(tidied) PROVE GitInv'
  <2> DEFINE adds == main.staged \cup IF main.dirty THEN {OperatorEdit} ELSE {}
             c == [by |-> "operator", adds |-> adds]
  <2>1. /\ main' = [main EXCEPT !.staged = {}, !.dirty = FALSE,
                                !.lost = @ \cup IF tidied THEN {} ELSE WhileMerging(main.staged)]
        /\ base' = IF tidied THEN Append(base, c) ELSE base
        /\ UNCHANGED <<branch, tree, job, mergeLock, merged, excluded, starts>> /\ GitFault
    BY <1>18 DEF OperatorTidies
  <2>a. /\ DOMAIN main' = DOMAIN main /\ main'.staged = {} /\ main'.amid = main.amid
        /\ main.lost \subseteq main'.lost
        /\ MergeUnderWay /\ ~tidied => main'.lost = main.lost \cup main.staged
    BY <2>1 DEF GitShape, WhileMerging
  <2>2. c \in Commits /\ c.by = "operator" /\ main.staged \subseteq c.adds
    BY FaultCounted DEF Commits, GitShape
  <2> HIDE DEF c
  <2>3. /\ base' \in Seq(Commits) /\ BaseEdits \subseteq BaseEdits'
        /\ tidied => main.staged \subseteq BaseEdits'
        /\ \A i \in DOMAIN base' : \/ base'[i].by = "operator"
                                   \/ i \in DOMAIN base /\ base'[i] = base[i]
    <3>1. CASE tidied BY <2>1, <2>2, <3>1, BaseGrows DEF GitShape
    <3>2. CASE ~tidied BY <2>1, <3>2 DEF GitShape, BaseEdits
    <3> QED BY <3>1, <3>2
  <2>4. GitShape' BY <2>1, <2>a, <2>3, FaultCounted DEF GitShape
  <2>b. ASSUME NEW x \in WtTickets, job[x] \in {"commit", "recommit"}
        PROVE  branch[x].edits \subseteq BaseEdits' \cup main'.lost
    <3>1. MergeUnderWay BY <2>b DEF MergeUnderWay
    <3>2. main.staged \subseteq BaseEdits' \cup main'.lost BY <2>a, <2>3, <3>1
    <3> QED BY <2>a, <2>3, <2>b, <3>2 DEF StagedOwned
  <2>5. OneMerge' /\ StagedOwned' BY <2>1, <2>a, <2>b DEF OneMerge, StagedOwned, OfTickets
  <2>6. EditsOwned' BY <2>1, <2>3 DEF EditsOwned, ClosedSets, OfTickets
  <2>7. MergedIsOnBase' BY <2>1, <2>a, <2>3 DEF MergedIsOnBase
  <2>8. MergesAreTheirOwn' BY <2>a, <2>3 DEF MergesAreTheirOwn, ClosedSets, OfTickets
  <2> QED BY <2>4, <2>5, <2>6, <2>7, <2>8
<1>19. CASE UNCHANGED gitVars
  <2>1. UNCHANGED <<base, branch, tree, main, job, mergeLock, merged, excluded, starts, gitFaults>>
    BY <1>19 DEF gitVars
  <2>2. GitShape' /\ OneMerge' BY <2>1 DEF GitShape, OneMerge
  <2> QED BY <2>1, <2>2, GitQuiet DEF EditsOwned, StagedOwned
<1> QED
  BY <1>1, <1>2, <1>3, <1>4, <1>5, <1>6, <1>7, <1>9, <1>10, <1>11, <1>12, <1>13, <1>14, <1>15,
     <1>16, <1>17, <1>18, <1>19 DEF GitNext

(* THEOREM: what merge_ticket reported stays on the base branch.            *)
THEOREM GitKeepsMerged == GitSpec => []MergedIsOnBase
<1>1. GitInv => MergedIsOnBase BY DEF GitInv
<1> QED BY GitInitOK, GitStepOK, <1>1, PTL DEF GitSpec

(* THEOREM: a merge tidied its ticket's work and its dependencies', and    *)
(* nothing that anybody else left in the checkout.                          *)
THEOREM GitMergesOwn == GitSpec => []MergesAreTheirOwn
<1>1. GitInv => MergesAreTheirOwn BY DEF GitInv
<1> QED BY GitInitOK, GitStepOK, <1>1, PTL DEF GitSpec
-----------------------------------------------------------------------------
(* Notebook: locked sections stay, capabilities, promoted items and verdicts *)
(* are kept.  What a call under way has read or made is part of the          *)
(* invariant: the child ticket it has created, the items it will write back, *)
(* the proposal it will post a verdict on.                                   *)
DealFields == {"at", "n", "i", "verdict", "locks", "items", "child"}
Item == [status : {"open", "promoted"}, child : Nat]
ItemLists == UNION {[D -> Item] : D \in SUBSET Nat}
Checkpoints == [phase : SpecPhases, items : ItemLists, historical : BOOLEAN]
Proposals ==
  [author : Authors, target : SpecFields \cup {"spec"}, change : SUBSET SpecFields,
   state : {"pending", "accepted", "rejected", "refining"}, by : Authors \cup {"nobody"}, note : BOOLEAN]
ItemsKept(items) == \A i \in DOMAIN items : items[i].status = "promoted" => items[i].child \in 1..children

NoteShape ==
  /\ DOMAIN spec = {"version", "fields"} /\ DOMAIN spec.fields = SpecFields
  /\ DOMAIN lockedAs = DOMAIN LockedAfter
  /\ children \in Nat /\ cps \in Seq(Checkpoints) /\ proposals \in Seq(Proposals)
DealSound(a, d) ==
  /\ DOMAIN d = DealFields /\ d.items \in ItemLists /\ d.verdict \in {"none", "accept", "reject", "refine"}
  /\ d.at \in {"create", "items", "mark"} => d.n \in DOMAIN cps
  /\ d.at \in {"items", "mark"} => d.child \in 1..children
  /\ d.at = "mark" => ItemsKept(d.items)
  /\ d.at \in {"helper", "apply", "post"} => d.n \in DOMAIN proposals
  /\ d.at \in {"apply", "post"} /\ SelfApproval = "blocked" => proposals[d.n].author # a
DealsSound == DOMAIN deal = Authors /\ \A a \in Authors : DealSound(a, deal[a])
NoteInv == NoteShape /\ DealsSound /\ LockedSectionsFixed /\ NotesKept

(* LEMMA: a call that is over holds nothing. *)
LEMMA NoDealSound ==
  /\ DOMAIN NoDeal = DealFields /\ NoDeal.items \in ItemLists
  /\ NoDeal.at = "none" /\ NoDeal.verdict = "none"
  /\ \A a : DealSound(a, NoDeal) /\ DealSound(a, NoDeal)'
<1>1. DOMAIN NoDeal = DealFields /\ NoDeal.items = <<>> /\ NoDeal.at = "none" /\ NoDeal.verdict = "none"
  BY DEF NoDeal, DealFields
<1>2. <<>> \in ItemLists
  <2>1. <<>> \in [{} -> Item] OBVIOUS
  <2> QED BY <2>1 DEF ItemLists
<1> QED BY <1>1, <1>2 DEF DealSound

(* LEMMA: replacing an element of a sequence. *)
LEMMA SeqUpdate ==
  ASSUME NEW S, NEW s \in Seq(S), NEW i \in DOMAIN s, NEW v \in S
  PROVE  /\ [s EXCEPT ![i] = v] \in Seq(S) /\ DOMAIN [s EXCEPT ![i] = v] = DOMAIN s
         /\ \A j \in DOMAIN s : [s EXCEPT ![i] = v][j] = IF j = i THEN v ELSE s[j]
  OBVIOUS

(* LEMMA: an empty notebook breaks no lock and has lost nothing.             *)
LEMMA NoteInit == NotebookInit => NoteInv
<1> SUFFICES ASSUME NotebookInit PROVE NoteInv OBVIOUS
<1>3. cps \in Seq(Checkpoints) /\ proposals \in Seq(Proposals) BY EmptySeq DEF NotebookInit
<1>4. NoteShape BY <1>3 DEF NotebookInit, NoteShape
<1>5. DealsSound BY NoDealSound DEF NotebookInit, DealsSound
<1>6. LockedSectionsFixed /\ NotesKept
  BY DEF NotebookInit, LockedSectionsFixed, LockedFields, NotesKept
<1> QED BY <1>4, <1>5, <1>6 DEF NoteInv

(* LEMMA: a caller's call moves on and the rest stays. *)
LEMMA DealMoves ==
  ASSUME NoteShape, DealsSound, NEW a \in Authors, NEW d, Going(a, d),
         DOMAIN proposals \subseteq DOMAIN proposals', children' \in Nat, children <= children',
         \A p \in DOMAIN proposals : proposals'[p].author = proposals[p].author,
         DOMAIN cps' = DOMAIN cps, DealSound(a, d)'
  PROVE  DealsSound'
<1>1. DOMAIN deal' = Authors /\ deal'[a] = d /\ \A x \in Authors \ {a} : deal'[x] = deal[x]
  BY DEF DealsSound, Going
<1>2. children \in Nat /\ 1..children \subseteq 1..children' BY DEF NoteShape
<1>3. ASSUME NEW x \in Authors \ {a} PROVE DealSound(x, deal[x])'
  BY <1>1, <1>2, <1>3 DEF DealsSound, DealSound, ItemsKept
<1> QED BY <1>1, <1>3 DEF DealsSound

(* LEMMA: a proposal and a checkpoint with a field replaced. *)
LEMMA ProposalNoted ==
  ASSUME NEW p \in Proposals, NEW b \in BOOLEAN
  PROVE  /\ [p EXCEPT !.note = b] \in Proposals
         /\ [p EXCEPT !.note = b].author = p.author /\ [p EXCEPT !.note = b].by = p.by
  BY DEF Proposals

(* LEMMA: a verdict changes the state and the judge of a proposal, not its   *)
(* author.                                                                   *)
LEMMA ProposalSettled ==
  ASSUME NEW p \in Proposals, NEW a \in Authors, NEW state \in {"accepted", "rejected", "refining"}
  PROVE  /\ [p EXCEPT !.state = state, !.by = a] \in Proposals
         /\ [p EXCEPT !.state = state, !.by = a].author = p.author
         /\ [p EXCEPT !.state = state, !.by = a].by = a
  BY DEF Proposals

(* LEMMA: a checkpoint that is made historical, or whose items change, stays *)
(* a checkpoint with the rest unchanged.                                     *)
LEMMA CheckpointEdited ==
  ASSUME NEW c \in Checkpoints, NEW items \in ItemLists
  PROVE  /\ [c EXCEPT !.historical = TRUE] \in Checkpoints /\ [c EXCEPT !.items = items] \in Checkpoints
         /\ [c EXCEPT !.historical = TRUE].items = c.items /\ [c EXCEPT !.items = items].items = items
  BY DEF Checkpoints

(* LEMMA: each step of a proposal, a checkpoint or a regeneration works on   *)
(* what is there and keeps what was promised.                                *)
LEMMA NoteStep ==
  ASSUME NoteInv, [NotebookNext]_noteVars
  PROVE  NoteInv'
<1> USE DEF NoteInv
<1>a. children \in Nat /\ DOMAIN deal = Authors /\ proposals \in Seq(Proposals) /\ cps \in Seq(Checkpoints)
  BY DEF NoteShape, DealsSound
<1>1. ASSUME UNCHANGED <<spec, phasesDone, lockedAs>> PROVE LockedSectionsFixed'
  BY <1>1 DEF LockedSectionsFixed, LockedFields
<1>2. ASSUME UNCHANGED <<proposals, cps, children, caps, everRoots>> PROVE NotesKept'
  BY <1>2 DEF NotesKept
<1>3. ASSUME UNCHANGED <<deal, proposals, children>>, DOMAIN cps \subseteq DOMAIN cps' PROVE DealsSound'
  BY <1>3 DEF DealsSound, DealSound, ItemsKept
<1>4. ASSUME MaterializeSpec PROVE NoteInv'
  <2>1. spec' = [spec EXCEPT !.version = 1]
        /\ UNCHANGED <<proposals, deal, phasesDone, lockedAs, cps, children, caps, everRoots>>
    BY <1>4 DEF MaterializeSpec
  <2>2. NoteShape' /\ LockedSectionsFixed' BY <2>1 DEF NoteShape, LockedSectionsFixed, LockedFields
  <2> QED BY <1>2, <1>3, <2>1, <2>2
<1>5. ASSUME NEW a \in Authors, NEW aim \in SpecFields \cup {"spec"}, NEW change \in SUBSET SpecFields,
             ProposeChange(a, aim, change)
      PROVE  NoteInv'
  <2> DEFINE p == [author |-> a, target |-> aim, change |-> change, state |-> "pending",
                   by |-> "nobody", note |-> FALSE]
  <2>d. PICK d : d = [NoDeal EXCEPT !.at = "helper", !.n = Len(proposals) + 1] OBVIOUS
  <2>1. /\ proposals' = Append(proposals, p) /\ (Going(a, d) \/ UNCHANGED deal)
        /\ UNCHANGED <<spec, phasesDone, lockedAs, cps, children, caps, everRoots>>
    BY <1>5, <2>d DEF ProposeChange
  <2>2. p \in Proposals /\ p.author = a /\ p.by = "nobody" BY DEF Proposals
  <2>3. DOMAIN d = DealFields /\ d.items = NoDeal.items /\ d.verdict = "none" /\ d.at = "helper"
        /\ d.n = Len(proposals) + 1
    BY <2>d, NoDealSound DEF DealFields
  <2> HIDE DEF p
  <2>4. /\ proposals' \in Seq(Proposals) /\ DOMAIN proposals \subseteq DOMAIN proposals'
        /\ Len(proposals) + 1 \in DOMAIN proposals'
        /\ \A i \in DOMAIN proposals : proposals'[i] = proposals[i]
        /\ \A i \in DOMAIN proposals' : i \in DOMAIN proposals \/ proposals'[i] = p
    BY <1>a, <2>1, <2>2, AppendProperties, LenProperties
  <2>5. DealsSound'
    <3>1. DealSound(a, d)' BY <2>3, <2>4, NoDealSound DEF DealSound
    <3>2. CASE Going(a, d) BY <1>a, <2>1, <2>4, <3>1, <3>2, DealMoves
    <3>3. CASE UNCHANGED deal BY <2>1, <2>4, <3>3 DEF DealsSound, DealSound, ItemsKept
    <3> QED BY <2>1, <3>2, <3>3
  <2>6. NoteShape' BY <2>1, <2>4 DEF NoteShape
  <2>7. NotesKept' BY <2>1, <2>2, <2>4, NotebookAssumption DEF NotesKept
  <2> QED BY <1>1, <2>1, <2>5, <2>6, <2>7
<1>6. ASSUME NEW a \in Authors, NEW b \in BOOLEAN, HelperEnds(a, b) PROVE NoteInv'
  <2>1. /\ proposals' = [proposals EXCEPT ![deal[a].n].note = b] /\ Going(a, NoDeal)
        /\ UNCHANGED <<spec, phasesDone, lockedAs, cps, children, caps, everRoots>>
    BY <1>6 DEF HelperEnds, Done
  <2>n. deal[a].n \in DOMAIN proposals BY <1>6 DEF HelperEnds, DealsSound, DealSound
  <2> DEFINE noted == proposals[deal[a].n]
             v == [noted EXCEPT !.note = b]
  <2>p. v \in Proposals /\ v.author = noted.author /\ v.by = noted.by 
    <3>1. noted \in Proposals BY <1>a, <2>n
    <3> QED BY <1>6, <3>1, ProposalNoted
  <2>q. proposals' = [proposals EXCEPT ![deal[a].n] = v] BY <2>1
  <2>2. /\ proposals' \in Seq(Proposals) /\ DOMAIN proposals' = DOMAIN proposals
        /\ \A i \in DOMAIN proposals : /\ proposals'[i].author = proposals[i].author
                                       /\ proposals'[i].by = proposals[i].by
    <3> HIDE DEF v
    <3> QED BY <1>a, <2>n, <2>p, <2>q, SeqUpdate
  <2>3. DealsSound' BY <1>a, <2>1, <2>2, DealMoves, NoDealSound
  <2>4. NoteShape' BY <2>1, <2>2 DEF NoteShape
  <2>5. NotesKept' BY <2>1, <2>2 DEF NotesKept
  <2> QED BY <1>1, <2>1, <2>3, <2>4, <2>5
<1>7. ASSUME NEW a \in Authors, NEW p \in DOMAIN proposals, NEW verdict \in {"accept", "reject", "refine"},
             BeginResolve(a, p, verdict)
      PROVE  NoteInv'
  <2> DEFINE at == IF verdict = "accept" THEN "apply" ELSE "post"
  <2>d. PICK d : d = [NoDeal EXCEPT !.at = at, !.n = p, !.verdict = verdict, !.locks = LockedFields]
    OBVIOUS
  <2>1. /\ Going(a, d) /\ MayResolve(a, p)
        /\ UNCHANGED <<spec, proposals, phasesDone, lockedAs, cps, children, caps, everRoots>>
    BY <1>7, <2>d DEF BeginResolve
  <2>2. /\ DOMAIN d = DealFields /\ d.items = NoDeal.items /\ d.verdict = verdict
        /\ d.at \in {"apply", "post"} /\ d.n = p
    BY <2>d, NoDealSound DEF DealFields
  <2>3. SelfApproval = "blocked" => proposals[p].author # a BY <2>1 DEF MayResolve
  <2>4. NoDeal.items \in ItemLists BY NoDealSound DEF DealSound
  <2> HIDE DEF at
  <2>5. DealSound(a, d)' BY <2>1, <2>2, <2>3, <2>4 DEF DealSound
  <2>6. DealsSound' BY <1>a, <2>1, <2>5, DealMoves
  <2>7. NoteShape' BY <2>1 DEF NoteShape
  <2> QED BY <1>1, <1>2, <2>1, <2>6, <2>7
<1>8. ASSUME NEW a \in Authors, NEW b \in BOOLEAN, ApplySpecChange(a, b) PROVE NoteInv'
  <2> DEFINE p == proposals[deal[a].n]
  <2>1. deal[a].at = "apply" /\ UNCHANGED <<proposals, phasesDone, lockedAs, cps, children, caps, everRoots>>
    BY <1>8 DEF ApplySpecChange
  <2>2. CASE Done(a) /\ UNCHANGED spec
    BY <1>1, <1>2, <1>a, <2>1, <2>2, DealMoves, NoDealSound DEF Done, NoteShape
  <2>3. CASE /\ p.change \cap LockedFields = {} /\ spec' = SavedSpec(p.change, deal[a].n)
             /\ Going(a, [deal[a] EXCEPT !.at = "post"])
    <3>1. /\ DOMAIN spec' = {"version", "fields"} /\ DOMAIN spec'.fields = SpecFields
          /\ \A f \in SpecFields \ p.change : spec'.fields[f] = spec.fields[f]
      BY <2>3 DEF SavedSpec
    <3>2. LockedFields' = LockedFields /\ LockedFields \subseteq SpecFields
      BY <2>1, NotebookAssumption DEF LockedFields
    <3>3. LockedSectionsFixed' BY <2>1, <2>3, <3>1, <3>2 DEF LockedSectionsFixed
    <3>4. NoteShape' BY <2>1, <3>1 DEF NoteShape
    <3>d. PICK d : d = [deal[a] EXCEPT !.at = "post"] OBVIOUS
    <3>e. DealSound(a, deal[a]) BY DEF DealsSound
    <3>f. DOMAIN d = DealFields /\ d.at = "post" /\ d.n = deal[a].n /\ d.items = deal[a].items
          /\ d.verdict = deal[a].verdict
      BY <3>d, <3>e DEF DealSound, DealFields
    <3>5. DealSound(a, d)' BY <2>1, <3>e, <3>f DEF DealSound
    <3>6. DealsSound' BY <1>a, <2>1, <2>3, <3>5, <3>d, DealMoves DEF NoteShape
    <3> QED BY <1>2, <2>1, <3>3, <3>4, <3>6
  <2> QED BY <1>8, <2>2, <2>3 DEF ApplySpecChange, LocksToRespect
<1>9. ASSUME NEW a \in Authors, PostVerdict(a) PROVE NoteInv'
  <2> DEFINE n == deal[a].n
             state == StateAfter(deal[a].verdict)
  <2>1. /\ Going(a, NoDeal) /\ deal[a].at = "post"
        /\ proposals' = [proposals EXCEPT ![n].state = state, ![n].by = a]
        /\ UNCHANGED <<spec, phasesDone, lockedAs, cps, children, caps, everRoots>>
    BY <1>9 DEF PostVerdict, Done
  <2>2. state \in {"accepted", "rejected", "refining"} BY DEF StateAfter, DealsSound, DealSound
  <2>3. n \in DOMAIN proposals /\ (SelfApproval = "blocked" => proposals[n].author # a)
    BY <2>1 DEF DealsSound, DealSound
  <2> HIDE DEF n, state
  <2> DEFINE v == [proposals[n] EXCEPT !.state = state, !.by = a]
  <2>p. v \in Proposals /\ v.author = proposals[n].author /\ v.by = a
    <3>1. proposals[n] \in Proposals BY <1>a, <2>3
    <3> QED BY <2>2, <3>1, ProposalSettled
  <2>q. proposals' = [proposals EXCEPT ![n] = v] BY <1>a, <2>1, <2>3 DEF Proposals
  <2>4. /\ proposals' \in Seq(Proposals) /\ DOMAIN proposals' = DOMAIN proposals
        /\ \A i \in DOMAIN proposals : /\ proposals'[i].author = proposals[i].author
                                       /\ proposals'[i].by = IF i = n THEN a ELSE proposals[i].by
    <3> HIDE DEF v
    <3> QED BY <1>a, <2>3, <2>p, <2>q, SeqUpdate
  <2> HIDE DEF v
  <2>5. DealsSound'
    <3>1. DealSound(a, NoDeal)' BY NoDealSound
    <3>2. children' \in Nat /\ children <= children' BY <1>a, <2>1
    <3> QED BY <1>a, <2>1, <2>4, <3>1, <3>2, DealMoves
  <2>6. NoteShape' BY <2>1, <2>4 DEF NoteShape
  <2>7. NotesKept' BY <2>1, <2>3, <2>4 DEF NotesKept
  <2> QED BY <1>1, <2>1, <2>5, <2>6, <2>7
<1>10. ASSUME NEW ph \in SpecPhases, AcceptPhase(ph) PROVE NoteInv'
  <2>1. /\ phasesDone' = phasesDone \cup {ph}
        /\ lockedAs' = [f \in DOMAIN LockedAfter |-> IF LockedAfter[f] = ph THEN spec.fields[f] ELSE lockedAs[f]]
        /\ UNCHANGED <<spec, proposals, deal, cps, children, caps, everRoots>>
    BY <1>10 DEF AcceptPhase
  <2>2. NoteShape' /\ LockedSectionsFixed' BY <2>1 DEF NoteShape, LockedSectionsFixed, LockedFields
  <2> QED BY <1>2, <1>3, <2>1, <2>2
<1>11. ASSUME NEW ph \in SpecPhases, NEW n \in 0..2, PostCheckpoint(ph, n) PROVE NoteInv'
  <2> DEFINE items == [i \in 1..n |-> OpenItem]
             c == [phase |-> ph, items |-> items, historical |-> FALSE]
  <2>1. cps' = Append(cps, c) /\ UNCHANGED <<spec, proposals, deal, phasesDone, lockedAs, children, caps, everRoots>>
    BY <1>11 DEF PostCheckpoint
  <2>2. items \in ItemLists /\ \A i \in DOMAIN items : items[i].status # "promoted"
    <3>1. items \in [1..n -> Item] /\ 1..n \in SUBSET Nat BY DEF OpenItem, Item
    <3> QED BY <3>1 DEF ItemLists, OpenItem
  <2> HIDE DEF items
  <2>3. c \in Checkpoints /\ c.items = items BY <2>2 DEF Checkpoints
  <2> HIDE DEF c
  <2>4. /\ cps' \in Seq(Checkpoints)
        /\ DOMAIN cps \subseteq DOMAIN cps'
        /\ \A i \in DOMAIN cps' : (i \in DOMAIN cps /\ cps'[i] = cps[i]) \/ cps'[i] = c
    BY <1>a, <2>1, <2>3, AppendProperties, LenProperties
  <2>5. NoteShape' BY <2>1, <2>4 DEF NoteShape
  <2>6. NotesKept' BY <2>1, <2>2, <2>3, <2>4 DEF NotesKept
  <2> QED BY <1>1, <1>3, <2>1, <2>4, <2>5, <2>6
<1>12. ASSUME NEW c \in DOMAIN cps, MarkHistorical(c) PROVE NoteInv'
  <2>1. /\ cps' = [cps EXCEPT ![c].historical = TRUE]
        /\ UNCHANGED <<spec, proposals, deal, phasesDone, lockedAs, children, caps, everRoots>>
    BY <1>12 DEF MarkHistorical
  <2> DEFINE v == [cps[c] EXCEPT !.historical = TRUE]
  <2>p. v \in Checkpoints /\ v.items = cps[c].items 
    <3>1. cps[c] \in Checkpoints BY <1>a, <1>12
    <3>2. cps[c].items \in ItemLists BY <3>1 DEF Checkpoints
    <3> QED BY <3>1, <3>2, CheckpointEdited
  <2>q. cps' = [cps EXCEPT ![c] = v] BY <2>1
  <2>2. /\ cps' \in Seq(Checkpoints) /\ DOMAIN cps' = DOMAIN cps
        /\ \A i \in DOMAIN cps : cps'[i].items = cps[i].items
    <3> HIDE DEF v
    <3> QED BY <1>a, <1>12, <2>p, <2>q, SeqUpdate
  <2>3. NoteShape' BY <2>1, <2>2 DEF NoteShape
  <2>4. NotesKept' BY <2>1, <2>2 DEF NotesKept
  <2> QED BY <1>1, <1>3, <2>1, <2>2, <2>3, <2>4
<1>13. ASSUME NEW a \in Authors, NEW d, Going(a, d), DealSound(a, d)',
              UNCHANGED <<spec, proposals, phasesDone, lockedAs, cps, children, caps, everRoots>>
       PROVE  NoteInv'
  <2>1. DealsSound' BY <1>a, <1>13, DealMoves
  <2>2. NoteShape' BY <1>13 DEF NoteShape
  <2> QED BY <1>1, <1>2, <1>13, <2>1, <2>2
<1>14. ASSUME NEW a \in Authors, NEW c \in DOMAIN cps, NEW i \in 1..2, BeginPromote(a, c, i) PROVE NoteInv'
  <2> DEFINE d == [NoDeal EXCEPT !.at = "create", !.n = c, !.i = i]
  <2>1. /\ Going(a, d) /\ UNCHANGED <<spec, proposals, phasesDone, lockedAs, cps, children, caps, everRoots>>
    BY <1>14 DEF BeginPromote
  <2>2. DOMAIN d = DealFields /\ d.items = NoDeal.items /\ d.verdict = "none" /\ d.at = "create" /\ d.n = c
    BY NoDealSound DEF DealFields
  <2> HIDE DEF d
  <2>3. DealSound(a, d)' BY <2>1, <2>2, <1>14, NoDealSound DEF DealSound
  <2> QED BY <1>13, <2>1, <2>3
<1>15. ASSUME NEW a \in Authors, CreateChild(a) PROVE NoteInv'
  <2>d. PICK d : d = [deal[a] EXCEPT !.at = "items", !.child = children + 1] OBVIOUS
  <2>1. /\ Going(a, d) /\ children' = children + 1 /\ deal[a].at = "create"
        /\ UNCHANGED <<spec, proposals, phasesDone, lockedAs, cps, caps, everRoots>>
    BY <1>15, <2>d DEF CreateChild
  <2>e. DealSound(a, deal[a]) BY DEF DealsSound
  <2>f. DOMAIN d = DealFields /\ d.at = "items" /\ d.n = deal[a].n /\ d.items = deal[a].items
        /\ d.verdict = deal[a].verdict /\ d.child = children + 1
    BY <2>d, <2>e DEF DealSound, DealFields
  <2>2. children' \in Nat /\ children <= children' /\ 1..children \subseteq 1..children' /\ children' \in 1..children'
    BY <1>a, <2>1
  <2>3. DealSound(a, d)' BY <2>1, <2>2, <2>e, <2>f DEF DealSound
  <2>4. DealsSound' BY <1>a, <2>1, <2>2, <2>3, DealMoves
  <2>5. NoteShape' BY <2>1, <2>2 DEF NoteShape
  <2>6. NotesKept' BY <2>1, <2>2 DEF NotesKept
  <2> QED BY <1>1, <2>1, <2>4, <2>5, <2>6
<1>16. ASSUME NEW a \in Authors, ReadItems(a) PROVE NoteInv'
  <2> DEFINE items == cps[deal[a].n].items
  <2>d. PICK d : d = [deal[a] EXCEPT !.at = "mark", !.items = items] OBVIOUS
  <2>1. /\ Going(a, d) /\ deal[a].at = "items"
        /\ UNCHANGED <<spec, proposals, phasesDone, lockedAs, cps, children, caps, everRoots>>
    BY <1>16, <2>d DEF ReadItems
  <2>e. DealSound(a, deal[a]) BY DEF DealsSound
  <2>2. deal[a].n \in DOMAIN cps /\ cps[deal[a].n] \in Checkpoints BY <1>a, <2>1, <2>e DEF DealSound
  <2>3. items \in ItemLists /\ ItemsKept(items)
    <3>1. items \in ItemLists BY <2>2 DEF Checkpoints
    <3>2. ItemsKept(items) BY <2>2 DEF NotesKept, ItemsKept
    <3> QED BY <3>1, <3>2
  <2>f. DOMAIN d = DealFields /\ d.at = "mark" /\ d.n = deal[a].n /\ d.items = items
        /\ d.verdict = deal[a].verdict /\ d.child = deal[a].child
    BY <2>d, <2>e DEF DealSound, DealFields
  <2> HIDE DEF items
  <2>g. ItemsKept(d.items)' BY <2>1, <2>3, <2>f DEF ItemsKept
  <2>4. DealSound(a, d)' BY <2>1, <2>2, <2>3, <2>e, <2>f, <2>g DEF DealSound
  <2> QED BY <1>13, <2>1, <2>4
<1>17. ASSUME NEW a \in Authors, MarkPromoted(a) PROVE NoteInv'
  <2> DEFINE c == deal[a].n
             it == [status |-> "promoted", child |-> deal[a].child]
             items == [deal[a].items EXCEPT ![deal[a].i] = it]
  <2>1. /\ Going(a, NoDeal) /\ deal[a].at = "mark" /\ cps' = [cps EXCEPT ![c].items = items]
        /\ UNCHANGED <<spec, proposals, phasesDone, lockedAs, children, caps, everRoots>>
    BY <1>17 DEF MarkPromoted, Done
  <2>2. /\ deal[a].items \in ItemLists /\ ItemsKept(deal[a].items) /\ deal[a].child \in 1..children
        /\ c \in DOMAIN cps
    BY <2>1 DEF DealsSound, DealSound
  <2>3. it \in Item /\ it.child = deal[a].child BY <1>a, <2>2 DEF Item
  <2> HIDE DEF it
  <2>4. items \in ItemLists /\ ItemsKept(items) BY <2>2, <2>3 DEF ItemLists, ItemsKept
  <2> HIDE DEF c, items
  <2> DEFINE v == [cps[c] EXCEPT !.items = items]
  <2>p. v \in Checkpoints /\ v.items = items 
    <3>1. cps[c] \in Checkpoints BY <1>a, <2>2
    <3> QED BY <2>4, <3>1, CheckpointEdited
  <2>q. cps' = [cps EXCEPT ![c] = v] BY <2>1
  <2>5. /\ cps' \in Seq(Checkpoints) /\ DOMAIN cps' = DOMAIN cps
        /\ \A i \in DOMAIN cps : cps'[i].items = IF i = c THEN items ELSE cps[i].items
    <3> HIDE DEF v
    <3> QED BY <1>a, <2>2, <2>p, <2>q, SeqUpdate
  <2>6. DealsSound' BY <1>a, <2>1, <2>5, DealMoves, NoDealSound
  <2>7. NoteShape' BY <2>1, <2>5 DEF NoteShape
  <2>8. NotesKept' BY <2>1, <2>4, <2>5 DEF NotesKept, ItemsKept
  <2> QED BY <1>1, <2>1, <2>6, <2>7, <2>8
<1>18. ASSUME NEW a \in Authors, PostDecision(a) PROVE NoteInv'
  <2>d. PICK d : d = [NoDeal EXCEPT !.at = "record", !.n = decisions.posted + 1] OBVIOUS
  <2>1. /\ Going(a, d) /\ UNCHANGED <<spec, proposals, phasesDone, lockedAs, cps, children, caps, everRoots>>
    BY <1>18, <2>d DEF PostDecision
  <2>2. DOMAIN d = DealFields /\ d.items = NoDeal.items /\ d.verdict = "none" /\ d.at = "record"
    BY <2>d, NoDealSound DEF DealFields
  <2>3. DealSound(a, d)' BY <2>2, NoDealSound DEF DealSound
  <2> QED BY <1>13, <2>1, <2>3
<1>19. ASSUME NEW a \in Authors, RecordDecision(a) PROVE NoteInv'
  BY <1>13, <1>19, NoDealSound DEF RecordDecision, Done
<1>20. ASSUME NEW brief, NEW match, RegenerateSpec(brief, match) PROVE NoteInv'
  <2>1. UNCHANGED <<spec, proposals, deal, phasesDone, lockedAs, cps, children>>
    BY <1>20 DEF RegenerateSpec
  <2>2. CASE UNCHANGED <<caps, everRoots>> BY <1>1, <1>2, <1>3, <2>1, <2>2 DEF NoteShape
  <2>3. CASE /\ \A c \in caps : \E b \in brief : match[b] = MergeOne(b, c)
             /\ caps' = {match[b] : b \in brief} /\ everRoots' = everRoots \cup {c.root : c \in caps'}
    <3>1. \A b, c : MergeOne(b, c).root = c.root BY DEF MergeOne
    <3>2. \A c \in caps : \E m \in caps' : m.root = c.root BY <2>3, <3>1
    <3>3. everRoots' \subseteq {m.root : m \in caps'} BY <2>3, <3>2 DEF NotesKept
    <3> QED BY <1>1, <1>3, <2>1, <3>3 DEF NotesKept, NoteShape
  <2> QED BY <1>20, <2>2, <2>3 DEF RegenerateSpec
<1>21. CASE DaemonKilled
  <2>1. /\ deal' = [a \in Authors |-> NoDeal]
        /\ UNCHANGED <<spec, proposals, phasesDone, lockedAs, cps, children, caps, everRoots>>
    BY <1>21 DEF DaemonKilled
  <2>2. DealsSound' BY <2>1, NoDealSound DEF DealsSound
  <2> QED BY <1>1, <1>2, <2>1, <2>2 DEF NoteShape
<1>22. CASE UNCHANGED noteVars BY <1>1, <1>2, <1>3, <1>22 DEF noteVars, NoteShape
<1>23. CASE ProposalNext
  BY <1>4, <1>5, <1>6, <1>7, <1>8, <1>9, <1>10, <1>21, <1>23 DEF ProposalNext
<1>24. CASE CheckpointNext
  BY <1>10, <1>11, <1>12, <1>14, <1>15, <1>16, <1>17, <1>18, <1>19, <1>21, <1>24 DEF CheckpointNext
<1>25. CASE BriefNext BY <1>20, <1>25 DEF BriefNext
<1> QED BY <1>22, <1>23, <1>24, <1>25 DEF NotebookNext

(* THEOREM: a locked section of the specification keeps the content its     *)
(* accepted handoff locked, whatever proposals are under way.               *)
THEOREM LocksHold == NotebookSpec => []LockedSectionsFixed
<1>1. NoteInv => LockedSectionsFixed BY DEF NoteInv
<1> QED BY NoteInit, NoteStep, <1>1, PTL DEF NotebookSpec

(* THEOREM: no capability is dropped, no promoted item is without its       *)
(* ticket, and nobody settles his own proposal where that is blocked.       *)
THEOREM NotebookKeeps == NotebookSpec => []NotesKept
<1>1. NoteInv => NotesKept BY DEF NoteInv
<1> QED BY NoteInit, NoteStep, <1>1, PTL DEF NotebookSpec
-----------------------------------------------------------------------------
(* Measures: envelopes and thresholds stay within what they summarise.       *)

(* LEMMA: a set of naturals has a least element. *)
LEMMA LeastExists ==
  ASSUME NEW S \in SUBSET Nat, S # {}
  PROVE  \E m \in S : \A k \in S : m <= k
<1>1. PICK d \in S : \A e \in S : <<e, d>> \notin OpToRel(<, Nat) BY WFMin, NatLessThanWellFounded
<1>2. ASSUME NEW k \in S PROVE d <= k
  <2>1. ~(k < d) BY <1>1 DEF OpToRel
  <2> QED BY <2>1
<1> QED BY <1>2

(* LEMMA: a finite set of naturals has a greatest element. *)
LEMMA GreatestExists ==
  ASSUME NEW S \in SUBSET Nat, S # {}, IsFiniteSet(S)
  PROVE  \E m \in S : \A k \in S : k <= m
<1> DEFINE above(x) == {y \in S : x <= y}
           N == {Cardinality(above(x)) : x \in S}
<1>1. \A x : IsFiniteSet(above(x)) /\ Cardinality(above(x)) \in Nat BY FS_Subset, FS_CardinalityType
<1>2. N \in SUBSET Nat /\ N # {} BY <1>1
<1>3. PICK n \in N : \A k \in N : n <= k BY <1>2, LeastExists
<1>4. PICK m \in S : n = Cardinality(above(m)) OBVIOUS
<1>5. ASSUME NEW k \in S, ~(k <= m) PROVE FALSE
  <2>0. m \in Nat /\ k \in Nat /\ S \subseteq Nat /\ m < k BY <1>5
  <2>a. \A y \in S : y \in Nat /\ (k <= y => m <= y) BY <2>0
  <2>b. above(k) \in SUBSET above(m) BY <2>a
  <2>c. m \in above(m) BY <2>0
  <2>d. m \notin above(k) BY <2>0
  <2>1. above(k) \in SUBSET above(m) /\ m \in above(m) /\ m \notin above(k) BY <2>b, <2>c, <2>d
  <2>2. Cardinality(above(k)) <= Cardinality(above(m)) /\ Cardinality(above(k)) # Cardinality(above(m))
    BY <1>1, <2>1, FS_Subset
  <2>3. Cardinality(above(m)) <= Cardinality(above(k)) BY <1>3, <1>4
  <2> QED BY <1>1, <2>2, <2>3
<1> QED BY <1>5

(* LEMMA: which the operators Max and Min return. *)
LEMMA MaxMinAre ==
  ASSUME NEW S \in SUBSET Nat, S # {}, IsFiniteSet(S)
  PROVE  /\ Max(S) \in S /\ \A k \in S : k <= Max(S)
         /\ Min(S) \in S /\ \A k \in S : Min(S) <= k
<1>1. \E m \in S : \A k \in S : m >= k BY GreatestExists
<1>2. \E m \in S : \A k \in S : m =< k BY LeastExists
<1> QED BY <1>1, <1>2 DEF Max, Min

(* The places of the samples shorter than d, and of those no longer.         *)
Shorter(all, of, d) == {i \in of : all[i].duration < d}
NoLonger(all, of, d) == {i \in of : all[i].duration <= d}
DurationsOf(all, of) == {all[i].duration : i \in of}

(* LEMMA: the durations of finitely many samples are finitely many. *)
LEMMA FiniteDurations ==
  ASSUME NEW all, NEW of, IsFiniteSet(of), \A i \in of : all[i].duration \in Nat
  PROVE  /\ DurationsOf(all, of) \in SUBSET Nat /\ IsFiniteSet(DurationsOf(all, of))
         /\ \A d \in Nat : /\ IsFiniteSet(Shorter(all, of, d)) /\ Cardinality(Shorter(all, of, d)) \in Nat
                           /\ IsFiniteSet(NoLonger(all, of, d)) /\ Cardinality(NoLonger(all, of, d)) \in Nat
<1>1. PICK n \in Nat : ExistsBijection(1..n, of) BY FS_NatBijection
<1>2. ASSUME NEW d \in Nat
      PROVE  /\ IsFiniteSet(Shorter(all, of, d)) /\ Cardinality(Shorter(all, of, d)) \in Nat
             /\ IsFiniteSet(NoLonger(all, of, d)) /\ Cardinality(NoLonger(all, of, d)) \in Nat
  <2>1. Shorter(all, of, d) \in SUBSET of /\ NoLonger(all, of, d) \in SUBSET of BY DEF Shorter, NoLonger
  <2> QED BY <2>1, FS_Subset, FS_CardinalityType
<1>3. [i \in of |-> all[i].duration] \in Surjection(of, DurationsOf(all, of))
  BY DEF Surjection, DurationsOf
<1>4. IsFiniteSet(DurationsOf(all, of)) BY <1>3, FS_Surjection
<1> QED BY <1>2, <1>4 DEF DurationsOf

(* LEMMA: the k-th duration is the one of a sample, and fewer than k samples *)
(* are shorter, and k are not longer.                                        *)
LEMMA NthIs ==
  ASSUME NEW all, NEW of, IsFiniteSet(of), \A i \in of : all[i].duration \in Nat,
         NEW k \in 1..Cardinality(of)
  PROVE  /\ NthDuration(all, of, k) \in DurationsOf(all, of) /\ NthDuration(all, of, k) \in Nat
         /\ Cardinality(Shorter(all, of, NthDuration(all, of, k))) < k
         /\ Cardinality(NoLonger(all, of, NthDuration(all, of, k))) >= k
<1> DEFINE enough(d) == Cardinality(NoLonger(all, of, d)) >= k
           B == {d \in Nat : enough(d)}
           lots == DurationsOf(all, of)
<1>0. Cardinality(of) \in Nat /\ k \in Nat /\ of # {} BY FS_CardinalityType, FS_EmptySet
<1>1. lots \in SUBSET Nat /\ lots # {} /\ IsFiniteSet(lots) BY <1>0, FiniteDurations DEF DurationsOf
<1>2. B \in SUBSET Nat /\ B # {}
  <2>1. PICK m \in lots : \A d \in lots : d <= m BY <1>1, GreatestExists
  <2>2. NoLonger(all, of, m) = of BY <2>1 DEF NoLonger, DurationsOf
  <2> QED BY <1>0, <1>1, <2>2
<1>3. PICK d \in B : \A e \in B : d <= e BY <1>2, LeastExists
<1>4. Cardinality(Shorter(all, of, d)) < k
  <2>1. CASE d = 0
    <3>1. Shorter(all, of, d) = {} BY <2>1 DEF Shorter
    <3> QED BY <1>0, <3>1, FS_EmptySet
  <2>2. CASE d # 0
    <3>1. d - 1 \in Nat /\ ~enough(d - 1) BY <1>3, <2>2
    <3>2. Shorter(all, of, d) = NoLonger(all, of, d - 1) BY <3>1 DEF Shorter, NoLonger
    <3>3. Cardinality(NoLonger(all, of, d - 1)) \in Nat BY <3>1, FiniteDurations
    <3>4. Cardinality(NoLonger(all, of, d - 1)) < k BY <1>0, <3>1, <3>3
    <3> QED BY <3>2, <3>4
  <2> QED BY <2>1, <2>2
<1>5. d \in lots
  <2>0. Cardinality(Shorter(all, of, d)) \in Nat /\ Cardinality(NoLonger(all, of, d)) \in Nat
    BY <1>3, FiniteDurations
  <2>1. Shorter(all, of, d) # NoLonger(all, of, d) BY <1>0, <1>3, <1>4, <2>0
  <2>2. PICK i \in of : all[i].duration <= d /\ ~(all[i].duration < d) BY <2>1 DEF Shorter, NoLonger
  <2> QED BY <2>2 DEF DurationsOf
<1>6. NthDuration(all, of, k) = CHOOSE x \in lots : Cardinality(Shorter(all, of, x)) < k /\ enough(x)
  BY DEF NthDuration, Shorter, NoLonger, DurationsOf
<1>7. Cardinality(Shorter(all, of, d)) < k /\ enough(d) BY <1>3, <1>4
<1> HIDE DEF enough, lots
<1>8. /\ NthDuration(all, of, k) \in lots
      /\ Cardinality(Shorter(all, of, NthDuration(all, of, k))) < k /\ enough(NthDuration(all, of, k))
  BY <1>5, <1>6, <1>7
<1> QED BY <1>1, <1>8 DEF lots, enough

(* LEMMA: the durations ascend with the rank. *)
LEMMA NthAscends ==
  ASSUME NEW all, NEW of, IsFiniteSet(of), \A i \in of : all[i].duration \in Nat,
         NEW k \in 1..Cardinality(of), NEW m \in 1..Cardinality(of), k <= m
  PROVE  NthDuration(all, of, k) <= NthDuration(all, of, m)
<1> DEFINE x == NthDuration(all, of, k)  y == NthDuration(all, of, m)
<1>0. Cardinality(of) \in Nat /\ k \in Nat /\ m \in Nat BY FS_CardinalityType
<1>1. x \in Nat /\ Cardinality(Shorter(all, of, x)) < k BY NthIs
<1>2. y \in Nat /\ Cardinality(NoLonger(all, of, y)) >= m BY NthIs
<1> HIDE DEF x, y
<1>3. ASSUME y < x PROVE FALSE
  <2>1. NoLonger(all, of, y) \in SUBSET Shorter(all, of, x) BY <1>1, <1>2, <1>3 DEF NoLonger, Shorter
  <2>2. /\ IsFiniteSet(Shorter(all, of, x)) /\ Cardinality(Shorter(all, of, x)) \in Nat
        /\ Cardinality(NoLonger(all, of, y)) \in Nat
    BY <1>1, <1>2, FiniteDurations
  <2>3. Cardinality(NoLonger(all, of, y)) <= Cardinality(Shorter(all, of, x)) BY <2>1, <2>2, FS_Subset
  <2> QED BY <1>0, <1>1, <1>2, <2>2, <2>3
<1>4. x <= y BY <1>1, <1>2, <1>3
<1> QED BY <1>4 DEF x, y

(* LEMMA: an interpolation by tenths lies between its ends.                  *)
LEMMA Interpolated ==
  ASSUME NEW a \in Nat, NEW b \in Nat, a <= b, NEW r \in 0..9
  PROVE  /\ a * 10 + (b - a) * r \in Int
         /\ a * 10 <= a * 10 + (b - a) * r /\ a * 10 + (b - a) * r <= b * 10
         /\ r = 9 => a * 10 + (b - a) * r = a + b * 9
<1>1. \/ r = 0 \/ r = 1 \/ r = 2 \/ r = 3 \/ r = 4 \/ r = 5 \/ r = 6 \/ r = 7 \/ r = 8 \/ r = 9 OBVIOUS
<1> QED BY <1>1

(* LEMMA: the ranks that the median and the 90th percentile look at.         *)
LEMMA RanksAre ==
  ASSUME NEW n \in Nat, n >= 1
  PROVE  LET lo == ((90 * (n - 1)) \div 10) \div 10
             r == ((90 * (n - 1)) \div 10) % 10
             hi == Min({lo + 1, n - 1})
         IN  /\ lo \in 0..n-1 /\ hi \in 0..n-1 /\ lo <= hi /\ r \in 0..9
             /\ n % 2 = 1 => (n + 1) \div 2 \in 1..n /\ (n + 1) \div 2 <= lo + 1
             /\ n % 2 # 1 => /\ n \div 2 \in 1..n /\ n \div 2 + 1 \in 1..n
                             /\ n = 2 => lo = 0 /\ hi = 1 /\ r = 9 /\ n \div 2 = 1
                             /\ n # 2 => n \div 2 + 1 <= lo + 1
<1> DEFINE rank == (90 * (n - 1)) \div 10
           lo == rank \div 10
           r == rank % 10
           hi == Min({lo + 1, n - 1})
<1>1. rank = 9 * (n - 1) /\ rank \in Nat OBVIOUS
<1> HIDE DEF rank
<1>2. lo \in Nat /\ r \in 0..9 /\ 10 * lo + r = 9 * (n - 1) BY <1>1
<1> HIDE DEF lo, r
<1>3. lo <= n - 1 BY <1>2
<1>4. hi = IF lo + 1 <= n - 1 THEN lo + 1 ELSE n - 1
  <2>1. \A S : Min(S) = CHOOSE x \in S : \A y \in S : x =< y BY DEF Min
  <2>2. \E x \in {lo + 1, n - 1} : \A y \in {lo + 1, n - 1} : x =< y BY <1>2
  <2>3. PICK x \in {lo + 1, n - 1} : hi = x /\ \A y \in {lo + 1, n - 1} : x =< y BY <2>1, <2>2
  <2> QED BY <1>2, <2>3
<1> HIDE DEF hi
<1>5. hi \in 0..n-1 /\ lo <= hi BY <1>2, <1>3, <1>4
<1>6. n % 2 = 1 => (n + 1) \div 2 \in 1..n /\ (n + 1) \div 2 <= lo + 1 BY <1>2
<1>7. ASSUME n % 2 # 1
      PROVE  /\ n \div 2 \in 1..n /\ n \div 2 + 1 \in 1..n
             /\ n = 2 => lo = 0 /\ hi = 1 /\ r = 9 /\ n \div 2 = 1
             /\ n # 2 => n \div 2 + 1 <= lo + 1
  <2>1. n = 2 * (n \div 2) /\ n \div 2 \in Nat BY <1>7
  <2>2. n = 2 => lo = 0 /\ r = 9 /\ hi = 1 BY <1>2, <1>4
  <2> QED BY <1>2, <2>1, <2>2
<1> QED BY <1>2, <1>3, <1>5, <1>6, <1>7 DEF rank, lo, r, hi

(* LEMMA: an envelope is sane, whatever samples it is made of.               *)
LEMMA EnvelopeIsSane ==
  ASSUME NEW all, NEW of, IsFiniteSet(of), \A i \in of : all[i].duration \in Nat, Cardinality(of) >= 1
  PROVE  /\ MedianOf(all, of) <= Percentile(all, of, 90)
         /\ Min(DurationsOf(all, of)) * 10 <= MedianOf(all, of)
         /\ Percentile(all, of, 90) <= Max(DurationsOf(all, of)) * 10
<1> DEFINE n == Cardinality(of)
           v(k) == NthDuration(all, of, k)
           lo == ((90 * (n - 1)) \div 10) \div 10
           r == ((90 * (n - 1)) \div 10) % 10
           hi == Min({lo + 1, n - 1})
           least == Min(DurationsOf(all, of))
           most == Max(DurationsOf(all, of))
<1>0. n \in Nat /\ n >= 1 BY FS_CardinalityType
<1>1. \A k \in 1..n : v(k) \in DurationsOf(all, of) /\ v(k) \in Nat BY NthIs
<1>2. \A k, m \in 1..n : k <= m => v(k) <= v(m) BY NthAscends
<1>3. /\ least \in Nat /\ most \in Nat
      /\ \A k \in 1..n : least <= v(k) /\ v(k) <= most
  <2>1. DurationsOf(all, of) \in SUBSET Nat /\ IsFiniteSet(DurationsOf(all, of)) BY FiniteDurations
  <2>2. DurationsOf(all, of) # {} BY <1>0, <1>1
  <2> QED BY <1>1, <2>1, <2>2, MaxMinAre
<1>4. Percentile(all, of, 90) = v(lo + 1) * 10 + (v(hi + 1) - v(lo + 1)) * r BY DEF Percentile
<1>5. MedianOf(all, of) = IF n % 2 = 1 THEN v((n + 1) \div 2) * 10 ELSE (v(n \div 2) + v(n \div 2 + 1)) * 5
  BY DEF MedianOf
<1>6. /\ lo \in 0..n-1 /\ hi \in 0..n-1 /\ lo <= hi /\ r \in 0..9
      /\ n % 2 = 1 => (n + 1) \div 2 \in 1..n /\ (n + 1) \div 2 <= lo + 1
      /\ n % 2 # 1 => /\ n \div 2 \in 1..n /\ n \div 2 + 1 \in 1..n
                      /\ n = 2 => lo = 0 /\ hi = 1 /\ r = 9 /\ n \div 2 = 1
                      /\ n # 2 => n \div 2 + 1 <= lo + 1
  BY <1>0, RanksAre
<1> HIDE DEF n, v, lo, r, hi, least, most
<1>7. lo + 1 \in 1..n /\ hi + 1 \in 1..n /\ lo + 1 <= hi + 1 BY <1>0, <1>6
<1>8. v(lo + 1) \in Nat /\ v(hi + 1) \in Nat /\ v(lo + 1) <= v(hi + 1) /\ v(hi + 1) <= most
  BY <1>1, <1>2, <1>3, <1>7
<1>9. /\ Percentile(all, of, 90) \in Int
      /\ v(lo + 1) * 10 <= Percentile(all, of, 90) /\ Percentile(all, of, 90) <= v(hi + 1) * 10
      /\ r = 9 => Percentile(all, of, 90) = v(lo + 1) + v(hi + 1) * 9
  <2>1. PICK a \in Nat : a = v(lo + 1) BY <1>8
  <2>2. PICK b \in Nat : b = v(hi + 1) BY <1>8
  <2>3. PICK q \in 0..9 : q = r BY <1>6
  <2>4. a <= b BY <1>8, <2>1, <2>2
  <2>5. Percentile(all, of, 90) = a * 10 + (b - a) * q BY ONLY <1>4, <2>1, <2>2, <2>3
  <2>6. /\ a * 10 + (b - a) * q \in Int
        /\ a * 10 <= a * 10 + (b - a) * q /\ a * 10 + (b - a) * q <= b * 10
        /\ q = 9 => a * 10 + (b - a) * q = a + b * 9
    BY <2>4, Interpolated
  <2>7. \E p : p = a * 10 + (b - a) * q OBVIOUS
  <2>8. PICK p : p = a * 10 + (b - a) * q BY <2>7
  <2>9. /\ p \in Int /\ a * 10 <= p /\ p <= b * 10 /\ (q = 9 => p = a + b * 9)
    BY ONLY <2>6, <2>8
  <2>10. Percentile(all, of, 90) = p BY ONLY <2>5, <2>8
  <2> QED BY ONLY <2>1, <2>2, <2>3, <2>9, <2>10
<1>10. Percentile(all, of, 90) <= most * 10 BY <1>3, <1>8, <1>9
<1>11. CASE n % 2 = 1
  <2>1. (n + 1) \div 2 \in 1..n /\ (n + 1) \div 2 <= lo + 1 BY <1>6, <1>11
  <2>2. PICK m \in 1..n : m = (n + 1) \div 2 BY <2>1
  <2>3. MedianOf(all, of) = v(m) * 10 BY <1>5, <1>11, <2>2
  <2>4. v(m) \in Nat /\ v(m) <= v(lo + 1) /\ least <= v(m) BY <1>1, <1>2, <1>3, <1>7, <2>1, <2>2
  <2>5. MedianOf(all, of) <= Percentile(all, of, 90) BY <1>8, <1>9, <2>3, <2>4
  <2>6. least * 10 <= MedianOf(all, of) BY <1>3, <2>3, <2>4
  <2> QED BY <1>10, <2>5, <2>6 DEF least, most
<1>12. CASE n % 2 # 1
  <2>1. PICK m \in 1..n : m = n \div 2 /\ m + 1 \in 1..n BY <1>6, <1>12
  <2>2. MedianOf(all, of) = (v(m) + v(m + 1)) * 5 BY <1>5, <1>12, <2>1
  <2>3. /\ v(m) \in Nat /\ v(m + 1) \in Nat /\ least <= v(m) /\ least <= v(m + 1) /\ v(m) <= v(m + 1)
    BY <1>1, <1>2, <1>3, <2>1
  <2>4. least * 10 <= MedianOf(all, of) BY <1>3, <2>2, <2>3
  <2>5. MedianOf(all, of) <= Percentile(all, of, 90)
    <3>1. CASE n = 2
      <4>1. lo + 1 = m /\ hi + 1 = m + 1 /\ r = 9 BY <1>6, <1>12, <2>1, <3>1
      <4>2. Percentile(all, of, 90) = v(m) + v(m + 1) * 9 BY <1>9, <4>1
      <4> QED BY <2>2, <2>3, <4>2
    <3>2. CASE n # 2
      <4>1. m + 1 <= lo + 1 BY <1>6, <1>12, <2>1, <3>2
      <4>2. v(m + 1) <= v(lo + 1) BY <1>2, <1>7, <2>1, <4>1
      <4> QED BY <1>8, <1>9, <2>2, <2>3, <4>2
    <3> QED BY <3>1, <3>2
  <2> QED BY <1>10, <2>4, <2>5 DEF least, most
<1> QED BY <1>11, <1>12

(* LEMMA: a period counted off a number of days: how many times it fits, and *)
(* that one day more fits it once more at most.                               *)
LEMMA PeriodsOf ==
  ASSUME NEW x \in Nat, NEW n \in Nat, n > 0
  PROVE  /\ x \div n \in Nat /\ n * (x \div n) <= x /\ x < n * (x \div n) + n
<1>1. x \div n \in Int /\ x \div n >= 0 OBVIOUS
<1>2. x = n * (x \div n) + (x % n) OBVIOUS
<1>3. x % n \in 0..n-1 OBVIOUS
<1> QED BY <1>1, <1>2, <1>3

(* LEMMA: a day more is at most one period more.                             *)
LEMMA PeriodsGrow ==
  ASSUME NEW x \in Nat, NEW n \in Nat, n > 0
  PROVE  (x + 1) \div n \in {x \div n, x \div n + 1}
<1>1. PICK p \in Nat : p = x \div n BY PeriodsOf
<1>2. PICK q \in Nat : q = (x + 1) \div n BY PeriodsOf
<1>3. n * p <= x /\ x < n * p + n BY <1>1, PeriodsOf
<1>4. n * q <= x + 1 /\ x + 1 < n * q + n BY <1>2, PeriodsOf
<1>5. ASSUME NEW u \in Nat, NEW w \in Nat, u < w PROVE n * u + n <= n * w
  <2>1. w - u - 1 \in Nat /\ w = u + 1 + (w - u - 1) BY <1>5
  <2>2. PICK k \in Nat : w = u + 1 + k BY <2>1
  <2>3. n * w = n * u + n + n * k BY <2>2
  <2>4. n * k \in Nat /\ n * u \in Nat OBVIOUS
  <2> QED BY <2>3, <2>4
<1>6. n * p \in Nat /\ n * q \in Nat /\ n * (p + 1) = n * p + n OBVIOUS
<1>7. ~(q < p) BY <1>3, <1>4, <1>5, <1>6
<1>8. ~(p + 1 < q)
  <2>1. p + 1 < q => n * (p + 1) + n <= n * q BY <1>5
  <2> QED BY <1>3, <1>4, <1>6, <2>1
<1> QED BY <1>1, <1>2, <1>7, <1>8

(* LEMMA: the cap of a threshold is no less than its default. *)
LEMMA CapAbove ==
  ASSUME NEW p \in Patterns
  PROVE  DefaultThreshold[p] \in Nat /\ Cap(p) \in Nat /\ DefaultThreshold[p] <= Cap(p)
<1>1. PICK a \in Nat : a = DefaultThreshold[p] BY MeasuresAssumption DEF Patterns
<1>2. MaxMultiplier \in Nat /\ MaxMultiplier > 0 BY MeasuresAssumption
<1>3. MaxMultiplier - 1 \in Nat /\ MaxMultiplier = (MaxMultiplier - 1) + 1 BY <1>2
<1>4. PICK k \in Nat : MaxMultiplier = k + 1 BY <1>3
<1>5. a * (k + 1) = a * k + a /\ a * k \in Nat OBVIOUS
<1>6. Cap(p) = a * (k + 1) BY <1>1, <1>4 DEF Cap
<1> QED BY <1>1, <1>5, <1>6

(* What the samples and the feedback are, and when the feedback was given.   *)
Sampled == [size : Sizes \cup UnknownSizes, status : {"success", "blocked"}, duration : Durations]
Marked == [useful : BOOLEAN, patterns : SUBSET Patterns, day : Nat]
MeasuresInv ==
  /\ day \in Nat /\ samples \in Seq(Sampled) /\ feedback \in Seq(Marked)
  /\ \A i \in DOMAIN feedback : feedback[i].day <= day

(* LEMMA: no sample and no mark has been taken.                              *)
LEMMA MeasuresStart == MeasuresInit => MeasuresInv
  BY DEF MeasuresInit, MeasuresInv

(* LEMMA: every history only grows by entries of its kind, none of a later   *)
(* day.                                                                      *)
LEMMA MeasuresStep ==
  ASSUME MeasuresInv, [MeasuresNext]_measureVars
  PROVE  MeasuresInv'
<1>1. ASSUME NEW size \in Sizes \cup UnknownSizes, NEW status \in {"success", "blocked"},
             NEW d \in Durations, RecordSample(size, status, d)
      PROVE  MeasuresInv'
  <2>1. [size |-> size, status |-> status, duration |-> d] \in Sampled BY DEF Sampled
  <2> QED BY <1>1, <2>1 DEF RecordSample, MeasuresInv
<1>2. ASSUME NEW useful \in BOOLEAN, NEW noisy, RecordFeedback(useful, noisy) PROVE MeasuresInv'
  <2> DEFINE row == [useful |-> useful, patterns |-> noisy, day |-> day]
  <2>1. row \in Marked /\ row.day = day BY <1>2 DEF RecordFeedback, Marked, MeasuresInv
  <2>2. feedback' = Append(feedback, row) /\ UNCHANGED <<day, samples>> BY <1>2 DEF RecordFeedback
  <2> HIDE DEF row
  <2>3. feedback' \in Seq(Marked) BY <2>1, <2>2 DEF MeasuresInv
  <2>4. \A i \in DOMAIN feedback' : feedback'[i] = IF i \in DOMAIN feedback THEN feedback[i] ELSE row
    BY <2>2 DEF MeasuresInv
  <2>5. \A i \in DOMAIN feedback' : feedback'[i].day <= day BY <2>1, <2>4 DEF MeasuresInv
  <2> QED BY <2>2, <2>3, <2>5 DEF MeasuresInv
<1>3. ASSUME UNCHANGED <<day, samples, feedback>> PROVE MeasuresInv' BY <1>3 DEF MeasuresInv
<1>4. CASE NextDay
  <2>0. \A i \in DOMAIN feedback : feedback[i] \in Marked BY DEF MeasuresInv
  <2>1. \A i \in DOMAIN feedback : feedback[i].day \in Nat BY <2>0 DEF Marked
  <2> QED BY <1>4, <2>1 DEF NextDay, MeasuresInv
<1>5. CASE SampleNext BY <1>1, <1>5 DEF SampleNext
<1>6. CASE FeedbackNext
  <2>1. ASSUME NEW e, Happens(e) PROVE MeasuresInv' BY <1>3, <2>1 DEF Happens
  <2>2. CASE Brief BY <1>3, <2>2 DEF Brief
  <2> QED BY <1>2, <1>4, <1>6, <2>1, <2>2 DEF FeedbackNext
<1>7. CASE OverrideNext BY <1>3, <1>7 DEF OverrideNext, BeginUnblock, EndUnblock
<1>8. CASE UNCHANGED measureVars BY <1>3, <1>8 DEF measureVars
<1> QED BY <1>5, <1>6, <1>7, <1>8 DEF MeasuresNext

(* LEMMA: the envelopes made of typed samples are sane. *)
LEMMA EnvelopesAreSane == MeasuresInv => EnvelopesSane
<1> SUFFICES ASSUME MeasuresInv, NEW s \in Calibrated(samples)
             PROVE  LET e == Envelopes(samples)[s]
                        seen == {samples[i].duration : i \in Successes(samples, s)}
                    IN  e.median <= e.p90 /\ Min(seen) * 10 <= e.median /\ e.p90 <= Max(seen) * 10
  BY DEF EnvelopesSane
<1> DEFINE of == Successes(samples, s)
<1>1. IsFiniteSet(DOMAIN samples)
  <2>1. DOMAIN samples = 1..Len(samples) /\ Len(samples) \in Nat BY DEF MeasuresInv
  <2> QED BY <2>1, FS_Interval
<1>2. IsFiniteSet(of) BY <1>1, FS_Subset DEF Successes
<1>3. \A i \in of : samples[i].duration \in Nat
  <2>1. \A i \in DOMAIN samples : samples[i] \in Sampled BY DEF MeasuresInv
  <2>2. \A i \in DOMAIN samples : samples[i].duration \in Nat BY <2>1, MeasuresAssumption DEF Sampled
  <2> QED BY <2>2 DEF Successes
<1>4. Cardinality(of) >= 1
  <2>1. Cardinality(of) \in Nat BY <1>2, FS_CardinalityType
  <2>2. Cardinality(of) >= MinSamples BY DEF Calibrated
  <2> QED BY <2>1, <2>2, MeasuresAssumption
<1>5. Envelopes(samples)[s] = EnvelopeFrom(samples, of) BY DEF Envelopes
<1>6. /\ Envelopes(samples)[s].median = MedianOf(samples, of)
      /\ Envelopes(samples)[s].p90 = Percentile(samples, of, 90)
  BY <1>5 DEF EnvelopeFrom
<1> HIDE DEF of
<1>7. /\ MedianOf(samples, of) <= Percentile(samples, of, 90)
      /\ Min(DurationsOf(samples, of)) * 10 <= MedianOf(samples, of)
      /\ Percentile(samples, of, 90) <= Max(DurationsOf(samples, of)) * 10
  BY <1>2, <1>3, <1>4, EnvelopeIsSane
<1> QED BY <1>6, <1>7 DEF DurationsOf, of

(* LEMMA: the lesser and the greater of two numbers. *)
LEMMA MinMaxOfTwo ==
  ASSUME NEW a \in Int, NEW b \in Int
  PROVE  /\ Min({a, b}) = IF a <= b THEN a ELSE b
         /\ Max({a, b}) = IF a <= b THEN b ELSE a
<1>1. \E x \in {a, b} : \A y \in {a, b} : x =< y OBVIOUS
<1>2. \E x \in {a, b} : \A y \in {a, b} : x >= y OBVIOUS
<1>3. Min({a, b}) \in {a, b} /\ \A y \in {a, b} : Min({a, b}) =< y BY <1>1 DEF Min
<1>4. Max({a, b}) \in {a, b} /\ \A y \in {a, b} : Max({a, b}) >= y BY <1>2 DEF Max
<1> QED BY <1>3, <1>4

(* LEMMA: the threshold of a pattern is between its default and its cap, and *)
(* a day brings it back by one at most.                                      *)
LEMMA ThresholdsAreSane == MeasuresInv => ThresholdsSane
<1> SUFFICES ASSUME MeasuresInv, NEW p \in UNION {feedback[i].patterns : i \in DOMAIN feedback}
             PROVE  /\ Threshold(feedback, p, day) \in DefaultThreshold[p]..Cap(p)
                    /\ Threshold(feedback, p, day + 1) \in
                         (Threshold(feedback, p, day) - 1)..Threshold(feedback, p, day)
  BY DEF ThresholdsSane
<1>0. \A i \in DOMAIN feedback : feedback[i] \in Marked /\ feedback[i].day <= day BY DEF MeasuresInv
<1>1. \A i \in DOMAIN feedback : feedback[i].day \in Nat /\ feedback[i].day <= day
  BY <1>0 DEF Marked
<1>2. p \in Patterns BY <1>0 DEF Marked
<1>3. PICK least \in Nat : least = DefaultThreshold[p] BY <1>2, CapAbove
<1>4. PICK most \in Nat : most = Cap(p) /\ least <= most BY <1>2, <1>3, CapAbove
<1>5. PICK marks : marks = Noisy(feedback, p) OBVIOUS
<1>6. IsFiniteSet(marks) /\ marks \in SUBSET DOMAIN feedback
  <2>1. DOMAIN feedback = 1..Len(feedback) /\ Len(feedback) \in Nat BY DEF MeasuresInv
  <2>2. IsFiniteSet(DOMAIN feedback) BY <2>1, FS_Interval
  <2> QED BY <1>5, <2>2, FS_Subset DEF Noisy
<1>7. CASE marks = {}
  <2>1. Threshold(feedback, p, day) = least /\ Threshold(feedback, p, day + 1) = least
    BY <1>3, <1>5, <1>7 DEF Threshold
  <2> QED BY <1>3, <1>4, <2>1
<1>8. CASE marks # {}
  <2> DEFINE days == {feedback[i].day : i \in marks}
  <2>1. days \in SUBSET Nat /\ days # {} BY <1>1, <1>6, <1>8
  <2>2. IsFiniteSet(days)
    <3>1. [i \in marks |-> feedback[i].day] \in Surjection(marks, days) BY DEF Surjection
    <3> QED BY <1>6, <3>1, FS_Surjection
  <2>3. Max(days) \in days BY <2>1, <2>2, MaxMinAre
  <2>4. PICK last \in Nat : last = Max(days) /\ last <= day BY <1>1, <1>6, <2>1, <2>3
  <2>5. PICK bar \in Nat : bar = Raised(p, marks) /\ least <= bar /\ bar <= most
    <3>1. Cardinality(marks) \in Nat BY <1>6, FS_CardinalityType
    <3>2. PICK n \in Nat : n = Cardinality(marks) BY <3>1
    <3>3. Raised(p, marks) = Min({least + n, most}) BY <1>3, <1>4, <3>2 DEF Raised
    <3>4. Min({least + n, most}) = IF least + n <= most THEN least + n ELSE most
      <4>1. least + n \in Int /\ most \in Int OBVIOUS
      <4> QED BY <4>1, MinMaxOfTwo
    <3>5. Min({least + n, most}) \in Nat /\ least <= Min({least + n, most}) /\ Min({least + n, most}) <= most
      BY <1>4, <3>4
    <3> QED BY <3>3, <3>5
  <2>6. DriftDays \in Nat /\ DriftDays > 0 BY MeasuresAssumption
  <2>7. day \in Nat BY DEF MeasuresInv
  <2>8. ASSUME NEW now \in Nat, last <= now
        PROVE  Threshold(feedback, p, now) =
                 LET steps == (now - last) \div DriftDays
                 IN  IF steps <= 0 THEN bar ELSE IF bar - steps <= least THEN least ELSE bar - steps
    <3>1. PICK steps \in Nat : steps = (now - last) \div DriftDays
      <4>1. now - last \in Nat BY <2>8
      <4> QED BY <2>6, <4>1, PeriodsOf
    <3>2. Threshold(feedback, p, now) = IF steps <= 0 THEN bar ELSE Max({bar - steps, least})
      BY <1>3, <1>5, <1>8, <2>4, <2>5, <3>1 DEF Threshold
    <3>3. Max({bar - steps, least}) = IF bar - steps <= least THEN least ELSE bar - steps
      <4>1. bar - steps \in Int /\ least \in Int OBVIOUS
      <4> QED BY <4>1, MinMaxOfTwo
    <3> QED BY <3>1, <3>2, <3>3
  <2>9. PICK past \in Nat : past = day - last
    <3>1. day - last \in Nat BY <2>4, <2>7
    <3> QED BY <3>1

  <2>11. PICK q \in Nat : q = past \div DriftDays BY <2>6, PeriodsOf
  <2>12. PICK r \in Nat : r = (past + 1) \div DriftDays /\ r \in {q, q + 1}
    <3>1. (past + 1) \div DriftDays \in Nat BY <2>6, PeriodsOf
    <3>2. (past + 1) \div DriftDays \in {past \div DriftDays, past \div DriftDays + 1}
      BY <2>6, PeriodsGrow
    <3> QED BY <2>11, <3>1, <3>2
  <2>13. Threshold(feedback, p, day) = IF q <= 0 THEN bar ELSE IF bar - q <= least THEN least ELSE bar - q
    BY <2>4, <2>7, <2>8, <2>9, <2>11
  <2>14. Threshold(feedback, p, day + 1) = IF r <= 0 THEN bar ELSE IF bar - r <= least THEN least ELSE bar - r
    <3>1. PICK now \in Nat : now = day + 1 BY <2>7
    <3>2. last <= now /\ now - last = past + 1 BY <2>4, <2>7, <2>9, <3>1
    <3>3. Threshold(feedback, p, now) = IF r <= 0 THEN bar ELSE IF bar - r <= least THEN least ELSE bar - r
      BY <2>8, <2>12, <3>2
    <3> QED BY <3>1, <3>3
  <2>15. PICK a \in Nat : a = Threshold(feedback, p, day) /\ least <= a /\ a <= most
    BY <2>5, <2>13
  <2>16. PICK b \in Nat : b = Threshold(feedback, p, day + 1) /\ a - 1 <= b /\ b <= a
    BY <2>5, <2>12, <2>13, <2>14, <2>15
  <2> QED BY <1>3, <1>4, <2>15, <2>16
<1> QED BY <1>7, <1>8

(* THEOREM: envelopes and thresholds made from any history stay within what  *)
(* they summarise.                                                            *)
THEOREM MeasuresAreSane == MeasuresSpec => []MeasuresSane
<1>1. MeasuresInv => MeasuresSane BY EnvelopesAreSane, ThresholdsAreSane DEF MeasuresSane
<1> QED BY MeasuresStart, MeasuresStep, <1>1, PTL DEF MeasuresSpec
-----------------------------------------------------------------------------
(* TicketDesk: a request belongs to a process that runs, and is for a ticket.*)
Creating == {"lock", "read_seq", "write_seq", "insert"}
RequestTyped(p) ==
  request[p].step # "none" =>
    /\ p \in up /\ {"step", "id"} \subseteq DOMAIN request[p] /\ request[p].id \in TicketIds
    /\ request[p].step \in Creating => "status" \in DOMAIN request[p] /\ request[p].status \in DeskStatus
DeskTyped ==
  /\ \A id \in DOMAIN disk : id \in TicketIds /\ disk[id].status \in DeskStatus
  /\ DOMAIN copy = Desks /\ \A p \in Desks : p \notin up => copy[p] = <<>>
  /\ flock \in Desks \cup {Nobody} /\ calls \in 0..MaxCalls /\ announced \subseteq TicketIds
  /\ \A p \in Desks : RequestTyped(p)

(* LEMMA: the desk starts typed. *)
LEMMA DeskTypedStart == DeskInit => DeskTyped
  BY DeskAssumption DEF DeskInit, DeskTyped, RequestTyped, NoRequest

(* LEMMA: only the request of p changes, and its process goes on.            *)
LEMMA RequestMoves ==
  ASSUME KeyInv, DeskTyped, NEW p \in Desks, NEW x, request' = [request EXCEPT ![p] = x],
         up' = up, p \in up, {"step", "id"} \subseteq DOMAIN x, x.id \in TicketIds,
         x.step \in Creating => "status" \in DOMAIN x /\ x.status \in DeskStatus
  PROVE  \A q \in Desks : RequestTyped(q)'
<1>1. DOMAIN request = Desks BY DEF KeyInv, HolderOnly
<1>2. request'[p] = x /\ \A q \in Desks \ {p} : request'[q] = request[q] BY <1>1
<1> QED BY <1>2 DEF DeskTyped, RequestTyped

(* LEMMA: an update line of a process that runs, with a status if it is one. *)
LEMMA UpdateTyped ==
  ASSUME KeyInv, DeskTyped, NEW p \in up, NEW id, NEW field \in {"status", "blockedBy", "blocks"}, NEW v,
         UpdateField(p, id, field, v), field = "status" => v \in DeskStatus, up' = up
  PROVE  /\ \A i \in DOMAIN disk' : i \in TicketIds /\ disk'[i].status \in DeskStatus
         /\ DOMAIN copy' = Desks /\ \A q \in Desks : q \notin up' => copy'[q] = <<>>
<1>1. disk' = [disk EXCEPT ![id] = [disk[id] EXCEPT ![field] = v]] BY DEF UpdateField
<1>2. DOMAIN copy' = DOMAIN copy /\ \A q \in DOMAIN copy \ {p} : copy'[q] = copy[q] BY DEF UpdateField
<1>3. ASSUME NEW i \in DOMAIN disk' PROVE i \in TicketIds /\ disk'[i].status \in DeskStatus
  <2>1. i \in DOMAIN disk /\ DOMAIN disk[i] = TicketFields BY <1>1, <1>3 DEF KeyInv, KeysBelow
  <2>2. CASE i # id BY <1>1, <2>1, <2>2 DEF DeskTyped
  <2>3. CASE i = id
    <3>1. disk'[i] = [disk[i] EXCEPT ![field] = v] BY <1>1, <2>1, <2>3
    <3>2. CASE field = "status" BY <2>1, <3>1, <3>2 DEF DeskTyped, TicketFields
    <3>3. CASE field # "status" BY <2>1, <3>1, <3>3 DEF DeskTyped, TicketFields
    <3> QED BY <3>2, <3>3
  <2> QED BY <2>2, <2>3
<1>4. \A q \in Desks : q \notin up' => copy'[q] = <<>> BY <1>2 DEF DeskTyped
<1> QED BY <1>2, <1>3, <1>4 DEF DeskTyped

(* LEMMA: a call is counted below the bound. *)
LEMMA CallTaken ==
  ASSUME DeskTyped, NEW p, NEW call, NEW ids, Takes(p, call, ids)
  PROVE  p \in up /\ calls' \in 0..MaxCalls
  BY DeskAssumption DEF Takes, DeskTyped

(* LEMMA: every step keeps the file, the copies and the requests typed. *)
LEMMA DeskTypedStep ==
  ASSUME KeyInv, DeskTyped, [DeskNext]_deskVars
  PROVE  DeskTyped'
<1>a. DOMAIN request = Desks /\ (\A p \in Desks : "step" \in DOMAIN request[p]) /\ Daemon \in Desks
  BY DeskAssumption DEF KeyInv, HolderOnly
<1>b. NoRequest.step = "none" BY DEF NoRequest
<1>1. ASSUME NEW p \in Desks, LoadTickets(p) PROVE DeskTyped'
  BY <1>1 DEF LoadTickets, DeskTyped, RequestTyped
<1>2. ASSUME NEW p \in Desks, up' = up \ {p}, request' = [request EXCEPT ![p] = NoRequest],
             copy' = [copy EXCEPT ![p] = <<>>], flock' \in {flock, Nobody},
             UNCHANGED <<disk, announced, calls>>
      PROVE  DeskTyped'
  <2>1. request'[p] = NoRequest /\ \A q \in Desks \ {p} : request'[q] = request[q] BY <1>a, <1>2
  <2>2. \A q \in Desks : RequestTyped(q)' BY <1>b, <1>2, <2>1 DEF DeskTyped, RequestTyped
  <2> QED BY <1>2, <2>2 DEF DeskTyped
<1>3. ASSUME NEW p \in Desks, DeskDies(p) PROVE DeskTyped' BY <1>2, <1>3 DEF DeskDies
<1>4. ASSUME NEW p \in Desks, KeyLock(p) PROVE DeskTyped'
  <2>1. PICK x : x = [request[p] EXCEPT !.step = "read_seq"] OBVIOUS
  <2>2. /\ request' = [request EXCEPT ![p] = x] /\ flock' = p /\ request[p].step = "lock"
        /\ UNCHANGED <<disk, copy, up, calls, announced>>
    BY <1>4, <2>1 DEF KeyLock
  <2>3. RequestTyped(p) BY DEF DeskTyped
  <2>4. p \in up /\ {"step", "id"} \subseteq DOMAIN x /\ x.id \in TicketIds /\ "status" \in DOMAIN x /\ x.status \in DeskStatus
    BY <2>1, <2>2, <2>3 DEF RequestTyped, Creating
  <2>5. \A q \in Desks : RequestTyped(q)' BY <2>2, <2>4, RequestMoves
  <2> QED BY <2>2, <2>5 DEF DeskTyped
<1>5. ASSUME NEW p \in Desks, ReadSeq(p) \/ WriteSeq(p) PROVE DeskTyped'
  <2>1. PICK x : x \in {[step |-> "write_seq", id |-> request[p].id, status |-> request[p].status,
                          deps |-> request[p].deps, key |-> seq + 1], [request[p] EXCEPT !.step = "insert"]}
                 /\ request' = [request EXCEPT ![p] = x]
    BY <1>5 DEF ReadSeq, WriteSeq
  <2>2. request[p].step \in {"read_seq", "write_seq"} /\ UNCHANGED <<disk, copy, up, flock, calls, announced>>
    BY <1>5 DEF ReadSeq, WriteSeq
  <2>3. RequestTyped(p) BY DEF DeskTyped
  <2>4. p \in up /\ {"step", "id"} \subseteq DOMAIN x /\ x.id \in TicketIds /\ "status" \in DOMAIN x /\ x.status \in DeskStatus
    BY <2>1, <2>2, <2>3 DEF RequestTyped, Creating
  <2>5. \A q \in Desks : RequestTyped(q)' BY <2>1, <2>2, <2>4, RequestMoves
  <2> QED BY <2>2, <2>5 DEF DeskTyped
<1>6. ASSUME NEW p \in Desks, InsertTicket(p) PROVE DeskTyped'
  <2>1. PICK t : t = [NewTicket(request[p].status, request[p].key) EXCEPT
                        !.blockedBy = IF p = Daemon THEN request[p].deps ELSE {}]
    OBVIOUS
  <2>2. PICK x : x = [step |-> IF request[p].deps = {} THEN "publish"
                               ELSE IF p = Daemon THEN "blocks" ELSE "blocked_by",
                      id |-> request[p].id, deps |-> request[p].deps]
    OBVIOUS
  <2>3. /\ disk' = Write1(disk, request[p].id, t)
        /\ copy' = [copy EXCEPT ![p] = Write1(@, request[p].id, t)]
        /\ request' = [request EXCEPT ![p] = x] /\ flock' = Nobody
        /\ UNCHANGED <<up, calls, announced>> /\ request[p].step = "insert"
    BY <1>6, <2>1, <2>2 DEF InsertTicket
  <2>4. RequestTyped(p) BY DEF DeskTyped
  <2>5. p \in up /\ request[p].id \in TicketIds /\ request[p].status \in DeskStatus
    BY <2>3, <2>4 DEF RequestTyped, Creating
  <2>6. t.status \in DeskStatus BY <2>1, <2>5 DEF NewTicket
  <2>7. {"step", "id"} \subseteq DOMAIN x /\ x.id \in TicketIds /\ x.step \notin Creating
    BY <2>2, <2>5 DEF Creating
  <2>8. \A q \in Desks : RequestTyped(q)' BY <2>3, <2>5, <2>7, RequestMoves
  <2>9. \A i \in DOMAIN disk' : i \in TicketIds /\ disk'[i].status \in DeskStatus
    BY <2>3, <2>5, <2>6 DEF DeskTyped, Write1
  <2>10. DOMAIN copy' = Desks /\ \A q \in Desks : q \notin up' => copy'[q] = <<>>
    BY <2>3, <2>5 DEF DeskTyped
  <2> QED BY <2>3, <2>8, <2>9, <2>10 DEF DeskTyped
<1>7. ASSUME NEW p \in Desks, NEW id, NEW field \in {"blockedBy", "blocks"}, NEW v, NEW to \in {"blocks", "publish"},
             UpdateField(p, id, field, v), request' = [request EXCEPT ![p].step = to],
             request[p].step \in {"blocked_by", "blocks"}, UNCHANGED <<up, flock, announced, calls>>
      PROVE  DeskTyped'
  <2>1. PICK x : x = [request[p] EXCEPT !.step = to] OBVIOUS
  <2>2. RequestTyped(p) BY DEF DeskTyped
  <2>3. request' = [request EXCEPT ![p] = x] BY <1>7, <2>1
  <2>4. p \in up /\ {"step", "id"} \subseteq DOMAIN x /\ x.id \in TicketIds /\ x.step \notin Creating
    BY <1>7, <2>1, <2>2 DEF RequestTyped, Creating
  <2>5. \A q \in Desks : RequestTyped(q)' BY <1>7, <2>3, <2>4, RequestMoves
  <2>6. /\ \A i \in DOMAIN disk' : i \in TicketIds /\ disk'[i].status \in DeskStatus
        /\ DOMAIN copy' = Desks /\ \A q \in Desks : q \notin up' => copy'[q] = <<>>
    <3>1. p \in up /\ up' = up /\ field \in {"status", "blockedBy", "blocks"} /\ field # "status" BY <1>7, <2>4
    <3> QED BY <1>7, <3>1, UpdateTyped
  <2> QED BY <1>7, <2>5, <2>6 DEF DeskTyped
<1>7e. ASSUME NEW p \in Desks, Edge(p) PROVE DeskTyped'
  <2>1. PICK dep : dep = (CHOOSE d \in request[p].deps : TRUE) OBVIOUS
  <2>2. CASE request[p].step = "blocked_by"
    <3>1. PICK v : v = copy[p][request[p].id].blockedBy \cup {dep} OBVIOUS
    <3>2. /\ UpdateField(p, request[p].id, "blockedBy", v) /\ request' = [request EXCEPT ![p].step = "blocks"]
          /\ UNCHANGED <<up, flock, announced, calls>>
      BY <1>7e, <2>1, <2>2, <3>1 DEF Edge
    <3>3. "blockedBy" \in {"blockedBy", "blocks"} /\ "blocks" \in {"blocks", "publish"} OBVIOUS
    <3> QED BY <1>7, <2>2, <3>2, <3>3
  <2>3. CASE request[p].step = "blocks"
    <3>1. PICK v : v = copy[p][dep].blocks \cup {request[p].id} OBVIOUS
    <3>2. /\ UpdateField(p, dep, "blocks", v) /\ request' = [request EXCEPT ![p].step = "publish"]
          /\ UNCHANGED <<up, flock, announced, calls>>
      BY <1>7e, <2>1, <2>3, <3>1 DEF Edge
    <3>3. "blocks" \in {"blockedBy", "blocks"} /\ "publish" \in {"blocks", "publish"} OBVIOUS
    <3> QED BY <1>7, <2>3, <3>2, <3>3
  <2> QED BY <1>7e, <2>2, <2>3 DEF Edge
<1>8. ASSUME NEW p \in Desks, PublishTicketCreated(p) PROVE DeskTyped'
  <2>1. RequestTyped(p) BY DEF DeskTyped
  <2>2. /\ request[p].step = "publish" /\ request' = [request EXCEPT ![p] = NoRequest]
        /\ UNCHANGED <<disk, flock, calls>> /\ announced' \subseteq announced \cup {request[p].id}
        /\ \/ p = Daemon /\ up' = up /\ copy' = copy
           \/ p # Daemon /\ up' = up \ {p} /\ copy' = [copy EXCEPT ![p] = <<>>]
    BY <1>8 DEF PublishTicketCreated
  <2>3. announced' \subseteq TicketIds BY <2>1, <2>2 DEF DeskTyped, RequestTyped
  <2>4. request'[p] = NoRequest /\ \A q \in Desks \ {p} : request'[q] = request[q] BY <1>a, <2>2
  <2>5. \A q \in Desks : RequestTyped(q)' BY <1>b, <2>2, <2>4 DEF DeskTyped, RequestTyped
  <2>6. DOMAIN copy' = Desks /\ \A q \in Desks : q \notin up' => copy'[q] = <<>>
    BY <2>2 DEF DeskTyped
  <2> QED BY <2>2, <2>3, <2>5, <2>6 DEF DeskTyped
<1>9. ASSUME NEW p \in Desks, CallOver(p) PROVE DeskTyped'
  <2>1. /\ up' = up \ {p} /\ copy' = [copy EXCEPT ![p] = <<>>] /\ request[p] = NoRequest
        /\ UNCHANGED <<disk, flock, request, announced, calls>>
    BY <1>9 DEF CallOver
  <2>2. \A q \in Desks : RequestTyped(q)' BY <1>b, <2>1 DEF DeskTyped, RequestTyped
  <2> QED BY <2>1, <2>2 DEF DeskTyped
<1>10. ASSUME NEW p \in Desks, NEW r, Asks(p, r), p \in up, calls' \in 0..MaxCalls,
              {"step", "id"} \subseteq DOMAIN r, r.id \in TicketIds,
              r.step \in Creating => "status" \in DOMAIN r /\ r.status \in DeskStatus
       PROVE  DeskTyped'
  <2>1. request' = [request EXCEPT ![p] = r] /\ UNCHANGED <<disk, copy, up, flock, announced>>
    BY <1>10 DEF Asks
  <2>2. \A q \in Desks : RequestTyped(q)' BY <1>10, <2>1, RequestMoves
  <2> QED BY <1>10, <2>1, <2>2 DEF DeskTyped
<1>11. ASSUME NEW id \in TicketIds, NEW deps, CreateTicket(id, deps) PROVE DeskTyped'
  <2>1. PICK r : r = [step |-> "lock", id |-> id, status |-> "open", deps |-> deps] OBVIOUS
  <2>2. Asks(Daemon, r) /\ Takes(Daemon, "create", deps) BY <1>11, <2>1 DEF CreateTicket
  <2>3. {"step", "id"} \subseteq DOMAIN r /\ r.id \in TicketIds /\ "status" \in DOMAIN r /\ r.status \in DeskStatus
    BY <2>1 DEF DeskStatus
  <2> QED BY <1>a, <1>10, <2>2, <2>3, CallTaken
<1>12. ASSUME NEW p \in Desks, NEW id \in TicketIds, NEW deps, CreateIssue(p, id, deps) PROVE DeskTyped'
  <2>1. PICK r : r = [step |-> "lock", id |-> id, status |-> "proposed", deps |-> deps] OBVIOUS
  <2>2. Asks(p, r) /\ Takes(p, "create", deps) BY <1>12, <2>1 DEF CreateIssue
  <2>3. {"step", "id"} \subseteq DOMAIN r /\ r.id \in TicketIds /\ "status" \in DOMAIN r /\ r.status \in DeskStatus
    BY <2>1 DEF DeskStatus
  <2> QED BY <1>10, <2>2, <2>3, CallTaken
<1>13. ASSUME NEW p \in Desks, NEW id \in TicketIds, NEW d, LinkIssue(p, id, d) PROVE DeskTyped'
  <2>1. PICK r : r = [step |-> "blocked_by", id |-> id, deps |-> {d}] OBVIOUS
  <2>2. Asks(p, r) /\ Takes(p, "link", {id, d}) BY <1>13, <2>1 DEF LinkIssue
  <2>3. {"step", "id"} \subseteq DOMAIN r /\ r.id \in TicketIds /\ r.step \notin Creating
    BY <2>1 DEF Creating
  <2> QED BY <1>10, <2>2, <2>3, CallTaken
<1>14. ASSUME NEW p \in up, NEW id, NEW field \in {"status", "blockedBy"}, NEW v, UpdateField(p, id, field, v),
              field = "status" => v \in DeskStatus, calls' \in 0..MaxCalls,
              UNCHANGED <<up, seq, flock, request, announced, deskDeaths>>
       PROVE  DeskTyped'
  <2>1. /\ \A i \in DOMAIN disk' : i \in TicketIds /\ disk'[i].status \in DeskStatus
        /\ DOMAIN copy' = Desks /\ \A q \in Desks : q \notin up' => copy'[q] = <<>>
    BY <1>14, UpdateTyped
  <2> QED BY <1>14, <2>1 DEF DeskTyped, RequestTyped
<1>15. ASSUME NEW p \in Desks, NEW id \in TicketIds, NEW s \in DeskStatus \ {"proposed"}, UpdateStatus(p, id, s)
       PROVE  DeskTyped'
  BY <1>14, <1>15, CallTaken DEF UpdateStatus
<1>16. ASSUME NEW p \in Desks, NEW id \in TicketIds, Approve(p, id) PROVE DeskTyped'
  <2>1. "open" \in DeskStatus BY DEF DeskStatus
  <2> QED BY <1>14, <1>16, <2>1, CallTaken DEF Approve
<1>17. ASSUME NEW p \in Desks, NEW id \in TicketIds, NEW d, UnlinkIssue(p, id, d) PROVE DeskTyped'
  BY <1>14, <1>17, CallTaken DEF UnlinkIssue
<1>18. CASE UNCHANGED deskVars BY <1>18 DEF deskVars, DeskTyped, RequestTyped
<1> QED BY <1>1, <1>3, <1>4, <1>5, <1>6, <1>7e, <1>8, <1>9, <1>11, <1>12, <1>13, <1>15, <1>16, <1>17, <1>18
        DEF DeskNext

(* THEOREM: every ticket in the file is one that was asked for, in a status  *)
(* a front door may give, and a process that is gone holds no copy.          *)
THEOREM DeskKeepsTypes == DeskSpec => []DeskTypeOK
<1>1. DeskInit => KeyInv /\ DeskTyped BY KeyInit, DeskTypedStart
<1>2. KeyInv /\ DeskTyped /\ [DeskNext]_deskVars => (KeyInv /\ DeskTyped)' BY KeyStep, DeskTypedStep
<1>3. DeskTyped => DeskTypeOK BY DEF DeskTyped, DeskTypeOK
<1> QED BY <1>1, <1>2, <1>3, PTL DEF DeskSpec
-----------------------------------------------------------------------------
(* The tools an agent may have been offered, and what may be in its inbox. *)
ToolsThere == BaseTools \cup NamedTools \cup CheckpointTools \cup {"add_dependency", "sa_adjudicate_finding"}
MayBeIn == {"no", "other", "terminal"}
SessionTyped ==
  /\ subs \subseteq Spawns /\ cfgDirs \subseteq Spawns /\ beating \subseteq Spawns
  /\ DOMAIN ses = Spawns /\ \A s \in Spawns : "tools" \in DOMAIN ses[s] /\ ses[s].tools \subseteq ToolsThere
  /\ DOMAIN inbox = Spawns /\ \A s \in Spawns : inbox[s] \in MayBeIn

(* LEMMA: only tools that there are can be offered, whatever the role names. *)
LEMMA OffersAreTools == \A role : OfferedTools(role) \subseteq ToolsThere
<1> SUFFICES ASSUME NEW role PROVE OfferedTools(role) \subseteq ToolsThere OBVIOUS
<1> DEFINE cfg == AgentRoles[role]
           all == BaseTools \cup (cfg.allowed \cap NamedTools)
             \cup (IF HasCheckpoints THEN CheckpointTools ELSE {})
             \cup (IF HasPackageManager /\ cfg.installs THEN {"add_dependency"} ELSE {})
             \cup (IF cfg.judges THEN {"sa_adjudicate_finding"} ELSE {})
<1>1. all \subseteq ToolsThere
  <2>1. (IF HasCheckpoints THEN CheckpointTools ELSE {}) \subseteq CheckpointTools OBVIOUS
  <2>2. (IF HasPackageManager /\ cfg.installs THEN {"add_dependency"} ELSE {}) \subseteq {"add_dependency"} OBVIOUS
  <2>3. (IF cfg.judges THEN {"sa_adjudicate_finding"} ELSE {}) \subseteq {"sa_adjudicate_finding"} OBVIOUS
  <2> QED BY <2>1, <2>2, <2>3 DEF ToolsThere
<1>2. OfferedTools(role) = IF cfg.strict THEN all \cap cfg.allowed ELSE all BY DEF OfferedTools
<1> HIDE DEF all, cfg
<1> QED BY <1>1, <1>2

(* LEMMA: sessions start typed. *)
LEMMA SessionTypedStart == SessionInit => SessionTyped
  BY DEF SessionInit, SessionTyped, NoSession, MayBeIn

(* LEMMA: every step keeps the sessions typed. *)
LEMMA SessionTypedStep ==
  ASSUME SessionTyped, [SessionNext]_sesVars
  PROVE  SessionTyped'
<1> USE DEF SessionTyped, At
<1>1. ASSUME NEW s \in Spawns, NEW role, NEW t, StartSession(s, role, t) PROVE SessionTyped'
  BY <1>1 DEF StartSession, NoSession
<1>2. ASSUME NEW s \in Spawns, NEW has, BuildAgentPrompt(s, has) PROVE SessionTyped'
  BY <1>2 DEF BuildAgentPrompt, Moves
<1>3. ASSUME NEW s \in Spawns, NEW b, MaterializePolicy(s, b) PROVE SessionTyped'
  BY <1>3 DEF MaterializePolicy
<1>4. ASSUME NEW s \in Spawns, NEW b, MakeConfigDir(s, b) PROVE SessionTyped'
  BY <1>4 DEF MakeConfigDir, Moves
<1>5. ASSUME NEW s \in Spawns, NEW o, SubscribeAgent(s, o) PROVE SessionTyped'
  BY <1>5 DEF SubscribeAgent, Moves
<1>6. ASSUME NEW s \in Spawns, CreateServer(s) PROVE SessionTyped'
  BY <1>6, OffersAreTools DEF CreateServer
<1>7. ASSUME NEW s \in Spawns, PromptStream(s) PROVE SessionTyped'
  <2>1. DOMAIN ses' = DOMAIN ses /\ \A x \in Spawns : DOMAIN ses'[x] = DOMAIN ses[x] /\ ses'[x].tools = ses[x].tools
    BY <1>7 DEF PromptStream
  <2> QED BY <1>7, <2>1 DEF PromptStream, MayBeIn
<1>8. ASSUME NEW s \in Spawns, StopHeartbeat(s) PROVE SessionTyped'
  BY <1>8 DEF StopHeartbeat
<1>9. ASSUME NEW s \in Spawns, LeaveTopic(s) PROVE SessionTyped'
  BY <1>9 DEF LeaveTopic, Moves, Unsubscribed, MayBeIn
<1>10. ASSUME NEW s \in Spawns, RunAgentEnds(s) PROVE SessionTyped'
  <2>1. DOMAIN ses' = DOMAIN ses /\ \A x \in Spawns : DOMAIN ses'[x] = DOMAIN ses[x] /\ ses'[x].tools = ses[x].tools
    BY <1>10 DEF RunAgentEnds
  <2>2. UNCHANGED <<subs, beating, inbox>> /\ cfgDirs' \subseteq cfgDirs BY <1>10 DEF RunAgentEnds
  <2> QED BY <2>1, <2>2
<1>11. ASSUME NEW s \in Spawns, NEW tool, NEW t, BeginToolCall(s, tool, t) PROVE SessionTyped'
  BY <1>11 DEF BeginToolCall
<1>12. ASSUME NEW s \in Spawns, NEW status, EndToolCall(s, status) PROVE SessionTyped'
  <2>1. UNCHANGED <<ses, subs, cfgDirs, beating>> BY <1>12 DEF EndToolCall
  <2>2. DOMAIN inbox' = Spawns /\ \A x \in Spawns : inbox'[x] \in MayBeIn
    BY <1>12 DEF EndToolCall, Deliver, MayBeIn
  <2> QED BY <2>1, <2>2
<1>13. ASSUME NEW s \in Spawns, NEW how, AgentStops(s, how) PROVE SessionTyped'
  BY <1>13 DEF AgentStops
<1>14. CASE UNCHANGED sesVars
  BY <1>14 DEF sesVars
<1> QED
  BY <1>1, <1>2, <1>3, <1>4, <1>5, <1>6, <1>7, <1>8, <1>9, <1>10, <1>11, <1>12, <1>13, <1>14
  DEF SessionNext

(* THEOREM: whatever its role and phase configure, an agent is only offered *)
(* tools there are, and what it set up belongs to a spawn.                  *)
THEOREM SessionKeepsTypes == SessionSpec => []SessionTypeOK
<1>1. SessionTyped => SessionTypeOK BY DEF SessionTyped, SessionTypeOK, ToolsThere, MayBeIn
<1> QED BY SessionTypedStart, SessionTypedStep, <1>1, PTL DEF SessionSpec
-----------------------------------------------------------------------------
(* Operator: where links and askers are, and that a prompt on its way or on  *)
(* a screen was asked.                                                       *)
AskerPlaces == {"idle", "waiting", "silent"}
LinkPlaces == {"off", "subscribed", "replayed", "live"}
OperatorTyped ==
  /\ \A a \in OpAskers : asker[a].at \in AskerPlaces
  /\ link \in [Terminals -> LinkPlaces]
  /\ wire \in [Terminals -> Seq(Asked)]
  /\ shown \in [Terminals -> 0..prompts]

(* LEMMA: the kept prompts in order are prompts.                             *)
LEMMA AscendingIs ==
  ASSUME NEW n \in Nat, NEW S \in SUBSET (1..n)
  PROVE  Ascending(S) \in Seq(1..n)
<1> DEFINE all == [i \in S |-> [duration |-> i]]
<1>1. IsFiniteSet(S) /\ Cardinality(S) \in Nat
  <2>1. IsFiniteSet(1..n) BY FS_Interval
  <2> QED BY <2>1, FS_Subset, FS_CardinalityType
<1>2. ASSUME NEW k \in 1..Cardinality(S)
      PROVE  \E p \in S : Cardinality({q \in S : q <= p}) = k
  <2>1. \A i \in S : all[i].duration \in Nat /\ all[i].duration = i OBVIOUS
  <2>2. PICK p : /\ p \in DurationsOf(all, S) /\ p \in Nat
                 /\ Cardinality(Shorter(all, S, p)) < k /\ Cardinality(NoLonger(all, S, p)) >= k
    BY <1>1, <2>1, NthIs
  <2>3. p \in S BY <2>1, <2>2 DEF DurationsOf
  <2> DEFINE below == {q \in S : q < p}  upto == {q \in S : q <= p}
  <2>4. Shorter(all, S, p) = below /\ NoLonger(all, S, p) = upto BY <2>1 DEF Shorter, NoLonger
  <2>5. upto = below \cup {p} /\ p \notin below /\ IsFiniteSet(below)
    <3>1. \A q \in S : q \in Nat OBVIOUS
    <3>2. \A q \in S : q <= p <=> q < p \/ q = p BY <2>2, <3>1
    <3>3. p \notin below BY <2>2
    <3>4. upto = below \cup {p} BY <2>3, <3>2
    <3>5. below \in SUBSET S OBVIOUS
    <3> QED BY <1>1, <3>3, <3>4, <3>5, FS_Subset
  <2>6. Cardinality(upto) = Cardinality(below) + 1 /\ Cardinality(below) \in Nat
    BY <2>5, FS_AddElement, FS_CardinalityType
  <2> HIDE DEF below, upto, all
  <2>7. Cardinality(upto) = k BY <2>2, <2>4, <2>6
  <2> QED BY <2>3, <2>7 DEF upto
<1> DEFINE s == [k \in 1..Cardinality(S) |-> CHOOSE p \in S : Cardinality({q \in S : q <= p}) = k]
<1>3. \A k \in 1..Cardinality(S) : s[k] \in S BY <1>2
<1>4. s \in [1..Cardinality(S) -> 1..n] BY <1>3
<1> HIDE DEF s
<1>5. s \in Seq(1..n) BY <1>1, <1>4
<1> QED BY <1>5 DEF s, Ascending

(* LEMMA: the links and the askers start typed. *)
LEMMA OperatorTypedStart == OperatorInit => OperatorTyped
<1> SUFFICES ASSUME OperatorInit PROVE OperatorTyped OBVIOUS
<1>1. <<>> \in Seq(Asked) BY EmptySeq
<1> QED BY <1>1 DEF OperatorInit, OperatorTyped, AskerPlaces, LinkPlaces, IdleAsker

(* LEMMA: a prompt more changes nobody's screen.                             *)
LEMMA RegisterTyped ==
  ASSUME PromptInv, OperatorTyped, NEW a \in OpAskers, RegisterPrompt(a)
  PROVE  OperatorTyped'
<1>1. /\ prompts' = prompts + 1 /\ UNCHANGED <<link, wire, shown>>
      /\ asker' = [asker EXCEPT ![a] = [at |-> "waiting", pid |-> prompts + 1]]
  BY DEF RegisterPrompt, clientVars
<1>2. prompts \in Nat /\ DOMAIN asker = OpAskers BY DEF PromptInv, OpShape
<1>3. Asked \subseteq Asked' /\ 0..prompts \subseteq 0..prompts' BY <1>1, <1>2 DEF Asked
<1>4. Seq(Asked) \subseteq Seq(Asked') BY <1>3, SeqMonotonic
<1>5. wire' \in [Terminals -> Seq(Asked')] BY <1>1, <1>4 DEF OperatorTyped
<1>6. shown' \in [Terminals -> 0..prompts'] BY <1>1, <1>3 DEF OperatorTyped
<1>7. \A b \in OpAskers : asker'[b].at \in AskerPlaces
  BY <1>1, <1>2 DEF OperatorTyped, AskerPlaces
<1> QED BY <1>1, <1>5, <1>6, <1>7 DEF OperatorTyped

(* LEMMA: every step keeps links and askers typed. *)
LEMMA OperatorTypedStep ==
  ASSUME PromptInv, OperatorTyped, [OperatorNext]_opVars
  PROVE  OperatorTyped'
<1>a. prompts \in Nat /\ DOMAIN asker = OpAskers /\ events \in Seq(Asked)
      /\ registry \cup answered \cup kept \subseteq Asked
  BY DEF PromptInv, OpShape
<1>b. <<>> \in Seq(Asked) BY EmptySeq
<1>1. ASSUME UNCHANGED prompts, \A a \in OpAskers : asker'[a].at \in AskerPlaces,
             link' \in [Terminals -> LinkPlaces], wire' \in [Terminals -> Seq(Asked)],
             shown' \in [Terminals -> 0..prompts]
      PROVE  OperatorTyped'
  BY <1>1 DEF OperatorTyped, Asked
<1>2. ASSUME UNCHANGED <<asker, prompts, shown>>,
             link' \in [Terminals -> LinkPlaces], wire' \in [Terminals -> Seq(Asked)]
      PROVE  OperatorTyped'
  BY <1>1, <1>2 DEF OperatorTyped
<1>3. ASSUME UNCHANGED <<prompts, link, wire, shown>>, \A a \in OpAskers : asker'[a].at \in AskerPlaces
      PROVE  OperatorTyped'
  BY <1>1, <1>3 DEF OperatorTyped
<1>4. ASSUME NEW a \in OpAskers, NEW x, x.at \in AskerPlaces, asker' = [asker EXCEPT ![a] = x]
      PROVE  \A b \in OpAskers : asker'[b].at \in AskerPlaces
  BY <1>a, <1>4 DEF OperatorTyped
<1>5. IdleAsker.at \in AskerPlaces BY DEF IdleAsker, AskerPlaces
<1>6. ASSUME NEW a \in PausedTasks, NEW why, PauseTicket(a, why) \/ ResumedElsewhere(a)
      PROVE  OperatorTyped'
  <2>1. UNCHANGED <<asker, prompts, link, wire, shown>>
    BY <1>6 DEF PauseTicket, ResumedElsewhere, clientVars
  <2> QED BY <1>3, <2>1 DEF OperatorTyped
<1>7. ASSUME NEW a \in PausedTasks, PromptForNeedsInfo(a) PROVE OperatorTyped'
  BY <1>7, RegisterTyped DEF PromptForNeedsInfo, OpAskers
<1>8. ASSUME NEW a \in Dialogs, RoundTrip(a) PROVE OperatorTyped'
  BY <1>8, RegisterTyped DEF RoundTrip, OpAskers
<1>9. ASSUME NEW a \in PausedTasks, SilentWait(a) PROVE OperatorTyped'
  <2>1. UNCHANGED <<prompts, link, wire, shown>> /\ asker' = [asker EXCEPT ![a].at = "silent"] /\ asker[a] = IdleAsker
    BY <1>9 DEF SilentWait, clientVars
  <2>2. a \in OpAskers BY DEF OpAskers
  <2>3. \A b \in OpAskers : asker'[b].at = IF b = a THEN "silent" ELSE asker[b].at
    BY <1>a, <2>1, <2>2 DEF IdleAsker
  <2>4. \A b \in OpAskers : asker'[b].at \in AskerPlaces BY <2>3 DEF OperatorTyped, AskerPlaces
  <2> QED BY <1>3, <2>1, <2>4
<1>10. ASSUME NEW a \in PausedTasks, SilentWaitOver(a) \/ TaskResumes(a) PROVE OperatorTyped'
  <2>1. UNCHANGED <<prompts, link, wire, shown>> /\ asker' = [asker EXCEPT ![a] = IdleAsker]
    BY <1>10 DEF SilentWaitOver, TaskResumes, clientVars
  <2>2. \A b \in OpAskers : asker'[b].at \in AskerPlaces BY <1>4, <1>5, <2>1 DEF OpAskers
  <2> QED BY <1>3, <2>1, <2>2
<1>11. ASSUME NEW a \in Dialogs, NEW reply, DialogGoesOn(a, reply) PROVE OperatorTyped'
  <2>1. CASE asker' = [asker EXCEPT ![a] = IdleAsker] /\ UNCHANGED <<registry, events, kept, clientVars, prompts, faults>>
    <3>1. \A b \in OpAskers : asker'[b].at \in AskerPlaces BY <1>4, <1>5, <2>1 DEF OpAskers
    <3> QED BY <1>3, <2>1, <3>1 DEF clientVars
  <2>2. CASE RegisterPrompt(a) BY <2>2, RegisterTyped DEF OpAskers
  <2> QED BY <1>11, <2>1, <2>2 DEF DialogGoesOn
<1>12. CASE RelayEvents
  <2>1. events # <<>> /\ UNCHANGED <<asker, link, shown, prompts>>
        /\ wire' = [c \in Terminals |-> IF NotLinked(c) THEN wire[c] ELSE Append(wire[c], Head(events))]
    BY <1>12 DEF RelayEvents
  <2>2. Head(events) \in Asked BY <1>a, <2>1, HeadTailProperties
  <2>3. \A c \in Terminals : Append(wire[c], Head(events)) \in Seq(Asked)
    BY <2>2, AppendProperties DEF OperatorTyped
  <2>4. wire' \in [Terminals -> Seq(Asked)] BY <2>1, <2>3 DEF OperatorTyped
  <2> QED BY <1>2, <2>1, <2>4 DEF OperatorTyped
<1>13. CASE DaemonRestarts
  <2>1. /\ asker' = [a \in OpAskers |-> IdleAsker] /\ UNCHANGED <<prompts, shown>>
        /\ link' = [c \in Terminals |-> "off"] /\ wire' = [c \in Terminals |-> <<>>]
    BY <1>13 DEF DaemonRestarts
  <2> QED BY <1>1, <1>5, <1>b, <2>1 DEF OperatorTyped, LinkPlaces
<1>14. ASSUME NEW c \in Terminals, ReplayPrompts(c) PROVE OperatorTyped'
  <2>1. /\ UNCHANGED <<asker, prompts, shown>> /\ link' = [link EXCEPT ![c] = "replayed"]
        /\ wire' = [wire EXCEPT ![c] = @ \o Ascending(kept \cap registry)]
    BY <1>14 DEF ReplayPrompts
  <2>2. Ascending(kept \cap registry) \in Seq(Asked) BY <1>a, AscendingIs DEF Asked
  <2>3. wire[c] \o Ascending(kept \cap registry) \in Seq(Asked)
    BY <2>2, ConcatProperties DEF OperatorTyped
  <2>4. wire' \in [Terminals -> Seq(Asked)] BY <2>1, <2>3 DEF OperatorTyped
  <2>5. link' \in [Terminals -> LinkPlaces] BY <2>1 DEF OperatorTyped, LinkPlaces
  <2> QED BY <1>2, <2>1, <2>4, <2>5
<1>15. ASSUME NEW c \in Terminals, ReplayDrops(c) PROVE OperatorTyped'
  <2>1. /\ UNCHANGED <<asker, prompts, shown>>
        /\ link' = [link EXCEPT ![c] = "live"] \/ link' = [link EXCEPT ![c] = "off"]
        /\ wire' = wire \/ wire' = [wire EXCEPT ![c] = <<>>]
    BY <1>15 DEF ReplayDrops
  <2>2. link' \in [Terminals -> LinkPlaces] BY <2>1 DEF OperatorTyped, LinkPlaces
  <2>3. wire' \in [Terminals -> Seq(Asked)] BY <1>b, <2>1 DEF OperatorTyped
  <2> QED BY <1>2, <2>1, <2>2, <2>3
<1>16. ASSUME NEW c \in Terminals, ConnectClient(c) PROVE OperatorTyped'
  <2>1. UNCHANGED <<asker, prompts, wire, shown>> /\ link' = [link EXCEPT ![c] = "subscribed"]
    BY <1>16 DEF ConnectClient
  <2> QED BY <1>2, <2>1 DEF OperatorTyped, LinkPlaces
<1>17. ASSUME NEW c \in Terminals, RenderPromptRequest(c) PROVE OperatorTyped'
  <2>1. /\ wire[c] # <<>> /\ UNCHANGED <<asker, prompts, link>>
        /\ shown' = [shown EXCEPT ![c] = Head(wire[c])] /\ wire' = [wire EXCEPT ![c] = Tail(@)]
    BY <1>17 DEF RenderPromptRequest
  <2>2. wire[c] \in Seq(Asked) BY DEF OperatorTyped
  <2>3. Head(wire[c]) \in Asked /\ Tail(wire[c]) \in Seq(Asked) BY <2>1, <2>2, HeadTailProperties
  <2>4. Head(wire[c]) \in 0..prompts BY <1>a, <2>3 DEF Asked
  <2>5. shown' \in [Terminals -> 0..prompts] BY <2>1, <2>4 DEF OperatorTyped
  <2>6. wire' \in [Terminals -> Seq(Asked)] BY <2>1, <2>3 DEF OperatorTyped
  <2> QED BY <1>1, <2>1, <2>5, <2>6 DEF OperatorTyped
<1>18. ASSUME NEW c \in Terminals, SubmitReply(c) PROVE OperatorTyped'
  <2>1. UNCHANGED <<asker, prompts, link, wire>> /\ shown' = [shown EXCEPT ![c] = 0]
    BY <1>18 DEF SubmitReply
  <2>2. shown' \in [Terminals -> 0..prompts] BY <1>a, <2>1 DEF OperatorTyped
  <2> QED BY <1>1, <2>1, <2>2 DEF OperatorTyped
<1>19. ASSUME NEW c \in Terminals, NEW lost, DropLink(c, lost) PROVE OperatorTyped'
  <2>1. /\ UNCHANGED <<asker, prompts, shown>> /\ link' = [link EXCEPT ![c] = "off"]
        /\ wire' = [wire EXCEPT ![c] = <<>>]
    BY <1>19 DEF DropLink
  <2>2. wire' \in [Terminals -> Seq(Asked)] BY <1>b, <2>1 DEF OperatorTyped
  <2> QED BY <1>2, <2>1, <2>2 DEF OperatorTyped, LinkPlaces
<1>20. ASSUME NEW r \in replies, DeliverReply(r) PROVE OperatorTyped'
  BY <1>3, <1>20 DEF DeliverReply, OperatorTyped
<1>21. CASE UNCHANGED opVars
  BY <1>3, <1>21 DEF opVars, serverVars, clientVars, OperatorTyped
<1> QED
  BY <1>6, <1>7, <1>8, <1>9, <1>10, <1>11, <1>12, <1>13, <1>14, <1>15, <1>16, <1>17, <1>18,
     <1>19, <1>20, <1>21
  DEF OperatorNext

(* THEOREM: what is registered, answered, kept or shown was asked, whatever  *)
(* links drop and daemons restart.                                           *)
THEOREM OperatorKeepsTypes == OperatorSpec => []OperatorTypeOK
<1>1. OperatorInit => PromptInv /\ OperatorTyped BY PromptInit, OperatorTypedStart
<1>2. PromptInv /\ OperatorTyped /\ [OperatorNext]_opVars => (PromptInv /\ OperatorTyped)'
  BY PromptStep, OperatorTypedStep
<1>3. PromptInv /\ OperatorTyped => OperatorTypeOK
  BY DEF PromptInv, OpShape, PromptsApart, OperatorTyped, OperatorTypeOK, Asked, AskerPlaces, LinkPlaces
<1> QED BY <1>1, <1>2, <1>3, PTL DEF OperatorSpec
-----------------------------------------------------------------------------
(* DevEnv: who still records a request runs. *)
RunSteps == {"off", "provisioning", "running", "cleaning", "over"}
DevTyped ==
  /\ DOMAIN agent = DevRuns
  /\ \A b \in DevRuns : DOMAIN agent[b] = AgentFields /\ agent[b].at \in RunSteps
  /\ statusOf \in [DOMAIN DevTickets -> DevStatus]
  /\ DOMAIN fetch = DevRuns /\ \A b \in DevRuns : fetch[b] # NoFetch => agent[b].at = "running"

(* LEMMA: an agent that records nothing moves to another step. *)
LEMMA DevAgentMoves ==
  ASSUME DevTyped, NEW a \in DevRuns, NEW r, agent' = [agent EXCEPT ![a] = r], fetch' = fetch,
         DOMAIN r = AgentFields, r.at \in RunSteps, fetch[a] = NoFetch,
         statusOf' \in [DOMAIN DevTickets -> DevStatus]
  PROVE  DevTyped'
<1>1. DOMAIN agent' = DevRuns /\ agent'[a] = r /\ \A b \in DevRuns \ {a} : agent'[b] = agent[b] BY DEF DevTyped
<1> QED BY <1>1 DEF DevTyped

(* LEMMA: the runs start typed. *)
LEMMA DevTypedStart == DevInit => DevTyped
<1> SUFFICES ASSUME DevInit PROVE DevTyped OBVIOUS
<1>1. agent = [a \in DevRuns |-> NoAgent] /\ fetch = [a \in DevRuns |-> NoFetch] BY DEF DevInit
<1>2. statusOf \in [DOMAIN DevTickets -> DevStatus] BY DEF DevInit, DevStatus
<1> QED BY <1>1, <1>2, NoAgentFacts DEF DevTyped, RunSteps

(* LEMMA: every step keeps the runs typed. *)
LEMMA DevTypedStep ==
  ASSUME DevTyped, [DevNext]_devVars
  PROVE  DevTyped'
<1>0. \A b \in DevRuns : agent[b].at # "running" => fetch[b] = NoFetch BY DEF DevTyped
<1>1. ASSUME UNCHANGED <<agent, fetch>>, statusOf' \in [DOMAIN DevTickets -> DevStatus] PROVE DevTyped'
  BY <1>1 DEF DevTyped
<1>2. ASSUME UNCHANGED <<agent, fetch, statusOf>> PROVE DevTyped' BY <1>2 DEF DevTyped
<1>3. ASSUME NEW a \in DevRuns, NEW role \in DevRoles, NEW t \in DOMAIN DevTickets, SpawnAgent(a, role, t)
      PROVE  DevTyped'
  <2> DEFINE r == [NoAgent EXCEPT !.at = "provisioning", !.role = role, !.ticket = t, !.todo = Manifest]
  <2>1. agent' = [agent EXCEPT ![a] = r] /\ UNCHANGED <<fetch, statusOf>> /\ agent[a].at = "off"
    BY <1>3 DEF SpawnAgent
  <2>2. DOMAIN r = AgentFields /\ r.at \in RunSteps BY DEF NoAgent, AgentFields, RunSteps
  <2> HIDE DEF r
  <2> QED BY <1>0, <2>1, <2>2, DevAgentMoves DEF DevTyped
<1>4. ASSUME NEW a \in DevRuns, ProvisionService(a) PROVE DevTyped'
  <2>1. PICK r : /\ agent' = [agent EXCEPT ![a] = r] /\ DOMAIN r = DOMAIN agent[a] /\ r.at = agent[a].at
    <3> DEFINE s == Head(agent[a].todo)
               f == FileOf(s, agent[a].role, agent[a].ticket)
               r == [agent[a] EXCEPT !.todo = Tail(@), !.given = IF HasFile(s) THEN @ \cup {f} ELSE @]
    <3>1. agent' = [agent EXCEPT ![a] = r] BY <1>4 DEF ProvisionService
    <3>2. DOMAIN r = DOMAIN agent[a] /\ r.at = agent[a].at BY DEF DevTyped, AgentFields
    <3> HIDE DEF r
    <3> QED BY <3>1, <3>2
  <2>2. UNCHANGED <<fetch, statusOf>> /\ agent[a].at = "provisioning" BY <1>4 DEF ProvisionService
  <2>3. DOMAIN r = AgentFields /\ r.at \in RunSteps BY <2>1 DEF DevTyped
  <2> QED BY <1>0, <2>1, <2>2, <2>3, DevAgentMoves DEF DevTyped
<1>5. ASSUME NEW a \in DevRuns, ProvisioningFails(a) \/ CleanupOver(a) PROVE DevTyped'
  <2>1. /\ agent' = [agent EXCEPT ![a] = [NoAgent EXCEPT !.at = "over"]] /\ fetch' = fetch
        /\ agent[a].at # "running"
        /\ statusOf' = statusOf \/ statusOf' = [statusOf EXCEPT ![agent[a].ticket] = "failed"]
    BY <1>5 DEF ProvisioningFails, CleanupOver
  <2>2. PICK r : r = [NoAgent EXCEPT !.at = "over"] OBVIOUS
  <2>3. DOMAIN r = AgentFields /\ r.at \in RunSteps BY <2>2, NoAgentFacts DEF RunSteps
  <2>4. statusOf' \in [DOMAIN DevTickets -> DevStatus] BY <2>1 DEF DevTyped, DevStatus
  <2> QED BY <1>0, <2>1, <2>2, <2>3, <2>4, DevAgentMoves
<1>6. ASSUME NEW a \in DevRuns, RunsProvisioned(a) PROVE DevTyped'
  <2>1. PICK r : r = [agent[a] EXCEPT !.at = "running"] OBVIOUS
  <2>2. DOMAIN r = AgentFields /\ r.at \in RunSteps BY <2>1 DEF DevTyped, AgentFields, RunSteps
  <2>3. agent' = [agent EXCEPT ![a] = r] /\ UNCHANGED <<fetch, statusOf>> /\ agent[a].at # "running"
    BY <1>6, <2>1 DEF RunsProvisioned
  <2> QED BY <1>0, <2>2, <2>3, DevAgentMoves DEF DevTyped
<1>7. ASSUME NEW a \in DevRuns, NEW ok \in BOOLEAN, AgentRunEnds(a, ok) PROVE DevTyped'
  <2>1. PICK r : r = [agent[a] EXCEPT !.at = "cleaning", !.todo = Manifest, !.ok = ok] OBVIOUS
  <2>2. DOMAIN r = AgentFields /\ r.at \in RunSteps BY <2>1 DEF DevTyped, AgentFields, RunSteps
  <2>3. agent' = [agent EXCEPT ![a] = r] /\ UNCHANGED <<fetch, statusOf>> /\ fetch[a] = NoFetch
    BY <1>7, <2>1 DEF AgentRunEnds
  <2> QED BY <2>2, <2>3, DevAgentMoves DEF DevTyped
<1>8. ASSUME NEW a \in DevRuns, NEW works \in BOOLEAN, CleanupService(a, works) PROVE DevTyped'
  <2>1. PICK r : r = [agent[a] EXCEPT !.todo = Tail(@)] OBVIOUS
  <2>2. DOMAIN r = AgentFields /\ r.at = agent[a].at /\ r.at \in RunSteps BY <2>1 DEF DevTyped, AgentFields
  <2>3. agent' = [agent EXCEPT ![a] = r] /\ UNCHANGED <<fetch, statusOf>> /\ agent[a].at = "cleaning"
    BY <1>8, <2>1 DEF CleanupService
  <2> QED BY <1>0, <2>2, <2>3, DevAgentMoves DEF DevTyped
<1>9. CASE DaemonEnds
  <2>1. /\ agent' = [a \in DevRuns |-> IF agent[a].at = "off" THEN NoAgent ELSE [NoAgent EXCEPT !.at = "over"]]
        /\ fetch' = [a \in DevRuns |-> NoFetch] /\ statusOf' = statusOf
    BY <1>9 DEF DaemonEnds
  <2>2. \A b \in DevRuns : agent'[b] = NoAgent \/ agent'[b] = [NoAgent EXCEPT !.at = "over"] BY <2>1
  <2>3. \A b \in DevRuns : DOMAIN agent'[b] = AgentFields /\ agent'[b].at \in RunSteps
    BY <2>2, NoAgentFacts DEF RunSteps
  <2> QED BY <2>1, <2>3 DEF DevTyped
<1>10. ASSUME NEW a \in DevRuns, RecordAnswer(a) \/ \E q \in Requests : AskService(a, q) PROVE DevTyped'
  <2>1. /\ UNCHANGED <<agent, statusOf>> /\ DOMAIN fetch' = DevRuns
        /\ \A b \in DevRuns \ {a} : fetch'[b] = fetch[b]
        /\ fetch'[a] # NoFetch => agent[a].at = "running"
    BY <1>10 DEF RecordAnswer, AskService, DevTyped
  <2> QED BY <2>1 DEF DevTyped
<1>11. ASSUME NEW t \in DOMAIN DevTickets, NEW x \in DevStatus, TicketMovesOn(t, x) PROVE DevTyped'
  BY <1>1, <1>11 DEF TicketMovesOn, DevTyped
<1>12. ASSUME \/ ClearFixtures \/ ListOrphans \/ PurgeOrphans \/ RunSweeper
              \/ \E bucket \in {"auto_safe", "needs_confirm", "all"} : ApplySweep(bucket)
              \/ \E stores \in DataStores : DeriveManifest(stores)
              \/ \E t \in DOMAIN DevTickets : DropOrphan(t) \/ TicketAges(t)
              \/ \E f \in files : DropEphemeral(f)
       PROVE  DevTyped'
  <2>1. UNCHANGED <<agent, fetch, statusOf>>
    BY <1>12 DEF ClearFixtures, ListOrphans, PurgeOrphans, RunSweeper, ApplySweep, DeriveManifest,
                 DropOrphan, TicketAges, Logged, DropEphemeral
  <2> QED BY <1>2, <2>1
<1>13. CASE UNCHANGED devVars BY <1>2, <1>13 DEF devVars
<1> QED BY <1>3, <1>4, <1>5, <1>6, <1>7, <1>8, <1>9, <1>10, <1>11, <1>12, <1>13 DEF DevNext

(* THEOREM: a run is at one of its steps, a ticket in one of the statuses   *)
(* of the development environment, whatever fetches are under way.          *)
THEOREM DevKeepsTypes == DevSpec => []DevTypeOK
<1>1. DevTyped => DevTypeOK BY DEF DevTyped, DevTypeOK, RunSteps
<1> QED BY DevTypedStart, DevTypedStep, <1>1, PTL DEF DevSpec
-----------------------------------------------------------------------------
(* Host: the step of an operator's command. *)
HopSteps == {"idle", "stale", "launch", "record", "address", "poll", "clear", "forget", "kill", "unlink",
             "wipe", "tidy"}
HopTyped == \A o \in Operators : hop[o].at \in HopSteps

(* LEMMA: files and daemons are typed where the commands are. *)
LEMMA HostMeans == HostInv /\ HopTyped => HostTypeOK
<1> SUFFICES ASSUME HostInv, HopTyped PROVE HostTypeOK OBVIOUS
<1>1. proc \in Seq(DaemonRecords) /\ Daemons = 1..Len(proc) /\ Len(proc) \in Nat
      /\ {pidFile, ctrFile} \subseteq {0} \cup Daemons
  BY LenProperties DEF HostInv, HostShape, Daemons
<1>2. \A d \in Daemons : proc[d] \in DaemonRecords BY <1>1
<1>3. {pidFile, ctrFile} \subseteq 0..Len(proc) BY <1>1
<1> QED BY <1>2, <1>3 DEF HostTypeOK, HopTyped, HopSteps, DaemonRecords

(* LEMMA: no command is under way at the start. *)
LEMMA HopTypedStart == HostInit => HopTyped
  BY DEF HostInit, HopTyped, HopSteps, NoOp

(* LEMMA: every step keeps the commands at their steps. *)
LEMMA HopTypedStep ==
  ASSUME HostInv, HopTyped, [HostNext]_hostVars
  PROVE  HopTyped'
<1>1. DOMAIN hop = Operators /\ \A o \in Operators : DOMAIN hop[o] = HopFields
  BY DEF HostInv, HostShape, HopSound
<1>2. NoOp.at = "idle" /\ DOMAIN NoOp = HopFields BY DEF NoOp, HopFields
<1>3. ASSUME NEW o \in Operators, NEW next, Begins(o, next), DOMAIN next = HopFields, next.at \in HopSteps
      PROVE  HopTyped'
  <2>1. \A p \in Operators : hop'[p].at = IF p = o THEN next.at ELSE hop[p].at
    BY <1>1, <1>3 DEF Begins, HopFields
  <2> QED BY <1>3, <2>1 DEF HopTyped
<1>4. ASSUME NEW o \in Operators, NEW x, x.at \in HopSteps, hop' = [hop EXCEPT ![o] = x]
      PROVE  HopTyped'
  BY <1>1, <1>4 DEF HopTyped
<1>5. ASSUME NEW o \in Operators, NEW docker \in BOOLEAN, StartDaemon(o, docker) PROVE HopTyped'
  <2>1. PICK x : x = [NoOp EXCEPT !.at = IF StaleFiles THEN "stale" ELSE "launch",
                                  !.docker = docker, !.port = AllocatePort]
    OBVIOUS
  <2>2. DOMAIN x = HopFields /\ x.at \in {"stale", "launch"} BY <2>1 DEF NoOp, HopFields
  <2>3. Begins(o, x) BY <1>5, <2>1 DEF StartDaemon
  <2> QED BY <1>3, <2>2, <2>3 DEF HopSteps
<1>6. ASSUME NEW o \in Operators, NEW step \in HopSteps, hop' = [hop EXCEPT ![o].at = step] PROVE HopTyped'
  BY <1>1, <1>6 DEF HopTyped, HopFields
<1>7. ASSUME NEW o \in Operators, NEW ok \in BOOLEAN, LaunchProcess(o) \/ LaunchContainer(o, ok) PROVE HopTyped'
  <2>1. PICK x : /\ hop' = [hop EXCEPT ![o] = x]
                 /\ x = NoOp \/ x = [hop[o] EXCEPT !.at = "record", !.d = Len(proc) + 1]
    BY <1>7 DEF LaunchProcess, LaunchContainer
  <2>2. x.at \in {"record", "idle"} BY <1>1, <1>2, <2>1 DEF HopFields
  <2>3. x.at \in HopSteps BY <2>2 DEF HopSteps
  <2> QED BY <1>4, <2>1, <2>3
<1>8. ASSUME NEW o \in Operators, NEW ok \in BOOLEAN,
             \/ KillDaemon(o, ok) \/ RecordDaemon(o) \/ WriteAddress(o) \/ ClearStale(o) \/ ClearRecord(o)
      PROVE  HopTyped'
  <2>1. \E step \in HopSteps : hop' = [hop EXCEPT ![o].at = step]
    BY <1>8 DEF KillDaemon, RecordDaemon, WriteAddress, ClearStale, ClearRecord, HopSteps
  <2> QED BY <1>6, <2>1
<1>9. ASSUME NEW o \in Operators, NEW ok \in BOOLEAN,
             \/ ForgetAddress(o) \/ StartSucceeds(o) \/ StopUnlinks(o, ok) \/ StopTidies(o)
             \/ WipeProject(o) \/ KillOperator(o)
      PROVE  HopTyped'
  <2>1. hop' = [hop EXCEPT ![o] = NoOp] \/ hop' = [hop EXCEPT ![o].at = "wipe"]
    BY <1>9 DEF ForgetAddress, StartSucceeds, StopUnlinks, StopTidies, WipeProject, KillOperator
  <2>2. NoOp.at \in HopSteps /\ "wipe" \in HopSteps BY <1>2 DEF HopSteps
  <2> QED BY <1>4, <1>6, <2>1, <2>2
<1>10. ASSUME NEW o \in Operators, StopDaemon(o) \/ ResetProject(o) PROVE HopTyped'
  <2>1. ASSUME NEW d, NEW step \in HopSteps, NEW x, Begins(o, x),
               x = [NoOp EXCEPT !.at = step, !.d = d] \/ x = [NoOp EXCEPT !.at = step]
        PROVE  HopTyped'
    <3>1. DOMAIN x = HopFields /\ x.at = step BY <2>1 DEF NoOp, HopFields
    <3> QED BY <1>3, <2>1, <3>1
  <2> QED BY <1>10, <2>1 DEF StopDaemon, ResetProject, HopSteps
<1>11. ASSUME NEW o \in Operators, StartSeesDeath(o) PROVE HopTyped'
  <2>1. CASE hop' = [hop EXCEPT ![o].at = "forget"] BY <1>6, <2>1 DEF HopSteps
  <2>2. ASSUME NEW x, x = [hop[o] EXCEPT !.at = "clear"], Begins(o, x) PROVE HopTyped'
    <3>1. DOMAIN x = HopFields /\ x.at = "clear" BY <1>1, <2>2 DEF HopFields
    <3> QED BY <1>3, <2>2, <3>1 DEF HopSteps
  <2> QED BY <1>11, <2>1, <2>2 DEF StartSeesDeath
<1>12. CASE UNCHANGED hop BY <1>12 DEF HopTyped
<1>13. ASSUME NEW d \in Daemons, BindPort(d) \/ DaemonDies(d) PROVE UNCHANGED hop
  BY <1>13 DEF BindPort, DaemonDies
<1>14. CASE StartForeground BY <1>12, <1>14 DEF StartForeground
<1>15. CASE UNCHANGED hostVars BY <1>12, <1>15 DEF hostVars
<1> QED BY <1>5, <1>6, <1>7, <1>8, <1>9, <1>10, <1>11, <1>12, <1>13, <1>14, <1>15 DEF HostNext

(* THEOREM: the pid and container files name a daemon that was started, and  *)
(* a command is at one of its steps, whatever daemons and operators die.     *)
THEOREM HostKeepsTypes == HostSpec => []HostTypeOK
<1>1. HostInit => HostInv /\ HopTyped BY HostInitOK, HopTypedStart
<1>2. HostInv /\ HopTyped /\ [HostNext]_hostVars => (HostInv /\ HopTyped)' BY HostStep, HopTypedStep
<1> QED BY <1>1, <1>2, HostMeans, PTL DEF HostSpec
-----------------------------------------------------------------------------
(* Worktrees: the step of a task, and a worktree that is gone keeps nothing. *)
JobSteps == {"off", "ensure", "deps", "sync", "work", "exclude", "merge", "again", "check",
             "recheck", "stage", "restage", "commit", "recommit", "resolving", "finish"}
TreeFields == {"exists", "dirty", "deps", "context"}
GoneIsEmpty(x) == ~x.exists => x = NoTree
GitTyped ==
  /\ strategy \in Strategies /\ mergeLock \subseteq WtTickets /\ replans \subseteq WtTickets
  /\ DOMAIN tree = WtTickets /\ \A t \in WtTickets : DOMAIN tree[t] = TreeFields /\ GoneIsEmpty(tree[t])
  /\ job \in [WtTickets -> JobSteps]

(* LEMMA: the worktree that is not there. *)
LEMMA NoTreeFacts == DOMAIN NoTree = TreeFields /\ GoneIsEmpty(NoTree) /\ ~NoTree.exists
                     /\ NoTree.dirty = {} /\ NoTree.deps = {}
  BY DEF NoTree, TreeFields, GoneIsEmpty

(* LEMMA: a task moves on, a worktree is changed where it is there. *)
LEMMA GitTaskMoves ==
  ASSUME GitTyped, NEW t \in WtTickets, NEW step \in JobSteps, To(t, step)
  PROVE  job' \in [WtTickets -> JobSteps]
  BY DEF GitTyped, To
(* LEMMA: a worktree changes and the rest stay. *)
LEMMA TreeChanges ==
  ASSUME GitTyped, NEW t \in WtTickets, NEW x, tree' = [tree EXCEPT ![t] = x],
         DOMAIN x = TreeFields, GoneIsEmpty(x)
  PROVE  DOMAIN tree' = WtTickets /\ \A y \in WtTickets : DOMAIN tree'[y] = TreeFields /\ GoneIsEmpty(tree'[y])
<1>1. DOMAIN tree' = WtTickets /\ tree'[t] = x /\ \A y \in WtTickets \ {t} : tree'[y] = tree[y]
  BY DEF GitTyped
<1> QED BY <1>1 DEF GitTyped

(* LEMMA: the worktrees start typed. *)
LEMMA GitTypedStart == GitInit => GitTyped
<1> SUFFICES ASSUME GitInit PROVE GitTyped OBVIOUS
<1>1. /\ strategy \in Strategies /\ tree = [t \in WtTickets |-> NoTree]
      /\ job = [t \in WtTickets |-> "off"] /\ mergeLock = {} /\ replans = {}
  BY DEF GitInit
<1> QED BY <1>1, NoTreeFacts DEF GitTyped, JobSteps

(* LEMMA: every step keeps tasks and worktrees typed. *)
LEMMA GitTypedStep ==
  ASSUME GitTyped, [GitNext]_gitVars
  PROVE  GitTyped'
<1>1. ASSUME UNCHANGED <<strategy, tree, replans>>, mergeLock' \subseteq WtTickets,
             job' \in [WtTickets -> JobSteps]
      PROVE  GitTyped'
  BY <1>1 DEF GitTyped
<1>2. ASSUME UNCHANGED <<strategy, mergeLock, replans>>, job' \in [WtTickets -> JobSteps],
             NEW t \in WtTickets, NEW x, tree' = [tree EXCEPT ![t] = x], DOMAIN x = TreeFields, GoneIsEmpty(x)
      PROVE  GitTyped'
  BY <1>2, TreeChanges DEF GitTyped
<1>3. ASSUME UNCHANGED <<strategy, tree, job>>, mergeLock' = mergeLock, replans' = replans PROVE GitTyped'
  BY <1>3 DEF GitTyped
<1>4. ASSUME UNCHANGED gitVars PROVE GitTyped' BY <1>3, <1>4 DEF gitVars
<1>5. ASSUME NEW t \in WtTickets, UNCHANGED strategy,
             \/ StartTicket(t) \/ WorktreeReady(t) \/ ExcludeContext(t) \/ PhasesDone(t) \/ FeatureBranch(t)
             \/ WorktreeGone(t) \/ \E ok \in BOOLEAN : ResolveConflict(t, ok)
      PROVE  GitTyped'
  <2>1. UNCHANGED <<strategy, tree, mergeLock, replans>> /\ \E step \in JobSteps : To(t, step)
    BY <1>5 DEF StartTicket, WorktreeReady, ExcludeContext, PhasesDone, FeatureBranch, WorktreeGone,
                ResolveConflict, JobSteps
  <2> QED BY <1>1, <2>1, GitTaskMoves DEF GitTyped
<1>6. ASSUME NEW t \in WtTickets, UNCHANGED strategy, EnsureWorktree(t) PROVE GitTyped'
  <2>1. CASE tree[t].exists
    <3>1. UNCHANGED <<tree, mergeLock, replans>> /\ To(t, "sync") BY <1>6, <2>1 DEF EnsureWorktree
    <3>2. job' \in [WtTickets -> JobSteps] BY <3>1, GitTaskMoves DEF JobSteps
    <3> QED BY <1>1, <1>6, <3>1, <3>2 DEF GitTyped
  <2>2. CASE ~tree[t].exists
    <3>1. PICK x : x = [NoTree EXCEPT !.exists = TRUE, !.deps = BlockedBy[t]] OBVIOUS
    <3>2. DOMAIN x = TreeFields /\ x.exists BY <3>1 DEF NoTree, TreeFields
    <3>3. UNCHANGED <<mergeLock, replans>> /\ To(t, "deps") /\ tree' = [tree EXCEPT ![t] = x]
      BY <1>6, <2>2, <3>1 DEF EnsureWorktree
    <3>4. job' \in [WtTickets -> JobSteps] BY <3>3, GitTaskMoves DEF JobSteps
    <3> QED BY <1>2, <1>6, <3>2, <3>3, <3>4 DEF GoneIsEmpty
  <2> QED BY <2>1, <2>2
<1>7. ASSUME NEW t \in WtTickets, NEW d \in WtTickets, UNCHANGED strategy, MergeDependency(t, d)
      PROVE  GitTyped'
  <2>1. tree[t].exists
    <3>1. d \in tree[t].deps BY <1>7 DEF MergeDependency
    <3> QED BY <3>1, NoTreeFacts DEF GitTyped, GoneIsEmpty
  <2>2. PICK x : x = [tree[t] EXCEPT !.deps = @ \ {d}] OBVIOUS
  <2>3. DOMAIN x = TreeFields /\ x.exists BY <2>1, <2>2 DEF GitTyped, TreeFields
  <2>4. /\ UNCHANGED <<mergeLock, replans>>
        /\ \/ job' = job /\ tree' = [tree EXCEPT ![t] = x]
           \/ To(t, "off") /\ tree' = tree
    BY <1>7, <2>2 DEF MergeDependency
  <2>5. job' \in [WtTickets -> JobSteps] BY <2>4, GitTaskMoves DEF GitTyped, JobSteps
  <2>6. CASE tree' = tree BY <1>1, <1>7, <2>4, <2>5, <2>6 DEF GitTyped
  <2>7. CASE tree' = [tree EXCEPT ![t] = x] BY <1>2, <1>7, <2>3, <2>4, <2>5, <2>7 DEF GoneIsEmpty
  <2> QED BY <2>4, <2>6, <2>7
<1>8. ASSUME NEW t \in WtTickets, UNCHANGED strategy, WriteContext(t) \/ AgentEdits(t) \/ CommitWorktree(t)
      PROVE  GitTyped'
  <2>1. tree[t].exists
    <3>1. CASE WriteContext(t) \/ AgentEdits(t) BY <3>1 DEF WriteContext, AgentEdits
    <3>2. CASE CommitWorktree(t)
      BY <3>2, NoTreeFacts DEF CommitWorktree, Dirty, GitTyped, GoneIsEmpty
    <3> QED BY <1>8, <3>1, <3>2
  <2>2. PICK x : /\ tree' = [tree EXCEPT ![t] = x] /\ UNCHANGED <<mergeLock, replans>>
                 /\ \/ x = [tree[t] EXCEPT !.context = TRUE]
                    \/ \E e : x = [tree[t] EXCEPT !.dirty = @ \cup {e}]
                    \/ x = [tree[t] EXCEPT !.dirty = {}]
                 /\ job' = job \/ To(t, "exclude")
    BY <1>8 DEF WriteContext, AgentEdits, CommitWorktree
  <2>3. DOMAIN x = TreeFields /\ x.exists = tree[t].exists BY <2>2 DEF GitTyped, TreeFields
  <2>4. job' \in [WtTickets -> JobSteps] BY <2>2, GitTaskMoves DEF GitTyped, JobSteps
  <2> QED BY <1>2, <1>8, <2>1, <2>2, <2>3, <2>4 DEF GoneIsEmpty
<1>9. ASSUME NEW t \in WtTickets, UNCHANGED strategy,
             \/ EnterMerge(t) \/ Integrate(t) \/ StageSquash(t) \/ CommitFails(t)
             \/ \E aborted \in BOOLEAN : MergeConflict(t, aborted)
      PROVE  GitTyped'
  <2>1. /\ UNCHANGED <<tree, replans>> /\ mergeLock' \subseteq mergeLock \cup {t}
        /\ \E step \in JobSteps : To(t, step)
    <3>1. CASE EnterMerge(t) BY <3>1 DEF EnterMerge, JobSteps
    <3>2. CASE Integrate(t)
      <4>1. ConflictStep(t) \in JobSteps BY DEF ConflictStep, JobSteps
      <4> QED BY <3>2, <4>1 DEF Integrate, LeaveMerge, JobSteps
    <3>3. CASE CommitFails(t) \/ \E aborted \in BOOLEAN : MergeConflict(t, aborted)
      <4>1. ConflictStep(t) \in JobSteps BY DEF ConflictStep, JobSteps
      <4> QED BY <3>3, <4>1 DEF MergeConflict, CommitFails, LeaveMerge
    <3>4. CASE StageSquash(t) BY <3>4 DEF StageSquash, JobSteps
    <3> QED BY <1>9, <3>1, <3>2, <3>3, <3>4
  <2>2. job' \in [WtTickets -> JobSteps] BY <2>1, GitTaskMoves
  <2> QED BY <1>1, <1>9, <2>1, <2>2 DEF GitTyped
<1>10. ASSUME NEW t \in WtTickets, UNCHANGED strategy, PlainMerge(t) \/ CommitSquash(t) PROVE GitTyped'
  <2>1. PICK adds : Landed(t, adds) BY <1>10 DEF PlainMerge, CommitSquash
  <2>2. /\ tree' = tree /\ mergeLock' \subseteq mergeLock /\ replans' \subseteq replans \cup {t}
        /\ \E step \in JobSteps : To(t, step)
    BY <2>1 DEF Landed, LeaveMerge, JobSteps
  <2>3. job' \in [WtTickets -> JobSteps] BY <2>2, GitTaskMoves
  <2> QED BY <1>10, <2>2, <2>3 DEF GitTyped
<1>11. ASSUME NEW t \in WtTickets, UNCHANGED strategy, RemoveTree(t) \/ ValidateTicket(t) PROVE GitTyped'
  <2>1. /\ tree' = [tree EXCEPT ![t] = NoTree] /\ mergeLock' = mergeLock /\ replans' \subseteq replans
        /\ job' = job \/ To(t, "off")
    BY <1>11 DEF RemoveTree, ValidateTicket
  <2>2. job' \in [WtTickets -> JobSteps] BY <2>1, GitTaskMoves DEF GitTyped, JobSteps
  <2>3. DOMAIN tree' = WtTickets /\ \A y \in WtTickets : DOMAIN tree'[y] = TreeFields /\ GoneIsEmpty(tree'[y])
    BY <2>1, NoTreeFacts, TreeChanges
  <2> QED BY <1>11, <2>1, <2>2, <2>3 DEF GitTyped
<1>12. CASE DaemonRestart /\ UNCHANGED strategy
  BY <1>12 DEF DaemonRestart, GitTyped, JobSteps
<1>13. CASE (OperatorEdits \/ OperatorStages \/ \E saved \in BOOLEAN : OperatorTidies(saved)) /\ UNCHANGED strategy
  BY <1>3, <1>13 DEF OperatorEdits, OperatorStages, OperatorTidies
<1> QED BY <1>4, <1>5, <1>6, <1>7, <1>8, <1>9, <1>10, <1>11, <1>12, <1>13 DEF GitNext

(* THEOREM: a task is at one of its steps, and a worktree that is gone keeps *)
(* neither changes nor dependencies.                                        *)
THEOREM GitKeepsTypes == GitSpec => []GitTypeOK
<1>1. GitTyped => GitTypeOK BY DEF GitTyped, GitTypeOK, GoneIsEmpty, JobSteps
<1> QED BY GitTypedStart, GitTypedStep, <1>1, PTL DEF GitSpec
-----------------------------------------------------------------------------
(* Hooks: what lies where a hook or its backup does is nothing, a script of  *)
(* the operator's or, of the hooks only, jig's own.                          *)
HooksTyped ==
  /\ target \in [Hooks -> (0..written) \cup {JigHook}]
  /\ backup \in [Hooks -> 0..written]

(* LEMMA: the hooks start typed. *)
LEMMA HooksTypedStart == HooksInit => HooksTyped
  BY DEF HooksInit, HooksTyped, None0

(* LEMMA: every step keeps the hooks typed. *)
LEMMA HooksTypedStep ==
  ASSUME HooksInv, HooksTyped, [HooksNext]_hookVars
  PROVE  HooksTyped'
<1> USE DEF HooksTyped
<1>a. written \in 0..MaxScripts /\ MaxScripts \in Nat /\ JigHook = MaxScripts + 1 /\ None0 = 0
  BY HooksAssumption DEF HooksInv, HooksShape, JigHook, None0
<1>b. acting.todo \in Seq(Hooks) /\ (acting.todo # <<>> => Cur \in Hooks)
  BY HeadTailProperties DEF HooksInv, HooksShape, Actings, Cur
<1>c. ASSUME NEW h \in Hooks, Own(target[h]) PROVE target[h] \in 0..written
  BY <1>a, <1>c DEF Own
<1>1. ASSUME UNCHANGED <<target, backup, written>> PROVE HooksTyped' BY <1>1
<1>2. CASE EndHooks \/ RefuseHook \/ KilledHooks
  BY <1>1, <1>2 DEF EndHooks, RefuseHook, KilledHooks
<1>3. ASSUME NEW what \in {"install", "uninstall"}, NEW force \in BOOLEAN, BeginHooks(what, force)
      PROVE  HooksTyped'
  BY <1>1, <1>3 DEF BeginHooks
<1>4. CASE InstallHook BY <1>4, <1>b DEF InstallHook
<1>5. CASE BackUpHook
  <2>1. /\ Cur \in Hooks /\ Own(target[Cur]) /\ written' = written
        /\ backup' = [backup EXCEPT ![Cur] = target[Cur]] /\ target' = [target EXCEPT ![Cur] = None0]
    BY <1>5, <1>b DEF BackUpHook
  <2>2. target[Cur] \in 0..written BY <2>1, <1>c
  <2> QED BY <1>a, <2>1, <2>2
<1>6. CASE UninstallHook
  <2>1. /\ backup' = backup /\ written' = written
        /\ target' = target \/ target' = [target EXCEPT ![Cur] = None0]
    BY <1>6 DEF UninstallHook
  <2> QED BY <1>a, <2>1
<1>7. CASE RestoreHook
  <2>1. Cur \in Hooks
    BY <1>7, <1>b DEF RestoreHook, HooksInv, HooksTidy
  <2>2. /\ written' = written
        /\ \/ UNCHANGED <<target, backup>>
           \/ target' = [target EXCEPT ![Cur] = backup[Cur]] /\ backup' = [backup EXCEPT ![Cur] = None0]
    BY <1>7 DEF RestoreHook
  <2> QED BY <1>a, <2>1, <2>2
<1>8. ASSUME NEW h \in Hooks, OperatorWrites(h) PROVE HooksTyped'
  <2>1. /\ written' = written + 1 /\ target' = [target EXCEPT ![h] = written + 1] /\ backup' = backup
    BY <1>8 DEF OperatorWrites
  <2>2. 0..written \subseteq 0..written' /\ written + 1 \in 0..written' BY <1>a, <2>1
  <2>3. \A g \in Hooks : target'[g] \in (0..written') \cup {JigHook} BY <2>1, <2>2
  <2>4. \A g \in Hooks : backup'[g] \in 0..written' BY <2>1, <2>2
  <2>5. JigHook' = JigHook BY DEF JigHook
  <2> QED BY <2>1, <2>3, <2>4, <2>5
<1>9. ASSUME NEW h \in Hooks, OperatorDeletes(h) PROVE HooksTyped'
  BY <1>9, <1>a DEF OperatorDeletes
<1>10. CASE \E failing \in SUBSET DOMAIN HookChecks, msg \in {"conventional", "autobypass", "other"},
              review \in {"clean", "comments", "crashed"} : CommitThroughHooks(failing, msg, review)
  BY <1>1, <1>10 DEF CommitThroughHooks
<1>11. CASE \E failing \in SUBSET (DOMAIN HookChecks \cup {"pre_push_command"}),
              where \in {"worktree", "fallback", "nowhere"} : PushThroughHooks(where, failing)
  BY <1>1, <1>11 DEF PushThroughHooks
<1>12. CASE UNCHANGED hookVars BY <1>1, <1>12 DEF hookVars
<1> QED BY <1>2, <1>3, <1>4, <1>5, <1>6, <1>7, <1>8, <1>9, <1>10, <1>11, <1>12 DEF HooksNext

(* THEOREM: a hook is nothing, jig's or a script the operator wrote, and     *)
(* jig's own is never kept as a backup.                                      *)
THEOREM HooksKeepTypes == HooksSpec => []HooksTypeOK
<1>1. HooksInit => HooksInv /\ HooksTyped BY HooksInitOK, HooksTypedStart
<1>2. HooksInv /\ HooksTyped /\ [HooksNext]_hookVars => (HooksInv /\ HooksTyped)' BY HooksStepOK, HooksTypedStep
<1>3. HooksInv /\ HooksTyped => HooksTypeOK
  <2> SUFFICES ASSUME HooksInv, HooksTyped PROVE HooksTypeOK OBVIOUS
  <2>1. written \in 0..MaxScripts /\ JigHook = MaxScripts + 1 /\ MaxScripts \in Nat
        /\ acting.what \in {"none", "install", "uninstall"}
    BY HooksAssumption DEF HooksInv, HooksShape, JigHook, Actings
  <2>2. \A h \in Hooks : target[h] \in (0..written) \cup {JigHook} /\ backup[h] \in 0..written
    BY DEF HooksTyped
  <2>3. JigHook \notin 0..written BY <2>1
  <2>4. \A h \in Hooks : {target[h], backup[h]} \subseteq (0..written) \cup {JigHook} /\ backup[h] # JigHook
    BY <2>2, <2>3
  <2> QED BY <2>1, <2>4 DEF HooksTypeOK
<1> QED BY <1>1, <1>2, <1>3, PTL DEF HooksSpec
-----------------------------------------------------------------------------
(* Federation: where a round is, what came of it, and within which bounds.   *)
RoundPlaces == {"idle", "dispatch", "gather", "judge"}
RoundResults == {"none", "passed", "blocked", "unreviewed", "error"}
FedTyped ==
  /\ Len(comments) <= MaxComments /\ rounds <= MaxRounds
  /\ round.at \in RoundPlaces /\ round.result \in RoundResults
  /\ ticket \in {"resolved", "failed", "blocked"}

(* LEMMA: the first round starts typed. *)
LEMMA FedTypedStart == FedInit => FedTyped
<1> SUFFICES ASSUME FedInit PROVE FedTyped OBVIOUS
<1>1. Len(comments) = 0 BY EmptySeq DEF FedInit
<1> QED BY <1>1, FederationAssumption DEF FedInit, FedTyped, NoRound, RoundPlaces, RoundResults

(* LEMMA: every step keeps the round typed. *)
LEMMA FedTypedStep ==
  ASSUME FedShape, FedTyped, [FedNext]_fedVars
  PROVE  FedTyped'
<1>a. /\ comments \in Seq(Comments) /\ Len(comments) \in Nat /\ rounds \in Nat /\ DOMAIN round = RoundFields
      /\ MaxComments \in Nat /\ MaxRounds \in Nat
  BY FederationAssumption, LenProperties DEF FedShape
<1>1. ASSUME UNCHANGED <<comments, rounds, ticket>>, round'.at \in RoundPlaces, round'.result \in RoundResults
      PROVE  FedTyped'
  BY <1>1 DEF FedTyped
<1>2. ASSUME UNCHANGED <<comments, rounds, ticket, round>> PROVE FedTyped'
  BY <1>1, <1>2 DEF FedTyped
<1>3. ASSUME NEW kind \in {"phase", "final"}, StartRound(kind) PROVE FedTyped'
  <2>1. round' = [NoRound EXCEPT !.at = "dispatch", !.kind = kind, !.n = rounds + 1, !.start = Len(comments)]
        /\ rounds < MaxRounds /\ rounds' = rounds + 1 /\ ticket' \in {ticket, "resolved"} /\ UNCHANGED comments
    BY <1>3 DEF StartRound, Free
  <2>2. round'.at = "dispatch" /\ round'.result = "none" BY <2>1 DEF NoRound
  <2> QED BY <1>a, <2>1, <2>2 DEF FedTyped, RoundPlaces, RoundResults
<1>4. ASSUME NEW m, DispatchReviewers(m) PROVE FedTyped'
  <2>1. UNCHANGED <<comments, rounds, ticket>>
        /\ round' = [round EXCEPT !.at = "gather", !.mech = m,
                       !.pre = {CommentSignature(comments[i]) : i \in DOMAIN comments}]
    BY <1>4 DEF DispatchReviewers
  <2>2. round'.at = "gather" /\ round'.result = round.result BY <1>a, <2>1, RoundFieldsAre
  <2> QED BY <1>1, <2>1, <2>2 DEF FedTyped, RoundPlaces
<1>5. ASSUME NEW w \in working, NEW a \in Anchors, NEW sev \in {"critical", "notable"}, ReviewerPostComment(w, a, sev)
      PROVE  FedTyped'
  <2> DEFINE c == [rv |-> w.rv, at |-> a, sev |-> sev, cycle |-> w.cycle, n |-> w.n, turn |-> w.turn]
  <2>1. comments' = Append(comments, c) /\ Len(comments) < MaxComments /\ UNCHANGED <<round, rounds, ticket>>
    BY <1>5 DEF ReviewerPostComment
  <2>2. c \in Comments BY DEF FedShape, Workers, Comments, Severities
  <2> HIDE DEF c
  <2>3. Len(comments') = Len(comments) + 1 BY <1>a, <2>1, <2>2, AppendProperties
  <2> QED BY <1>a, <2>1, <2>3 DEF FedTyped
<1>6. ASSUME NEW w \in working, ReviewerEnds(w) PROVE FedTyped' BY <1>2, <1>6 DEF ReviewerEnds
<1>7. ASSUME NEW w \in working, ReviewerFails(w) PROVE FedTyped'
  <2>1. /\ \/ round' = [round EXCEPT !.at = "dispatch", !.tries = 1, !.got = {}]
           \/ round' = [round EXCEPT !.at = "idle", !.result = "error"]
           \/ round' = [round EXCEPT !.at = "judge", !.tries = 1]
           \/ round' = [round EXCEPT !.at = "idle", !.result = "unreviewed"]
        /\ ticket' \in {"failed", ticket} /\ UNCHANGED <<comments, rounds>>
    BY <1>7 DEF ReviewerFails
  <2>2. round'.at \in {"dispatch", "idle", "judge"} /\ round'.result \in {round.result, "error", "unreviewed"}
    BY <1>a, <2>1, RoundFieldsAre
  <2> QED BY <2>1, <2>2 DEF FedTyped, RoundPlaces, RoundResults
<1>8. CASE EndPass
  <2>1. PICK to \in {"dispatch", "judge"} :
          round' = [round EXCEPT !.got = Gathered, !.mech = {}, !.pass = @ + 1, !.at = to]
    BY <1>8 DEF EndPass
  <2>2. UNCHANGED <<comments, rounds, ticket>> BY <1>8 DEF EndPass
  <2>3. round'.at = to /\ round'.result = round.result BY <1>a, <2>1, RoundFieldsAre
  <2> QED BY <1>1, <2>2, <2>3 DEF FedTyped, RoundPlaces
<1>9. CASE JudgePhase \/ JudgeFinal
  <2>1. PICK res \in {"passed", "blocked"} : round' = [round EXCEPT !.at = "idle", !.result = res]
    BY <1>9 DEF JudgePhase, JudgeFinal
  <2>2. UNCHANGED <<comments, rounds>> /\ ticket' \in {ticket, "failed", "blocked"}
    <3>1. CASE JudgePhase BY <3>1 DEF JudgePhase
    <3>2. CASE JudgeFinal
      <4> DEFINE has(s) == \E c \in round.got : c.sev = s
      <4>1. ticket' = CASE has("critical") -> "failed" [] has("important") /\ ~has("critical") -> "blocked"
                        [] OTHER -> ticket
        BY <3>2 DEF JudgeFinal
      <4> HIDE DEF has
      <4>2. CASE has("critical") BY <3>2, <4>1, <4>2 DEF JudgeFinal
      <4>3. CASE ~has("critical") BY <3>2, <4>1, <4>3 DEF JudgeFinal
      <4> QED BY <4>2, <4>3
    <3> QED BY <1>9, <3>1, <3>2
  <2>3. round'.at = "idle" /\ round'.result = res BY <1>a, <2>1, RoundFieldsAre
  <2> QED BY <2>2, <2>3 DEF FedTyped, RoundPlaces, RoundResults
<1>10. CASE FedRestart
  <2>1. UNCHANGED <<comments, rounds, ticket>> /\ round' = [NoRound EXCEPT !.n = round.n]
    BY <1>10 DEF FedRestart
  <2>2. round'.at = "idle" /\ round'.result = "none" BY <2>1 DEF NoRound
  <2> QED BY <1>1, <2>1, <2>2 DEF RoundPlaces, RoundResults
<1>11. ASSUME NEW x \in ComputeFindingIds(comments), NEW kind, WriteAck(x, kind) PROVE FedTyped'
  BY <1>2, <1>11 DEF WriteAck
<1>12. CASE UNCHANGED fedVars BY <1>2, <1>12 DEF fedVars
<1> QED BY <1>3, <1>4, <1>5, <1>6, <1>7, <1>8, <1>9, <1>10, <1>11, <1>12
        DEF FedNext, MarkFindingAddressed, MarkFindingResolved, DismissFinding

(* THEOREM: a round is at one of its steps, what came of it is one of its     *)
(* results, and its comments are reviewers' and of a severity.               *)
THEOREM FedKeepsTypes == FedSpec => []FedTypeOK
<1>1. ASSUME FedShape, FedTyped PROVE FedTypeOK
  <2>1. comments \in Seq(Comments) /\ rounds \in Nat BY <1>1 DEF FedShape
  <2>2. \A i \in DOMAIN comments : comments[i] \in Comments BY <2>1
  <2>3. rounds \in 0..MaxRounds BY <1>1, <2>1, FederationAssumption DEF FedTyped
  <2>4. \A i \in DOMAIN comments : comments[i].rv \in Reviewers /\ comments[i].sev \in Severities
    BY <2>2 DEF Comments
  <2> QED BY <1>1, <2>3, <2>4 DEF FedTyped, FedTypeOK, RoundPlaces, RoundResults
<1> QED BY <1>1, FedInitShape, FedShapeStep, FedTypedStart, FedTypedStep, PTL DEF FedSpec
-----------------------------------------------------------------------------
(* Checks: with the shapes of the gate's proof, what remains is that a gate  *)
(* under way is about a handoff there is, and so is whatever it passed.      *)
HidInv ==
  /\ gate.hid \in {0} \cup DOMAIN handoffs /\ gatePassed \subseteq DOMAIN handoffs
  /\ gate.at \in {"run", "running", "score"} => gate.hid \in DOMAIN handoffs

(* LEMMA: at the start no gate is under way. *)
LEMMA HidStart == CheckInit => HidInv
<1>1. CheckInit => gate.at = "agent" /\ gate.hid = 0 /\ gatePassed = {} BY DEF CheckInit, GateAt
<1> QED BY <1>1 DEF HidInv

(* LEMMA: the gate keeps its handoff, or has none and is not under way.      *)
LEMMA HidKept ==
  ASSUME HidInv, DOMAIN handoffs \subseteq DOMAIN handoffs',
         \/ gate' = gate
         \/ gate'.hid = gate.hid /\ (gate.hid \in DOMAIN handoffs \/ gate'.at \notin {"run", "running", "score"})
         \/ gate'.hid = 0 /\ gate'.at \notin {"run", "running", "score"},
         gatePassed' \subseteq gatePassed \cup {gate.hid}, gate.hid \in DOMAIN handoffs \/ gatePassed' = gatePassed
  PROVE  HidInv'
  BY DEF HidInv

(* LEMMA: every step keeps the gate about a handoff there is. *)
LEMMA HidStep ==
  ASSUME CheckShape, HidInv, [CheckNext]_checkVars
  PROVE  HidInv'
<1>a. /\ handoffs \in Seq(HandoffRows) /\ gate \in GateRecords
      /\ Len(handoffs) \in Nat /\ DOMAIN handoffs = 1..Len(handoffs)
  BY LenProperties DEF CheckShape
<1>b. \A at : GateAt(at).at = at /\ GateAt(at).hid = 0 BY DEF GateAt
<1>c. DOMAIN gate = {"at", "hid", "names", "pos", "sha", "failing", "missing", "from", "tools", "sees"}
  BY <1>a DEF GateRecords
<1>1. ASSUME gate' = gate, handoffs' = handoffs, gatePassed' = gatePassed PROVE HidInv' BY <1>1, HidKept
<1>2. ASSUME NEW change, AgentCommits(change) PROVE HidInv' BY <1>1, <1>2 DEF AgentCommits
<1>3. CASE AgentHandsOver
  <2>1. PICK v : handoffs' = Append(handoffs, v) BY <1>3 DEF AgentHandsOver
  <2>2. DOMAIN handoffs \subseteq DOMAIN handoffs' /\ UNCHANGED <<gate, gatePassed>>
    BY <1>3, <1>a, <2>1 DEF AgentHandsOver
  <2> QED BY <2>2, HidKept
<1>4. CASE BeginGate
  <2>1. UNCHANGED <<handoffs, gatePassed>> BY <1>4 DEF BeginGate
  <2>2. CASE PendingHandoffs = {}
    <3>1. gate' = GateAt("over") BY <1>4, <2>2 DEF BeginGate
    <3> QED BY <1>b, <2>1, <3>1, HidKept
  <2>3. CASE PendingHandoffs # {}
    <3>1. PendingHandoffs \subseteq 1..Len(handoffs) BY <1>a DEF PendingHandoffs
    <3>2. \E m \in PendingHandoffs : \A k \in PendingHandoffs : k <= m BY <1>a, <2>3, <3>1, LatestExists
    <3>d. PICK h : h = CHOOSE g \in PendingHandoffs : \A k \in PendingHandoffs : k <= g OBVIOUS
    <3>h. h \in PendingHandoffs BY <3>2, <3>d, Zenon
    <3>3. gate' = [GateAt("run") EXCEPT !.hid = h, !.names = Phase.checks, !.pos = 1, !.from = Len(results)]
      BY <1>4, <2>3, <3>d DEF BeginGate
    <3>4. gate'.hid = h BY <3>3 DEF GateAt
    <3> QED BY <1>a, <2>1, <3>1, <3>4, <3>h DEF HidInv
  <2> QED BY <2>2, <2>3
<1>5. ASSUME NEW p, NEW sha, StartCheck(p, sha) PROVE HidInv'
  <2>1. UNCHANGED <<handoffs, gatePassed>> /\ gate.at = "run" BY <1>5 DEF StartCheck
  <2>2. gate' = GateAt("failed") \/ gate'.hid = gate.hid BY <1>5, <1>c DEF StartCheck, GateRaises
  <2> QED BY <1>b, <2>1, <2>2 DEF HidInv
<1>6. ASSUME NEW said, EndCheck(said) PROVE HidInv'
  <2>1. UNCHANGED <<handoffs, gatePassed>> /\ gate.at = "running" BY <1>6 DEF EndCheck
  <2>2. gate' = GateAt("failed") \/ gate'.hid = gate.hid BY <1>6, <1>c DEF EndCheck, GateRaises
  <2> QED BY <1>b, <2>1, <2>2 DEF HidInv
<1>7. CASE BeginEvaluate \/ ScoreCheck
  <2>1. UNCHANGED <<handoffs, gatePassed>> /\ gate.at \in {"run", "score"} /\ gate'.hid = gate.hid
    BY <1>7, <1>c DEF BeginEvaluate, ScoreCheck
  <2> QED BY <2>1 DEF HidInv
<1>8. CASE GateVerdict
  <2>1. /\ gate.at = "score" /\ handoffs' = handoffs /\ gate'.hid = gate.hid
        /\ gatePassed' \subseteq gatePassed \cup {gate.hid}
    BY <1>8, <1>c DEF GateVerdict
  <2> QED BY <2>1 DEF HidInv
<1>9. ASSUME NEW state, Judged(gate.hid, state, "harness"), gatePassed' = gatePassed PROVE HidInv'
  <2>1. gate' \in {GateAt("failed"), GateAt("over")} /\ DOMAIN handoffs' = DOMAIN handoffs
    BY <1>9 DEF Judged, GateRaises
  <2> QED BY <1>9, <1>b, <2>1, HidKept
<1>10. CASE BounceHandoff \/ GateAccepts BY <1>9, <1>10 DEF BounceHandoff, GateAccepts
<1>11. CASE SpawnEvaluators \/ PhaseEnds \/ ReopenFailed
  <2>1. PICK at : at \in {"over", "done", "agent"} /\ gate' = GateAt(at)
    BY <1>11 DEF SpawnEvaluators, PhaseEnds, ReopenFailed
  <2>2. UNCHANGED <<handoffs, gatePassed>> BY <1>11 DEF SpawnEvaluators, PhaseEnds, ReopenFailed
  <2> QED BY <1>b, <2>1, <2>2, HidKept
<1>12. CASE FinishWaive BY <1>1, <1>12 DEF FinishWaive
<1>13. ASSUME NEW f, BeginWaive(f) PROVE HidInv' BY <1>1, <1>13 DEF BeginWaive
<1>14. ASSUME NEW r, SpawnQaResponder(r) \/ ResponderStarts(r) \/ ResponderEnds(r) PROVE HidInv'
  BY <1>1, <1>14 DEF SpawnQaResponder, ResponderStarts, ResponderEnds
<1>15. ASSUME NEW r, NEW h, NEW state, AgentJudges(r, h, state) PROVE HidInv'
  <2>1. DOMAIN handoffs' = DOMAIN handoffs /\ UNCHANGED <<gate, gatePassed>> BY <1>15 DEF AgentJudges
  <2> QED BY <2>1, HidKept
<1>16. CASE UNCHANGED checkVars BY <1>1, <1>16 DEF checkVars
<1> QED BY <1>2, <1>3, <1>4, <1>5, <1>6, <1>7, <1>8, <1>10, <1>11, <1>12, <1>13, <1>14, <1>15, <1>16 DEF CheckNext

(* THEOREM: the gate is about a handoff of the thread, in a place of its      *)
(* sweep, and every stored result has a verdict that a check may end in.      *)
THEOREM CheckKeepsTypes == CheckSpec => []CheckTypeOK
<1>1. CheckInit => CheckShape /\ HidInv BY CheckInitShape, HidStart
<1>2. CheckShape /\ HidInv /\ [CheckNext]_checkVars => (CheckShape /\ HidInv)' BY CheckShapeStep, HidStep
<1>3. ASSUME CheckShape, HidInv PROVE CheckTypeOK
  <2>1. \A i \in DOMAIN results : results[i] \in ResultRows BY <1>3, LenProperties DEF CheckShape
  <2>2. \A i \in DOMAIN results : results[i].verdict \in {"pass", "fail", "unfinished"}
    BY <2>1 DEF ResultRows, Verdicts
  <2>3. gate.at \in GatePlaces BY <1>3 DEF CheckShape, GateRecords
  <2> QED BY <1>3, <2>2, <2>3 DEF CheckShape, HidInv, CheckTypeOK, GatePlaces
<1> QED BY <1>1, <1>2, <1>3, PTL DEF CheckSpec
-----------------------------------------------------------------------------
(* Notebook: each decision file is of an entry of its own, and the entries   *)
(* that calls under way still have to record have none, which is why there   *)
(* are never more files than entries.                                        *)
RecordsInv ==
  /\ DOMAIN decisions = {"posted", "records"} /\ decisions.posted \in Nat /\ decisions.records \in Seq(Nat)
  /\ \A i \in DOMAIN decisions.records : decisions.records[i] \in 1..decisions.posted
  /\ \A i, j \in DOMAIN decisions.records : decisions.records[i] = decisions.records[j] => i = j
  /\ \A a \in Authors : deal[a].at = "record" =>
       /\ deal[a].n \in 1..decisions.posted
       /\ \A i \in DOMAIN decisions.records : decisions.records[i] # deal[a].n
       /\ \A b \in Authors \ {a} : deal[b].at = "record" => deal[b].n # deal[a].n

(* LEMMA: at the start nothing is recorded. *)
LEMMA RecordsStart == NotebookInit => RecordsInv
<1> SUFFICES ASSUME NotebookInit PROVE RecordsInv OBVIOUS
<1>1. decisions.records \in Seq(Nat) /\ DOMAIN decisions.records = {} /\ decisions.posted = 0
      /\ DOMAIN decisions = {"posted", "records"}
  BY EmptySeq DEF NotebookInit
<1>2. \A a \in Authors : deal[a].at = "none" BY DEF NotebookInit, NoDeal
<1> QED BY <1>1, <1>2 DEF RecordsInv

(* LEMMA: calls that move on without a decision leave the records alone.     *)
LEMMA RecordsKept ==
  ASSUME RecordsInv, decisions' = decisions,
         \A a \in Authors : deal'[a] = deal[a] \/ deal'[a].at # "record"
  PROVE  RecordsInv'
<1>1. \A a \in Authors : deal'[a].at = "record" => deal'[a] = deal[a] OBVIOUS
<1> QED BY <1>1 DEF RecordsInv

(* LEMMA: there are no more records than decisions posted. *)
LEMMA RecordsAreFew == RecordsInv => Len(decisions.records) <= decisions.posted
<1> SUFFICES ASSUME RecordsInv PROVE Len(decisions.records) <= decisions.posted OBVIOUS
<1>1. PICK f, n, k : f = decisions.records /\ n = Len(f) /\ k = decisions.posted OBVIOUS
<1>2. n \in Nat /\ k \in Nat /\ DOMAIN f = 1..n /\ f \in [1..n -> Nat] BY <1>1, LenProperties DEF RecordsInv
<1>3. (\A i \in 1..n : f[i] \in 1..k) /\ \A i, j \in 1..n : f[i] = f[j] => i = j BY <1>1, <1>2 DEF RecordsInv
<1>4. f \in Injection(1..n, 1..k) BY <1>2, <1>3 DEF Injection, IsInjective
<1>5. ASSUME NEW m \in Nat PROVE IsFiniteSet(1..m) /\ Cardinality(1..m) = m
  <2>1. IsFiniteSet(1..m) /\ Cardinality(1..m) = IF 1 > m THEN 0 ELSE m - 1 + 1 BY FS_Interval
  <2> QED BY <2>1
<1>6. Cardinality(1..n) <= Cardinality(1..k) BY <1>2, <1>4, <1>5, FS_Injection
<1> QED BY <1>1, <1>2, <1>5, <1>6

(* LEMMA: every step keeps each record of a decision of its own. *)
LEMMA RecordsStep ==
  ASSUME NoteInv, RecordsInv, [NotebookNext]_noteVars
  PROVE  RecordsInv'
<1>a. DOMAIN deal = Authors /\ DOMAIN NoDeal = DealFields BY NoDealSound DEF NoteInv, DealsSound
<1>b. NoDeal.at = "none" BY DEF NoDeal
<1>c. \A x \in Authors : DOMAIN deal[x] = DealFields BY DEF NoteInv, DealsSound, DealSound
<1>1. ASSUME UNCHANGED <<decisions, deal>> PROVE RecordsInv' BY <1>1, RecordsKept
<1>2. ASSUME NEW a \in Authors, NEW d, Going(a, d), d.at # "record", decisions' = decisions PROVE RecordsInv'
  <2>1. \A x \in Authors : deal'[x] = deal[x] \/ deal'[x].at # "record" BY <1>a, <1>2 DEF Going
  <2> QED BY <1>2, <2>1, RecordsKept
<1>3. CASE MaterializeSpec BY <1>1, <1>3 DEF MaterializeSpec
<1>4. CASE DaemonKilled
  <2>1. \A x \in Authors : deal'[x].at # "record" BY <1>4, <1>b DEF DaemonKilled
  <2> QED BY <1>4, <2>1, RecordsKept DEF DaemonKilled
<1>5. ASSUME NEW ph, NEW n, NEW c, AcceptPhase(ph) \/ PostCheckpoint(ph, n) \/ MarkHistorical(c) PROVE RecordsInv'
  BY <1>1, <1>5 DEF AcceptPhase, PostCheckpoint, MarkHistorical
<1>6. ASSUME NEW a \in Authors, NEW aim, NEW change, ProposeChange(a, aim, change) PROVE RecordsInv'
  <2>1. PICK d : d = [NoDeal EXCEPT !.at = "helper", !.n = Len(proposals) + 1] OBVIOUS
  <2>2. d.at = "helper" BY <1>a, <2>1 DEF DealFields
  <2>3. (Going(a, d) \/ UNCHANGED deal) /\ decisions' = decisions BY <1>6, <2>1 DEF ProposeChange
  <2> QED BY <1>1, <1>2, <2>2, <2>3
<1>7. ASSUME NEW a \in Authors, NEW b, HelperEnds(a, b) \/ PostVerdict(a) \/ MarkPromoted(a) PROVE RecordsInv'
  BY <1>2, <1>7, <1>b DEF HelperEnds, PostVerdict, MarkPromoted, Done
<1>8. ASSUME NEW a \in Authors, NEW b, ApplySpecChange(a, b) PROVE RecordsInv'
  <2>1. PICK d : d = [deal[a] EXCEPT !.at = "post"] OBVIOUS
  <2>2. d.at = "post" BY <1>c, <2>1 DEF DealFields
  <2>3. (Going(a, d) \/ Going(a, NoDeal)) /\ decisions' = decisions BY <1>8, <2>1 DEF ApplySpecChange, Done
  <2> QED BY <1>2, <1>b, <2>2, <2>3
<1>9. ASSUME NEW a \in Authors, NEW p, NEW verdict, BeginResolve(a, p, verdict) PROVE RecordsInv'
  <2>1. PICK d : d = [NoDeal EXCEPT !.at = IF verdict = "accept" THEN "apply" ELSE "post",
                                    !.n = p, !.verdict = verdict, !.locks = LockedFields]
    OBVIOUS
  <2>2. d.at # "record" BY <1>a, <2>1 DEF DealFields
  <2>3. Going(a, d) /\ decisions' = decisions BY <1>9, <2>1 DEF BeginResolve
  <2> QED BY <1>2, <2>2, <2>3
<1>10. ASSUME NEW a \in Authors, NEW c, NEW i, BeginPromote(a, c, i) PROVE RecordsInv'
  <2>1. PICK d : d = [NoDeal EXCEPT !.at = "create", !.n = c, !.i = i] OBVIOUS
  <2>2. d.at # "record" BY <1>a, <2>1 DEF DealFields
  <2>3. Going(a, d) /\ decisions' = decisions BY <1>10, <2>1 DEF BeginPromote
  <2> QED BY <1>2, <2>2, <2>3
<1>11. ASSUME NEW a \in Authors, CreateChild(a) \/ ReadItems(a) PROVE RecordsInv'
  <2>1. PICK d : /\ d = [deal[a] EXCEPT !.at = "items", !.child = children + 1]
                    \/ d = [deal[a] EXCEPT !.at = "mark", !.items = cps[deal[a].n].items]
                 /\ Going(a, d) /\ decisions' = decisions
    BY <1>11 DEF CreateChild, ReadItems
  <2>2. d.at # "record" BY <1>c, <2>1 DEF DealFields
  <2> QED BY <1>2, <2>1, <2>2
<1>12. ASSUME NEW a \in Authors, PostDecision(a) PROVE RecordsInv'
  <2>1. PICK d : d = [NoDeal EXCEPT !.at = "record", !.n = decisions.posted + 1] OBVIOUS
  <2>2. d.n = decisions.posted + 1 BY <1>a, <2>1 DEF DealFields
  <2>3. /\ deal' = [deal EXCEPT ![a] = d]
        /\ decisions' = [decisions EXCEPT !.posted = decisions.posted + 1]
    BY <1>12, <2>1 DEF PostDecision, Going, RecordsInv
  <2>4. /\ DOMAIN decisions' = {"posted", "records"} /\ decisions'.posted = decisions.posted + 1
        /\ decisions'.records = decisions.records
    BY <2>3 DEF RecordsInv
  <2>5. deal'[a] = d /\ \A x \in Authors \ {a} : deal'[x] = deal[x] BY <1>a, <2>3
  <2>6. decisions.posted \in Nat /\ decisions.posted + 1 \notin 1..decisions.posted
        /\ 1..decisions.posted \subseteq 1..(decisions.posted + 1)
        /\ decisions.posted + 1 \in 1..(decisions.posted + 1)
    BY DEF RecordsInv
  <2>7. ASSUME NEW x \in Authors, deal'[x].at = "record"
        PROVE  /\ deal'[x].n \in 1..decisions'.posted
               /\ \A i \in DOMAIN decisions.records : decisions.records[i] # deal'[x].n
               /\ \A b \in Authors \ {x} : deal'[b].at = "record" => deal'[b].n # deal'[x].n
    <3>1. \A y \in Authors \ {a} : deal'[y].at = "record" => deal[y].at = "record" /\ deal'[y].n \in 1..decisions.posted
      BY <2>5 DEF RecordsInv
    <3>2. CASE x = a
      BY <2>2, <2>4, <2>5, <2>6, <3>1, <3>2 DEF RecordsInv
    <3>3. CASE x # a
      <4>1. deal'[x] = deal[x] /\ deal'[x].n \in 1..decisions.posted BY <2>5, <2>7, <3>1, <3>3
      <4>2. deal'[a].n # deal'[x].n BY <2>2, <2>5, <2>6, <4>1
      <4>3. \A b \in Authors \ {x} : deal'[b].at = "record" => deal'[b].n # deal'[x].n
        BY <2>5, <2>7, <4>1, <4>2 DEF RecordsInv
      <4> QED BY <2>4, <2>6, <2>7, <4>1, <4>3 DEF RecordsInv
    <3> QED BY <3>2, <3>3
  <2>8. \A i \in DOMAIN decisions.records : decisions.records[i] \in 1..decisions'.posted
    BY <2>4, <2>6 DEF RecordsInv
  <2>9. decisions'.posted \in Nat BY <2>4, <2>6
  <2> QED BY <2>4, <2>7, <2>8, <2>9 DEF RecordsInv
<1>13. ASSUME NEW a \in Authors, RecordDecision(a) PROVE RecordsInv'
  <2>1. PICK f, v : f = decisions.records /\ v = deal[a].n OBVIOUS
  <2>2. /\ deal[a].at = "record" /\ deal' = [deal EXCEPT ![a] = NoDeal]
        /\ decisions' = [decisions EXCEPT !.records =
             [s \in 1..(Len(f) + 1) |-> IF s = Len(f) + 1 THEN v ELSE f[s]]]
    BY <1>13, <2>1 DEF RecordDecision, Done, Going, NextDecisionSeq, RecordsInv
  <2>3. deal'[a] = NoDeal /\ \A x \in Authors \ {a} : deal'[x] = deal[x] BY <1>a, <2>2
  <2>4. PICK g : g = [s \in 1..(Len(f) + 1) |-> IF s = Len(f) + 1 THEN v ELSE f[s]] OBVIOUS
  <2>5. DOMAIN decisions' = {"posted", "records"} /\ decisions'.posted = decisions.posted /\ decisions'.records = g
    BY <2>2, <2>4 DEF RecordsInv
  <2>6. f \in Seq(Nat) /\ Len(f) \in Nat /\ DOMAIN f = 1..Len(f) BY <2>1, LenProperties DEF RecordsInv
  <2>7. v \in 1..decisions.posted /\ \A i \in DOMAIN f : f[i] # v /\ f[i] \in 1..decisions.posted
    BY <2>1, <2>2 DEF RecordsInv
  <2>8. DOMAIN g = 1..(Len(f) + 1) /\ \A s \in DOMAIN g : (s = Len(f) + 1 /\ g[s] = v) \/ (s \in DOMAIN f /\ g[s] = f[s])
    BY <2>4, <2>6
  <2>9. g \in Seq(Nat)
    <3>1. v \in Nat BY <2>7 DEF RecordsInv
    <3>2. \A s \in DOMAIN f : f[s] \in Nat BY <2>6
    <3>3. \A s \in DOMAIN g : g[s] \in Nat BY <2>8, <3>1, <3>2
    <3>4. g \in [1..(Len(f) + 1) -> Nat] BY <2>4, <2>8, <3>3
    <3>5. Len(f) + 1 \in Nat BY <2>6
    <3> HIDE <2>4
    <3> QED BY <3>4, <3>5, SeqDef
  <2>10. \A i \in DOMAIN g : g[i] \in 1..decisions.posted BY <2>7, <2>8
  <2>11. \A i, j \in DOMAIN g : g[i] = g[j] => i = j
    <3>1. \A i, j \in DOMAIN f : f[i] = f[j] => i = j BY <2>1 DEF RecordsInv
    <3> QED BY <2>7, <2>8, <3>1
  <2>12. ASSUME NEW x \in Authors, deal'[x].at = "record"
         PROVE  /\ deal'[x].n \in 1..decisions.posted /\ \A i \in DOMAIN g : g[i] # deal'[x].n
                /\ \A b \in Authors \ {x} : deal'[b].at = "record" => deal'[b].n # deal'[x].n
    <3>1. x # a /\ deal'[x] = deal[x] BY <1>b, <2>3, <2>12
    <3>2. /\ deal[x].n \in 1..decisions.posted /\ v # deal[x].n
          /\ \A i \in DOMAIN f : f[i] # deal[x].n
          /\ \A b \in Authors \ {x} : deal[b].at = "record" => deal[b].n # deal[x].n
      BY <2>1, <2>2, <2>12, <3>1 DEF RecordsInv
    <3>3. \A i \in DOMAIN g : g[i] # deal'[x].n BY <2>8, <3>1, <3>2
    <3>4. \A b \in Authors \ {x} : deal'[b].at = "record" => deal'[b].n # deal'[x].n
      BY <1>b, <2>3, <3>1, <3>2
    <3> QED BY <3>1, <3>2, <3>3, <3>4
  <2>13. decisions'.posted \in Nat BY <2>5 DEF RecordsInv
  <2> QED BY <2>5, <2>9, <2>10, <2>11, <2>12, <2>13 DEF RecordsInv
<1>14. CASE BriefNext BY <1>1, <1>14 DEF BriefNext, RegenerateSpec
<1>15. CASE UNCHANGED noteVars BY <1>1, <1>15 DEF noteVars
<1>16. CASE ProposalNext
  BY <1>3, <1>4, <1>5, <1>6, <1>7, <1>8, <1>9, <1>16 DEF ProposalNext
<1>17. CASE CheckpointNext
  BY <1>4, <1>5, <1>7, <1>10, <1>11, <1>12, <1>13, <1>17 DEF CheckpointNext
<1> QED BY <1>14, <1>15, <1>16, <1>17 DEF NotebookNext

(* The specification's fields name the proposals they came from, only        *)
(* checkpoints of the thread wait to be marked, and children are bounded.    *)
NoteTyped ==
  /\ DOMAIN spec = {"version", "fields"} /\ spec.version \in Nat
  /\ \A f \in SpecFields : spec.fields[f] \in 0..Len(proposals)
  /\ marking \subseteq DOMAIN cps /\ children \in 0..MaxChildren

(* LEMMA: the notebook starts typed. *)
LEMMA NoteTypedStart == NotebookInit => NoteTyped
<1> SUFFICES ASSUME NotebookInit PROVE NoteTyped OBVIOUS
<1>1. 0 \in 0..Len(proposals) BY DEF NotebookInit
<1>2. DOMAIN spec = {"version", "fields"} /\ spec.version = 0 /\ \A f \in SpecFields : spec.fields[f] = 0
  BY DEF NotebookInit
<1>3. marking = {} /\ children \in 0..MaxChildren BY NotebookAssumption DEF NotebookInit
<1> QED BY <1>1, <1>2, <1>3 DEF NoteTyped

(* LEMMA: proposals and checkpoints are only added to. *)
LEMMA NotesGrow ==
  ASSUME NoteInv, NoteTyped, UNCHANGED spec, Len(proposals') >= Len(proposals), Len(proposals') \in Nat,
         DOMAIN cps \subseteq DOMAIN cps', marking' \subseteq DOMAIN cps', children' \in 0..MaxChildren
  PROVE  NoteTyped'
<1>1. Len(proposals) \in Nat BY LenProperties DEF NoteInv, NoteShape
<1>2. 0..Len(proposals) \subseteq 0..Len(proposals') BY <1>1
<1> QED BY <1>2 DEF NoteTyped

(* LEMMA: every step keeps the specification, the marks and the children so. *)
LEMMA NoteTypedStep ==
  ASSUME NoteInv, NoteTyped, [NotebookNext]_noteVars
  PROVE  NoteTyped'
<1>a. proposals \in Seq(Proposals) /\ cps \in Seq(Checkpoints) /\ Len(proposals) \in Nat
      /\ DOMAIN proposals = 1..Len(proposals)
  BY LenProperties DEF NoteInv, NoteShape
<1>b. marking \subseteq DOMAIN cps /\ children \in 0..MaxChildren /\ Len(proposals) >= Len(proposals)
  BY <1>a DEF NoteTyped
<1>1. ASSUME UNCHANGED <<spec, proposals, cps>>, marking' \subseteq marking, children' \in 0..MaxChildren
      PROVE  NoteTyped'
  BY <1>1, <1>a, <1>b, NotesGrow
<1>2. CASE MaterializeSpec
  <2>1. spec' = [spec EXCEPT !.version = 1] /\ UNCHANGED <<proposals, cps, marking, children>>
    BY <1>2 DEF MaterializeSpec
  <2>2. DOMAIN spec' = {"version", "fields"} /\ spec'.version = 1 /\ spec'.fields = spec.fields
    BY <2>1 DEF NoteTyped
  <2> QED BY <2>1, <2>2 DEF NoteTyped
<1>3. CASE DaemonKilled BY <1>1, <1>3, <1>b DEF DaemonKilled
<1>4. ASSUME NEW ph, AcceptPhase(ph) PROVE NoteTyped'
  <2>1. marking' \subseteq DOMAIN cps /\ UNCHANGED <<spec, proposals, cps, children>>
    BY <1>4, <1>b DEF AcceptPhase
  <2> QED BY <1>a, <1>b, <2>1, NotesGrow
<1>5. ASSUME NEW ph, NEW n, PostCheckpoint(ph, n) PROVE NoteTyped'
  <2>1. PICK v : cps' = Append(cps, v) BY <1>5 DEF PostCheckpoint
  <2>2. DOMAIN cps \subseteq DOMAIN cps' BY <1>a, <2>1
  <2>3. UNCHANGED <<spec, proposals, marking, children>> BY <1>5 DEF PostCheckpoint
  <2> QED BY <1>a, <1>b, <2>2, <2>3, NotesGrow
<1>6. ASSUME NEW c, MarkHistorical(c) PROVE NoteTyped'
  <2>1. DOMAIN cps' = DOMAIN cps /\ marking' \subseteq marking /\ UNCHANGED <<spec, proposals, children>>
    BY <1>6 DEF MarkHistorical
  <2> QED BY <1>a, <1>b, <2>1, NotesGrow
<1>7. ASSUME NEW a, NEW aim, NEW change, ProposeChange(a, aim, change) PROVE NoteTyped'
  <2>1. PICK p : proposals' = Append(proposals, p) BY <1>7 DEF ProposeChange
  <2>2. Len(proposals') = Len(proposals) + 1 BY <1>a, <2>1
  <2>3. UNCHANGED <<spec, cps, marking, children>> BY <1>7 DEF ProposeChange
  <2> QED BY <1>a, <1>b, <2>2, <2>3, NotesGrow
<1>8. ASSUME NEW a, NEW b, HelperEnds(a, b) \/ PostVerdict(a) PROVE NoteTyped'
  <2>1. DOMAIN proposals' = DOMAIN proposals /\ UNCHANGED <<spec, cps, marking, children>>
    BY <1>8 DEF HelperEnds, PostVerdict
  <2>2. NoteInv' BY NoteStep
  <2>3. Len(proposals') \in Nat /\ DOMAIN proposals' = 1..Len(proposals')
    BY <2>2, LenProperties DEF NoteInv, NoteShape
  <2>4. Len(proposals') = Len(proposals) BY <1>a, <2>1, <2>3
  <2> QED BY <1>a, <1>b, <2>1, <2>4, NotesGrow
<1>9. ASSUME NEW a, NEW p, NEW verdict, NEW c, NEW i, BeginResolve(a, p, verdict) \/ BeginPromote(a, c, i) \/ ReadItems(a)
      PROVE  NoteTyped'
  BY <1>1, <1>9, <1>b DEF BeginResolve, BeginPromote, ReadItems
<1>10. ASSUME NEW a \in Authors, NEW valid, ApplySpecChange(a, valid) PROVE NoteTyped'
  <2>1. UNCHANGED <<proposals, cps, marking, children>> BY <1>10 DEF ApplySpecChange
  <2>2. CASE spec' = spec BY <1>1, <1>b, <2>1, <2>2
  <2>3. CASE spec' # spec
    <3>1. PICK n, ch : n = deal[a].n /\ ch = proposals[deal[a].n].change OBVIOUS
    <3>2. deal[a].at = "apply" /\ spec' = SavedSpec(ch, n) BY <1>10, <2>3, <3>1 DEF ApplySpecChange
    <3>3. n \in DOMAIN proposals BY <3>1, <3>2 DEF NoteInv, DealsSound, DealSound
    <3>4. n \in 0..Len(proposals) BY <1>a, <3>3
    <3>5. /\ DOMAIN spec' = {"version", "fields"} /\ spec'.version = spec.version + 1
          /\ \A f \in SpecFields : spec'.fields[f] = n \/ spec'.fields[f] = spec.fields[f]
      BY <3>2 DEF SavedSpec
    <3>6. spec'.version \in Nat BY <3>5 DEF NoteTyped
    <3> QED BY <2>1, <3>4, <3>5, <3>6 DEF NoteTyped
  <2> QED BY <2>2, <2>3
<1>11. ASSUME NEW a, CreateChild(a) PROVE NoteTyped'
  <2>1. children < MaxChildren /\ children' = children + 1 /\ UNCHANGED <<spec, proposals, cps, marking>>
    BY <1>11 DEF CreateChild
  <2>2. children' \in 0..MaxChildren BY <1>b, <2>1, NotebookAssumption
  <2> QED BY <1>1, <2>1, <2>2
<1>12. ASSUME NEW a, MarkPromoted(a) PROVE NoteTyped'
  <2>1. DOMAIN cps' = DOMAIN cps /\ UNCHANGED <<spec, proposals, marking, children>> BY <1>12 DEF MarkPromoted
  <2> QED BY <1>a, <1>b, <2>1, NotesGrow
<1>13. ASSUME NEW a, PostDecision(a) \/ RecordDecision(a) PROVE NoteTyped'
  BY <1>1, <1>13, <1>b DEF PostDecision, RecordDecision
<1>14. CASE BriefNext BY <1>1, <1>14, <1>b DEF BriefNext, RegenerateSpec
<1>15. CASE UNCHANGED noteVars BY <1>1, <1>15, <1>b DEF noteVars
<1>16. CASE ProposalNext
  BY <1>2, <1>3, <1>4, <1>7, <1>8, <1>9, <1>10, <1>16 DEF ProposalNext
<1>17. CASE CheckpointNext
  BY <1>3, <1>4, <1>5, <1>6, <1>9, <1>11, <1>12, <1>13, <1>17 DEF CheckpointNext
<1> QED BY <1>14, <1>15, <1>16, <1>17 DEF NotebookNext

(* THEOREM: a field names the proposal it came from, children and marks are  *)
(* of the thread, and no decision has two files.                             *)
THEOREM NotebookKeepsTypes == NotebookSpec => []NotebookTypeOK
<1>1. NotebookInit => NoteInv /\ RecordsInv /\ NoteTyped BY NoteInit, RecordsStart, NoteTypedStart
<1>2. NoteInv /\ RecordsInv /\ NoteTyped /\ [NotebookNext]_noteVars => (NoteInv /\ RecordsInv /\ NoteTyped)'
  BY NoteStep, RecordsStep, NoteTypedStep
<1>3. NoteInv /\ RecordsInv /\ NoteTyped => NotebookTypeOK
  BY RecordsAreFew DEF NoteTyped, NotebookTypeOK
<1> QED BY <1>1, <1>2, <1>3, PTL DEF NotebookSpec
-----------------------------------------------------------------------------
(* Watchers: with the runs, the tiers and the timer typed by the invariants  *)
(* above, the pulse, the orchestrator, the stall loop and the tickets are.   *)
WatchTyped ==
  /\ orch \in {"down", "starting", "up", "closing"} /\ beat \in 0..Never
  /\ DOMAIN asked \subseteq WatchTickets /\ st \in [WatchTickets -> Statuses]
  /\ tasks \subseteq WatchTickets /\ told \subseteq WatchTickets
  /\ DOMAIN stall = {"at", "last"} /\ stall.at \in {"sleep", "killing"}

(* LEMMA: the watchers start typed. *)
LEMMA WatchTypedStart == WatchersInit => WatchTyped
<1> SUFFICES ASSUME WatchersInit PROVE WatchTyped OBVIOUS
<1>1. Never \in 0..Never BY WatchAssumption DEF Never
<1>2. st \in [WatchTickets -> Statuses] BY DEF WatchersInit, Statuses
<1> QED BY <1>1, <1>2 DEF WatchersInit, WatchTyped

(* LEMMA: whose answers are waited for is updated by a sweep of the tickets. *)
LEMMA WatchedAre ==
  ASSUME WatchTyped, NEW s1, NEW s2
  PROVE  DOMAIN Watched(s1, s2, asked) \subseteq WatchTickets
  BY DEF Watched, WatchTyped

(* LEMMA: what is ready begins and keeps the statuses typed. *)
LEMMA BegunAre ==
  ASSUME NEW s \in [WatchTickets -> Statuses]
  PROVE  /\ BegunNow(s) \in [WatchTickets -> Statuses] /\ SweepOnce(s) \in [WatchTickets -> Statuses]
         /\ Ready(s) \subseteq WatchTickets /\ Candidates(s) \subseteq WatchTickets
  BY DEF BegunNow, SweepOnce, Ready, Candidates, Statuses

(* LEMMA: every step keeps the watchers' state typed. *)
LEMMA WatchTypedStep ==
  ASSUME ToldInv, WatchTyped, [WatchersNext]_watchVars
  PROVE  WatchTyped'
<1>a. clock \in 0..Never BY WatchAssumption DEF ToldInv, Never
<1>1. ASSUME UNCHANGED <<orch, stall, asked, st, tasks, told>>, beat' \in {beat, clock} PROVE WatchTyped'
  BY <1>a, <1>1 DEF WatchTyped, Never
<1>2. ASSUME NEW r, NEW s, StartRun(r) \/ BeginPulse(r) \/ Pulse(r) \/ EndRun(r) \/ StopPulse(r, s) PROVE WatchTyped'
  <2>1. UNCHANGED <<orch, stall, asked, st, tasks, told>> /\ beat' \in {beat, clock}
    BY <1>2 DEF StartRun, BeginPulse, Pulse, EndRun, StopPulse, ticketVars, stuckVars
  <2> QED BY <1>1, <2>1
<1>3. CASE StoreWrites \/ TimePasses
  <2>1. UNCHANGED <<orch, stall, asked, st, tasks, told>> /\ beat' = beat
    BY <1>3 DEF StoreWrites, TimePasses, runVars, ticketVars, stuckVars
  <2> QED BY <1>1, <2>1
<1>4. CASE StallPoll
  <2>1. /\ stall' = [at |-> IF Verdict = "heartbeat_gap" THEN "killing" ELSE "sleep", last |-> clock]
        /\ UNCHANGED <<orch, beat, asked, st, tasks, told>>
    BY <1>4 DEF StallPoll, runVars, ticketVars, stuckVars
  <2>2. DOMAIN stall' = {"at", "last"} /\ stall'.at \in {"sleep", "killing"} BY <2>1
  <2> QED BY <2>1, <2>2 DEF WatchTyped, Never
<1>5. CASE KillScan
  <2>1. stall' = [stall EXCEPT !.at = "sleep"] /\ UNCHANGED <<orch, beat, asked, st, tasks, told>>
    BY <1>5 DEF KillScan, ticketVars, stuckVars
  <2>2. DOMAIN stall' = {"at", "last"} /\ stall'.at = "sleep" BY <2>1 DEF WatchTyped
  <2> QED BY <2>1, <2>2 DEF WatchTyped, Never
<1>6. CASE StartupEnds
  BY <1>6 DEF StartupEnds, runVars, ticketVars, stuckVars, WatchTyped, Never
<1>7. CASE Shutdown \/ EmergencyReset
  <2>1. /\ stall' = [at |-> "sleep", last |-> Never] /\ tasks' = {} /\ orch' \in {"closing", "down"}
        /\ UNCHANGED <<beat, asked, st, told>>
    BY <1>7 DEF Shutdown, EmergencyReset, CancelAll, stuckVars
  <2>2. DOMAIN stall' = {"at", "last"} /\ stall'.at = "sleep" BY <2>1
  <2> QED BY <2>1, <2>2 DEF WatchTyped, Never
<1>8. CASE Reload
  <2>1. /\ orch' \in {"starting", orch} /\ st' = BegunNow(st) /\ asked' = Watched(st, st', asked)
        /\ \/ tasks' = {t \in WatchTickets : st[t] \in {"in_progress", "needs_info"}} \cup Ready(st)
           \/ tasks' = tasks \cup Ready(st)
        /\ UNCHANGED <<beat, stall, told>>
    BY <1>8 DEF Reload, runVars, stuckVars
  <2>2. st' \in [WatchTickets -> Statuses] /\ Ready(st) \subseteq WatchTickets BY <2>1, BegunAre DEF WatchTyped
  <2>3. DOMAIN asked' \subseteq WatchTickets BY <2>1, WatchedAre
  <2>4. tasks' \subseteq WatchTickets BY <2>1, <2>2 DEF WatchTyped
  <2> QED BY <2>1, <2>2, <2>3, <2>4 DEF WatchTyped, Never
<1>9. ASSUME NEW t \in WatchTickets, NEW to \in Statuses, Move(t, to), tasks' \subseteq tasks PROVE WatchTyped'
  <2>1. /\ st' = [st EXCEPT ![t] = to] /\ asked' = Watched(st, st', asked)
        /\ UNCHANGED <<orch, beat, stall, told>>
    BY <1>9 DEF Move, runVars, stuckVars
  <2>2. st' \in [WatchTickets -> Statuses] BY <2>1 DEF WatchTyped
  <2>3. DOMAIN asked' \subseteq WatchTickets BY <2>1, WatchedAre
  <2> QED BY <1>9, <2>1, <2>2, <2>3 DEF WatchTyped, Never
<1>10. ASSUME NEW seen \in Loaded, ReconcileTick(seen) PROVE WatchTyped'
  <2>1. PICK s : s = SweepOnce(seen) OBVIOUS
  <2>2. /\ st' = BegunNow(s) /\ tasks' = tasks \cup Ready(s) /\ asked' = Watched(seen, BegunNow(s), asked)
        /\ CheckStuck(BegunNow(s), tasks') /\ UNCHANGED <<orch, beat, stall>>
    BY <1>10, <2>1 DEF ReconcileTick, runVars
  <2>3. seen \in [WatchTickets -> Statuses] BY DEF Loaded, WatchTyped, Statuses
  <2>4. s \in [WatchTickets -> Statuses] BY <2>1, <2>3, BegunAre
  <2>5. st' \in [WatchTickets -> Statuses] /\ Ready(s) \subseteq WatchTickets BY <2>2, <2>4, BegunAre
  <2>6. Candidates(st') \subseteq WatchTickets BY <2>5, BegunAre
  <2>7. told' \in {told, {}, Candidates(st')} BY <2>2 DEF CheckStuck
  <2>8. DOMAIN asked' \subseteq WatchTickets BY <2>2, WatchedAre
  <2>9. tasks' \subseteq WatchTickets /\ told' \subseteq WatchTickets BY <2>2, <2>5, <2>6, <2>7 DEF WatchTyped
  <2> QED BY <2>2, <2>5, <2>8, <2>9 DEF WatchTyped, Never
<1>11. ASSUME NEW t \in WatchTickets, NEW to \in Statuses, OperatorMoves(t, to) PROVE WatchTyped'
  BY <1>9, <1>11 DEF OperatorMoves
<1>12. ASSUME NEW t \in tasks, NEW to \in Statuses, TaskMoves(t, to) PROVE WatchTyped'
  <2>1. t \in WatchTickets BY DEF WatchTyped
  <2> QED BY <1>9, <1>12, <2>1 DEF TaskMoves
<1>13. CASE UNCHANGED watchVars
  <2>1. UNCHANGED <<orch, stall, asked, st, tasks, told, beat>> BY <1>13 DEF watchVars, runVars, ticketVars, stuckVars
  <2> QED BY <1>1, <2>1
<1>14. CASE StallNext BY <1>2, <1>3, <1>4, <1>5, <1>6, <1>7, <1>8, <1>14 DEF StallNext
<1>15. CASE StuckNext BY <1>3, <1>4, <1>6, <1>8, <1>10, <1>11, <1>12, <1>15 DEF StuckNext
<1> QED BY <1>13, <1>14, <1>15 DEF WatchersNext

(* THEOREM: whatever the watchers see, flights are those of known agents,    *)
(* the tickets waited for, run and announced are known, and every tier is    *)
(* one of the ladder's.                                                      *)
THEOREM WatchersKeepTypes == WatchersSpec => []WatchersTypeOK
<1>1. WatchersInit => LivingInv /\ ToldInv /\ TierInv /\ WatchTyped
  BY LivingInit, ToldInit, TierInitOK, WatchTypedStart
<1>2. LivingInv /\ ToldInv /\ TierInv /\ WatchTyped /\ [WatchersNext]_watchVars
        => (LivingInv /\ ToldInv /\ TierInv /\ WatchTyped)'
  BY LivingStep, ToldStep, TierStep, WatchTypedStep
<1>3. LivingInv /\ ToldInv /\ TierInv /\ WatchTyped => WatchersTypeOK
  BY DEF LivingInv, ToldInv, TierInv, WatchTyped, WatchersTypeOK, RunRecords
<1> QED BY <1>1, <1>2, <1>3, PTL DEF WatchersSpec
-----------------------------------------------------------------------------
(* Measures: the log of the overrides and the commands that write it.        *)
LogSound(log) == \A o \in log : o.low \subseteq o.still
MeasuresTyped ==
  /\ day \in 0..MaxDay /\ shifts \subseteq Sizes \cup UnknownSizes /\ Len(briefing.advice) <= 3
  /\ LogSound(overrides) /\ DOMAIN unblocking = Commands
  /\ \A c \in Commands :
       /\ {"at", "epic", "still", "low", "loaded"} \subseteq DOMAIN unblocking[c]
       /\ unblocking[c].low \subseteq unblocking[c].still /\ LogSound(unblocking[c].loaded)

(* LEMMA: the patterns a briefing may find are finitely many. *)
LEMMA DetectedIsFinite == IsFiniteSet(Detected)
<1>1. \A p, e : IsFiniteSet(Found(p, e)) BY FS_EmptySet, FS_Singleton DEF Found
<1>2. ASSUME NEW n PROVE IsFiniteSet(ModuleEscalations(n))
  <2> DEFINE M == {ModuleOf[t] : t \in DOMAIN ModuleOf}
             E(m) == {i \in OfKind("escalation") : ModuleOf[happened[i].ticket] = m}
             F == [m \in M \ {"none"} |-> IF Cardinality(E(m)) >= n THEN Found("module", E(m)) ELSE {}]
  <2>1. IsFiniteSet(M) BY MeasuresAssumption, FiniteImage
  <2>2. M \ {"none"} \in SUBSET M OBVIOUS
  <2>3. IsFiniteSet(M \ {"none"}) BY <2>1, <2>2, FS_Subset
  <2>4. DOMAIN F = M \ {"none"} OBVIOUS
  <2>5. \A m \in DOMAIN F : IsFiniteSet(F[m]) BY <1>1, FS_EmptySet
  <2>6. ModuleEscalations(n) = UNION {F[m] : m \in DOMAIN F} BY DEF ModuleEscalations
  <2> HIDE DEF F
  <2>7. IsFiniteSet({F[m] : m \in DOMAIN F}) BY <2>3, <2>4, FiniteImage
  <2> QED BY <2>5, <2>6, <2>7, FS_UNION
<1>3. ASSUME NEW n PROVE IsFiniteSet(ReviewerRepeats(n))
  <2> DEFINE W == {x.what : x \in Happenings}
             E(w) == {i \in OfKind("comment") : happened[i].what = w}
             F == [w \in W |-> IF Cardinality(E(w)) >= n THEN Found("reviewer", E(w)) ELSE {}]
  <2>1. PICK g : g = [x \in Happenings |-> x.what] OBVIOUS
  <2>2. DOMAIN g = Happenings /\ W = {g[x] : x \in Happenings} BY <2>1
  <2>3. IsFiniteSet(Happenings) BY MeasuresAssumption
  <2>4. IsFiniteSet(W)
    <3> HIDE DEF W
    <3> QED BY <2>2, <2>3, FiniteImage
  <2>5. DOMAIN F = W OBVIOUS
  <2>6. \A w \in DOMAIN F : IsFiniteSet(F[w]) BY <1>1, FS_EmptySet
  <2>7. ReviewerRepeats(n) = UNION {F[w] : w \in DOMAIN F} BY DEF ReviewerRepeats
  <2> HIDE DEF F, W
  <2>8. IsFiniteSet({F[w] : w \in DOMAIN F}) BY <2>4, <2>5, FiniteImage
  <2> QED BY <2>6, <2>7, <2>8, FS_UNION
<1>4. \A n : IsFiniteSet(StalledTickets(n)) /\ IsFiniteSet(ComplexTickets(n))
  BY <1>1 DEF StalledTickets, ComplexTickets
<1>5. PICK a, b, c, d : Detected = ModuleEscalations(a) \cup ReviewerRepeats(b) \cup StalledTickets(c) \cup ComplexTickets(d)
  BY DEF Detected
<1>6. IsFiniteSet(ModuleEscalations(a) \cup ReviewerRepeats(b)) BY <1>2, <1>3, FS_Union
<1>7. IsFiniteSet(ModuleEscalations(a) \cup ReviewerRepeats(b) \cup StalledTickets(c)) BY <1>4, <1>6, FS_Union
<1> QED BY <1>4, <1>5, <1>7, FS_Union

(* LEMMA: no briefing recommends more than three. *)
LEMMA ThreeAtMost ==
  ASSUME NEW found, IsFiniteSet(found)
  PROVE  Len(Recommended(found)) <= 3
<1>1. Cardinality(found) \in Nat BY FS_CardinalityType
<1>2. PICK m : m = Min({3, Cardinality(found)}) OBVIOUS
<1>3. m \in Nat /\ m <= 3 BY <1>1, <1>2, MinMaxOfTwo
<1>4. \E f : Recommended(found) = [k \in 1..m |-> f[k]] BY <1>2 DEF Recommended
<1>5. PICK f : Recommended(found) = [k \in 1..m |-> f[k]] BY <1>4
<1>6. Len([k \in 1..m |-> f[k]]) = m BY <1>3
<1> QED BY <1>3, <1>5, <1>6

(* LEMMA: the measures start typed. *)
LEMMA MeasuresTypedStart == MeasuresInit => MeasuresTyped
<1> SUFFICES ASSUME MeasuresInit PROVE MeasuresTyped OBVIOUS
<1>1. Len(briefing.advice) = 0 BY DEF MeasuresInit, NoBriefing
<1>2. day \in 0..MaxDay BY MeasuresAssumption DEF MeasuresInit
<1> QED BY <1>1, <1>2 DEF MeasuresInit, MeasuresTyped, LogSound

(* LEMMA: every step keeps the measures typed. *)
LEMMA MeasuresTypedStep ==
  ASSUME MeasuresTyped, [MeasuresNext]_measureVars
  PROVE  MeasuresTyped'
<1>1. ASSUME UNCHANGED <<day, briefing, overrides, unblocking>>, shifts' \subseteq Sizes \cup UnknownSizes
      PROVE  MeasuresTyped'
  BY <1>1 DEF MeasuresTyped, LogSound
<1>2. CASE SampleNext
  <2>1. PICK size \in Sizes \cup UnknownSizes, status \in {"success", "blocked"}, d \in Durations :
          RecordSample(size, status, d)
    BY <1>2 DEF SampleNext
  <2>2. UNCHANGED <<day, briefing, overrides, unblocking>> /\ shifts' \subseteq {size}
    BY <2>1 DEF RecordSample
  <2> QED BY <1>1, <2>2
<1>3. ASSUME NEW useful, NEW noisy, NEW e, RecordFeedback(useful, noisy) \/ Happens(e) PROVE MeasuresTyped'
  <2>1. UNCHANGED <<day, briefing, overrides, unblocking, shifts>> BY <1>3 DEF RecordFeedback, Happens
  <2> QED BY <1>1, <2>1 DEF MeasuresTyped
<1>4. CASE Brief
  <2>1. briefing'.advice = Recommended(Detected) /\ UNCHANGED <<day, shifts, overrides, unblocking>>
    BY <1>4 DEF Brief
  <2>2. Len(briefing'.advice) <= 3 BY <2>1, DetectedIsFinite, ThreeAtMost
  <2> QED BY <2>1, <2>2 DEF MeasuresTyped, LogSound
<1>5. CASE NextDay
  <2>1. day < MaxDay /\ day' = day + 1 /\ UNCHANGED <<shifts, briefing, overrides, unblocking>> BY <1>5 DEF NextDay
  <2>2. day' \in 0..MaxDay BY <2>1, MeasuresAssumption DEF MeasuresTyped
  <2> QED BY <2>1, <2>2 DEF MeasuresTyped, LogSound
<1>6. ASSUME NEW c, NEW epic, NEW bones, BeginUnblock(c, epic, bones) PROVE MeasuresTyped'
  <2>1. PICK still : unblocking' = [unblocking EXCEPT ![c] =
          [at |-> "loaded", epic |-> epic, still |-> still, low |-> still \cap LowRiskEpics, loaded |-> overrides]]
    BY <1>6 DEF BeginUnblock
  <2>2. UNCHANGED <<day, shifts, briefing, overrides>> BY <1>6 DEF BeginUnblock
  <2>3. ASSUME NEW x \in Commands
        PROVE  /\ {"at", "epic", "still", "low", "loaded"} \subseteq DOMAIN unblocking'[x]
               /\ unblocking'[x].low \subseteq unblocking'[x].still /\ LogSound(unblocking'[x].loaded)
    <3>1. CASE x = c BY <2>1, <2>3, <3>1 DEF MeasuresTyped
    <3>2. CASE x # c BY <2>1, <2>3, <3>2 DEF MeasuresTyped
    <3> QED BY <3>1, <3>2
  <2>4. DOMAIN unblocking' = Commands BY <2>1 DEF MeasuresTyped
  <2> QED BY <2>2, <2>3, <2>4 DEF MeasuresTyped, LogSound
<1>7. ASSUME NEW c \in Commands, EndUnblock(c) PROVE MeasuresTyped'
  <2>1. /\ overrides' = unblocking[c].loaded \cup {OverrideOf(c)}
        /\ unblocking' = [unblocking EXCEPT ![c].at = "done"] /\ UNCHANGED <<day, shifts, briefing>>
    BY <1>7 DEF EndUnblock
  <2>2. LogSound(overrides') BY <1>7, <2>1 DEF MeasuresTyped, LogSound, OverrideOf
  <2>3. ASSUME NEW x \in Commands
        PROVE  /\ {"at", "epic", "still", "low", "loaded"} \subseteq DOMAIN unblocking'[x]
               /\ unblocking'[x].low \subseteq unblocking'[x].still /\ LogSound(unblocking'[x].loaded)
    <3>0. x \in DOMAIN unblocking BY DEF MeasuresTyped
    <3>1. PICK u : u = [unblocking[x] EXCEPT !.at = "done"] OBVIOUS
    <3>2. unblocking'[x] = u \/ unblocking'[x] = unblocking[x] BY <2>1, <3>0, <3>1
    <3>3. /\ DOMAIN u = DOMAIN unblocking[x] /\ u.low = unblocking[x].low /\ u.still = unblocking[x].still
          /\ u.loaded = unblocking[x].loaded
      BY <3>0, <3>1 DEF MeasuresTyped
    <3> QED BY <3>0, <3>2, <3>3 DEF MeasuresTyped
  <2>4. DOMAIN unblocking' = Commands BY <2>1 DEF MeasuresTyped
  <2> QED BY <2>1, <2>2, <2>3, <2>4 DEF MeasuresTyped
<1>8. CASE UNCHANGED measureVars
  <2>1. UNCHANGED <<day, briefing, overrides, unblocking, shifts>> BY <1>8 DEF measureVars
  <2> QED BY <1>1, <2>1 DEF MeasuresTyped
<1>9. CASE FeedbackNext BY <1>3, <1>4, <1>5, <1>9 DEF FeedbackNext
<1>10. CASE OverrideNext BY <1>6, <1>7, <1>10 DEF OverrideNext
<1> QED BY <1>2, <1>8, <1>9, <1>10 DEF MeasuresNext

(* THEOREM: a sample's duration is one that was measured, feedback is about   *)
(* known patterns and not of a later day, and no briefing recommends more     *)
(* than three; what an override counts as low risk is among what it passes.   *)
THEOREM MeasuresKeepTypes == MeasuresSpec => []MeasuresTypeOK
<1>1. MeasuresInit => MeasuresInv /\ MeasuresTyped BY MeasuresStart, MeasuresTypedStart
<1>2. MeasuresInv /\ MeasuresTyped /\ [MeasuresNext]_measureVars => (MeasuresInv /\ MeasuresTyped)'
  BY MeasuresStep, MeasuresTypedStep
<1>3. ASSUME MeasuresInv, MeasuresTyped PROVE MeasuresTypeOK
  <2>1. \A i \in DOMAIN samples : samples[i] \in Sampled BY <1>3 DEF MeasuresInv
  <2>2. \A i \in DOMAIN feedback : feedback[i] \in Marked BY <1>3 DEF MeasuresInv
  <2>3. \A i \in DOMAIN samples : samples[i].duration \in Durations BY <2>1 DEF Sampled
  <2>4. \A i \in DOMAIN feedback : feedback[i].patterns \subseteq Patterns BY <2>2 DEF Marked
  <2> QED BY <1>3, <2>3, <2>4 DEF MeasuresInv, MeasuresTyped, LogSound, MeasuresTypeOK
<1> QED BY <1>1, <1>2, <1>3, PTL DEF MeasuresSpec
-----------------------------------------------------------------------------
(* The suite: its parts move one at a time. *)

(* LEMMA: every part starts as it starts alone. *)
LEMMA PartsStart ==
  OversightInit => /\ DeskInit /\ SessionInit /\ OperatorInit /\ DevInit /\ HostInit
                   /\ GitInit /\ HooksInit /\ NotebookInit /\ WatchersInit /\ FedInit /\ CheckInit
                   /\ MeasuresInit
  BY DEF OversightInit

(* LEMMA: a step of the suite is a step of a part, or leaves it alone. *)
LEMMA PartsStep ==
  ASSUME [OversightNext]_oversightVars
  PROVE  /\ [DeskNext]_deskVars /\ [SessionNext]_sesVars /\ [OperatorNext]_opVars
         /\ [DevNext]_devVars /\ [HostNext]_hostVars /\ [GitNext]_gitVars
         /\ [HooksNext]_hookVars /\ [NotebookNext]_noteVars /\ [WatchersNext]_watchVars
         /\ [FedNext]_fedVars /\ [CheckNext]_checkVars /\ [MeasuresNext]_measureVars
  BY DEF OversightNext, oversightVars, NotebookNext, WatchersNext, MeasuresNext

(* LEMMA: the suite's behaviours are behaviours of each part. *)
LEMMA PartsRun ==
  OversightSpec => /\ DeskSpec /\ SessionSpec /\ OperatorSpec /\ DevSpec /\ HostSpec
                   /\ GitSpec /\ HooksSpec /\ NotebookSpec /\ WatchersSpec /\ FedSpec /\ CheckSpec
                   /\ MeasuresSpec
  BY PartsStart, PartsStep, PTL DEF OversightSpec, DeskSpec, SessionSpec, OperatorSpec, DevSpec,
     HostSpec, GitSpec, HooksSpec, NotebookSpec, WatchersSpec, FedSpec, CheckSpec, MeasuresSpec

(* THEOREM: what several processes or agents use at once belongs to one at a *)
(* time or is kept apart.                                                     *)
THEOREM SuiteSharesSafely == OversightSpec => []SharedSafely
<1>1. KeysUnique /\ WritesInScope /\ DatabaseStaysMine /\ OneDaemon /\ MergesAreTheirOwn
        /\ LockedSectionsFixed /\ TierNeverDrops => SharedSafely
  BY DEF SharedSafely
<1> QED BY <1>1, PartsRun, DeskKeysUnique, SessionWritesInScope, DatabasesKept, HostOneDaemon,
           GitMergesOwn, LocksHold, TierKept, PTL

(* THEOREM: what was set up for an agent is gone when its run is over, and   *)
(* what must outlive a failure is still there.                               *)
THEOREM SuiteLeavesNothing == OversightSpec => []NothingLeftBehind
<1>1. EndsClean /\ MergedIsOnBase /\ OwnHooksKept /\ PromptStaysAnswerable /\ NotesKept => NothingLeftBehind
  BY DEF NothingLeftBehind
<1> QED BY <1>1, PartsRun, SessionEndsClean, GitKeepsMerged, HooksKeepOwn, OperatorStaysAnswerable,
           NotebookKeeps, PTL

(* THEOREM: no gate lets through what has not been checked, and no round     *)
(* passes over a finding of its own.                                          *)
THEOREM SuiteGatesHold == OversightSpec => []GatesHold
<1>1. FreshFindingsBlock /\ AckNamesItsFinding /\ PassMeansChecked => GatesHold BY DEF GatesHold
<1> QED BY <1>1, PartsRun, FreshBlock, AcksKeepTheirFinding, PassedIsChecked, PTL

(* THEOREM: the watchdogs and the measures say what is so, whatever project  *)
(* they watch.                                                                *)
THEOREM SuiteWatchersTell == OversightSpec => []WatchersTell
<1>1. OnlyTheLivingAreWatched /\ StuckIsTold /\ MeasuresSane => WatchersTell BY DEF WatchersTell
<1> QED BY <1>1, PartsRun, WatchOnlyTheLiving, StuckProjectsTold, MeasuresAreSane, PTL

(* THEOREM: whatever each part does, the variables of all of them keep their *)
(* types.                                                                    *)
THEOREM SuiteTyped == OversightSpec => []OversightTypeOK
<1>1. FedTypeOK /\ DeskTypeOK /\ SessionTypeOK /\ OperatorTypeOK /\ DevTypeOK /\ HostTypeOK
        /\ GitTypeOK /\ HooksTypeOK /\ CheckTypeOK /\ NotebookTypeOK /\ WatchersTypeOK /\ MeasuresTypeOK
        => OversightTypeOK
  BY DEF OversightTypeOK
<1> QED BY <1>1, PartsRun, FedKeepsTypes, DeskKeepsTypes, SessionKeepsTypes, OperatorKeepsTypes, DevKeepsTypes,
           HostKeepsTypes, GitKeepsTypes, HooksKeepTypes, CheckKeepsTypes, NotebookKeepsTypes,
           WatchersKeepTypes, MeasuresKeepTypes, PTL
=============================================================================
