----------------------------- MODULE MCOversight -----------------------------
(* The machinery around the tickets: the front doors, the agents' sessions,   *)
(* the reviewers.  The parts share no state: one of them, picked at the start,*)
(* moves.                                                                     *)
EXTENDS Federation, TicketDesk, AgentSession, Operator, DevEnv, Host, Worktrees, GitHooks,
        CheckRuns, Notebook, Watchers, Measures, TLC

VARIABLE pick
oversightVars == <<fedVars, deskVars, sesVars, opVars, devVars, hostVars, gitVars,
                    hookVars, checkVars, noteVars, watchVars, measureVars, pick>>

TheDoors == [d |-> "agents", c |-> "cli", b |-> "mcp"]
TwoTexts == {<<"criteria", "prose", "bullet">>, <<"criteria", "heading", "bullet">>}
NoCaps == [deny |-> {}, writable |-> {}, readable |-> {}, denied |-> {}]
TwoAgentRoles ==
  [dev |-> [allowed |-> {"Bash", "arch_get_field", "reviewer_read_file"}, strict |-> FALSE,
            cross |-> FALSE, judges |-> FALSE, installs |-> TRUE,
            caps |-> [NoCaps EXCEPT !.deny = {"rm"}], phaseCaps |-> NoCaps,
            required |-> {<<"ticket", "design">>, <<"project", "spec">>},
            reads |-> {<<"src", "**">>}, exclude |-> {<<"**", "test">>}],
   pm |-> [allowed |-> {"update_ticket"}, strict |-> TRUE, cross |-> TRUE, judges |-> TRUE,
           installs |-> FALSE, caps |-> NoCaps,
           phaseCaps |-> [NoCaps EXCEPT !.denied = {"src"}],
           required |-> {}, reads |-> {}, exclude |-> {}]]
ALink == <<"src", "link">> :> <<"src", "test">>
SomePaths == {<<"src", "link">>, <<"src", "a">>}

Sqlite == [id |-> "db", provisioned |-> TRUE, kind |-> "sqlite", strategy |-> "per_agent_ephemeral",
           perAgent |-> TRUE, url |-> "", onSuccess |-> "drop", onFailure |-> "archive"]
Given == [id |-> "ext", provisioned |-> TRUE, kind |-> "s3", strategy |-> "operator_supplied",
          perAgent |-> TRUE, url |-> "", onSuccess |-> "keep", onFailure |-> "keep"]
Postgres == [id |-> "pg", provisioned |-> TRUE, kind |-> "postgres", strategy |-> "shared_namespaced",
             perAgent |-> TRUE, url |-> "u", onSuccess |-> "drop", onFailure |-> "archive"]
Unused == [Sqlite EXCEPT !.id = "no", !.provisioned = FALSE]
TwoArchitectures == {<<Sqlite, Unused, Postgres>>, <<[Sqlite EXCEPT !.onFailure = "keep"], Given>>}
ASpike == [t1 |-> "spike"]
Deps == [a |-> {}, b |-> {"a"}]
Over == {{"a", "b"}, {"a", "operator"}}
TwoHooks == <<"pre-commit", "pre-push">>
SomeChecks == [unit |-> [scripted |-> TRUE, required |-> TRUE, eligible |-> TRUE]]

ATest(result, baseline) == [changed |-> TRUE, baseline |-> baseline, result |-> result]
AFile(tests) == [path |-> "test", readable |-> TRUE, parses |-> TRUE, tests |-> tests]
\* A commit that fails the red check; the first commit, without tests, passes.
OneChange == {{AFile({ATest("passed", FALSE), ATest("failed", TRUE)})}}
Uri(scheme) == [scheme |-> scheme, name |-> "x"]
TheCatalog ==
  [tests |-> [type |-> "red", severity |-> "required", context |-> {}, excluded |-> {}],
   judge |-> [type |-> "blackbox", severity |-> "required", context |-> {Uri("repo"), Uri("ticket")},
              excluded |-> {Uri("repo")}]]
Evaluator(kind, role) == [kind |-> kind, role |-> role]
TwoPhases ==
  <<[role |-> "test", checks |-> <<"tests">>, evaluator |-> <<Evaluator("automated", "")>>],
    [role |-> "dev", checks |-> <<"judge", "tests">>,
     evaluator |-> <<Evaluator("previous", "test"), Evaluator("role", "test")>>]>>
OneLock == [goal |-> "design"]
Routes == [goal |-> "human_with_helper"]
BriefCap(id, aliases, section) == [id |-> id, aliases |-> aliases, section |-> section]
ThreeBriefs ==
  {{BriefCap("a", {}, "built")}, {BriefCap("b", {"a"}, "backlog"), BriefCap("c", {}, "backlog")},
   {BriefCap("c", {}, "archived")}}
ThreeKeys == [w \in {"w1", "w2", "w3"} |-> [ticket |-> "u1", role |-> IF w = "w3" THEN "sa" ELSE "dev"]]
Waits == [u1 |-> {}, u2 |-> {"u1"}]
Small == [S |-> [median |-> 10, p90 |-> 20]]
FourThresholds == [module |-> 2, reviewer |-> 2, stalled |-> 1, complex |-> 2]
Happening(k, t, w) == [kind |-> k, ticket |-> t, what |-> w]
SixHappenings ==
  {Happening("state", "t1", "in_progress"), Happening("state", "t1", "resolved"),
   Happening("state", "t2", "failed"), Happening("escalation", "t1", "stuck"),
   Happening("comment", "t2", "naming"), Happening("impact", "t1", "wide")}
OneModule == [t1 |-> "m", t2 |-> "none"]
Wide == [wide |-> 3]
TwoEpics == [e1 |-> {"done", "active"}, e2 |-> {"empty", "active"}]

\* What the smaller picks leave out.
OneTerminal == CHOOSE c \in Terminals : TRUE
OneReviewer == CHOOSE r \in Reviewers : TRUE
OneSpawn == CHOOSE x \in Spawns : TRUE
OneAuthor == CHOOSE n \in Authors : TRUE
OneDevRun == CHOOSE a \in DevRuns : TRUE
OneId == CHOOSE x \in TicketIds : TRUE
Taken(x) == x \in DOMAIN disk \/ \E p \in Desks : request[p] # NoRequest /\ request[p].id = x

OversightInit ==
  /\ pick \in {"rounds", "acks", "desk", "session", "tasks", "dialogs", "screen", "dev", "daemons",
                "crashes", "git", "hooks", "checks", "proposals", "checkpoints", "briefs",
                "agents", "roles", "stuck", "samples", "window", "marks", "overrides"}
  /\ FedInit /\ DeskInit /\ SessionInit /\ OperatorInit /\ DevInit /\ HostInit /\ GitInit /\
     HooksInit /\ CheckInit /\ NotebookInit /\ WatchersInit /\ MeasuresInit
  /\ pick = "git" \/ strategy = "squash"
  /\ pick = "stuck" \/ st = [t \in WatchTickets |-> "in_progress"]
  /\ pick \in {"agents", "roles", "stuck"} \/ orch = "starting"
OversightNext ==
  /\ UNCHANGED pick
  /\ \/ /\ \/ /\ pick = "rounds" /\ FedNext /\ UNCHANGED acks /\ round'.mech = {}
              /\ \A i \in DOMAIN comments' :
                   comments'[i].rv # OneReviewer => comments'[i].sev = "critical"
           \/ /\ pick = "acks" /\ FedNext /\ (round'.mech # {} => round'.n = 1)
              /\ \A i \in DOMAIN comments' :
                   comments'[i].sev = "critical" /\ (comments'[i].rv = OneReviewer) = (i = 1)
        /\ UNCHANGED <<deskVars, sesVars, opVars, devVars, hostVars, gitVars, hookVars,
           checkVars, noteVars, watchVars, measureVars>>
     \/ /\ pick = "desk" /\ DeskNext
        /\ (Taken(OneId)' => Taken(OneId) \/ \E x \in TicketIds \ {OneId} : Taken(x))
        /\ UNCHANGED <<fedVars, sesVars, opVars, devVars,
           hostVars, gitVars, hookVars, checkVars, noteVars, watchVars, measureVars>>
     \/ /\ pick = "session" /\ SessionNext /\ ses'[OneSpawn].ticket # "t2" /\ ses'[OneSpawn].role # "pm"
        /\ UNCHANGED <<fedVars, deskVars, opVars,
           devVars, hostVars, gitVars, hookVars, checkVars, noteVars, watchVars,
           measureVars>>
     \/ /\ \/ pick = "tasks" /\ OperatorNext /\ (\A a \in Dialogs : asker'[a] = asker[a])
           \/ pick = "dialogs" /\ OperatorNext /\ UNCHANGED paused
           \/ pick = "screen" /\ OperatorNext /\ (\A c \in Terminals \ {OneTerminal} : NotLinked(c)')
        /\ UNCHANGED <<fedVars, deskVars, sesVars, devVars, hostVars, gitVars, hookVars,
           checkVars, noteVars, watchVars, measureVars>>
     \/ /\ pick = "dev" /\ DevNext
        /\ (\A a \in DevRuns : agent'[a].role # IF a = OneDevRun THEN "qa" ELSE "dev")
        /\ UNCHANGED <<fedVars, deskVars, sesVars, opVars,
           hostVars, gitVars, hookVars, checkVars, noteVars, watchVars, measureVars>>
     \/ /\ \/ pick = "daemons" /\ HostNext /\ UNCHANGED hostFaults
                               /\ (\A o \in Operators : ~hop'[o].docker /\ hop'[o].at \notin {"wipe", "tidy"})
           \/ pick = "crashes" /\ HostNext /\ Len(proc') < MaxDaemons
                                /\ (\A d \in DOMAIN proc' : proc'[d].kind # "foreground")
        /\ UNCHANGED <<fedVars, deskVars, sesVars, opVars, devVars, gitVars, hookVars,
           checkVars, noteVars, watchVars, measureVars>>
     \/ /\ pick = "git" /\ GitNext /\ UNCHANGED <<fedVars, deskVars, sesVars, opVars,
           devVars, hostVars, hookVars, checkVars, noteVars, watchVars, measureVars>>
     \/ /\ pick = "hooks" /\ HooksNext /\ UNCHANGED <<fedVars, deskVars, sesVars, opVars,
           devVars, hostVars, gitVars, checkVars, noteVars, watchVars, measureVars>>
     \/ /\ pick = "checks" /\ CheckNext /\ UNCHANGED <<fedVars, deskVars, sesVars, opVars,
           devVars, hostVars, gitVars, hookVars, noteVars, watchVars, measureVars>>
     \/ /\ \/ pick = "proposals" /\ ProposalNext
                                 /\ (\A i \in DOMAIN proposals' : i = 1 => proposals'[i].author = OneAuthor)
           \/ pick = "checkpoints" /\ CheckpointNext
           \/ pick = "briefs" /\ BriefNext
        /\ UNCHANGED <<fedVars, deskVars, sesVars, opVars, devVars, hostVars, gitVars,
           hookVars, checkVars, watchVars, measureVars>>
     \/ /\ \/ pick = "agents" /\ StallNext /\ run'["w3"] = run["w3"]
           \/ pick = "roles" /\ StallNext /\ run'["w2"] = run["w2"]
           \/ pick = "stuck" /\ StuckNext
        /\ UNCHANGED <<fedVars, deskVars, sesVars, opVars, devVars, hostVars, gitVars,
           hookVars, checkVars, noteVars, measureVars>>
     \/ /\ \/ pick = "samples" /\ SampleNext
           \/ pick = "window" /\ FeedbackNext /\ Len(feedback') < 2
           \/ pick = "marks" /\ FeedbackNext /\ Len(happened') < 2
           \/ pick = "overrides" /\ OverrideNext
        /\ UNCHANGED <<fedVars, deskVars, sesVars, opVars, devVars, hostVars, gitVars,
           hookVars, checkVars, noteVars, watchVars>>
OversightSpec == OversightInit /\ [][OversightNext]_oversightVars

\* Every part's variables keep their types.
OversightTypeOK ==
  /\ FedTypeOK /\ DeskTypeOK /\ SessionTypeOK /\ OperatorTypeOK
  /\ DevTypeOK /\ HostTypeOK /\ GitTypeOK /\ HooksTypeOK
  /\ CheckTypeOK /\ NotebookTypeOK /\ WatchersTypeOK /\ MeasuresTypeOK

\* What a gate lets through was looked at: a blocking finding of a dispatch that
\* came to its end blocks the review, but where a reviewer repeats itself in a
\* cycle of the same number and where _run_review_phase_federation takes a round
\* whose reviewers failed for a clean pass; an acknowledgement names the finding
\* it was made for; and a handoff passes only over required checks that passed,
\* or were waived, for its commit.
GatesHold == FreshFindingsBlock /\ AckNamesItsFinding /\ PassMeansChecked

\* What several processes or agents use at once belongs to one at a time or is
\* kept apart: no two tickets share a key, no agent's write reaches a ticket
\* that is not its own or takes another agent's database; of the
\* daemons whose start had the pid and container files to itself at most one is
\* alive; a merge commits, beyond its ticket's work, only what the operator staged
\* while it was under way; a locked section of the specification stays as
\* approved, and agents of one ticket that end together never lower its tier.
SharedSafely ==
  /\ KeysUnique /\ WritesInScope /\ DatabaseStaysMine /\ OneDaemon
  /\ MergesAreTheirOwn /\ LockedSectionsFixed /\ TierNeverDrops

\* What was set up for an agent is gone when its run is over, but for what a
\* failed set-up leaves, and what must outlive a failure is still there: the
\* merged work the operator did not throw out himself, the operator's own hooks,
\* the prompt an agent waits on, checkpoints and the brief's capabilities.
NothingLeftBehind ==
  /\ EndsClean /\ MergedIsOnBase /\ OwnHooksKept /\ PromptStaysAnswerable /\ NotesKept

\* The watchdogs and the measures say what is so: only agents that still run are
\* watched, a project that stays stuck is announced, once; envelopes and
\* thresholds made from any history stay within what they summarise.
WatchersTell == OnlyTheLivingAreWatched /\ StuckIsTold /\ MeasuresSane
==============================================================================
