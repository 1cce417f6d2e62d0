----------------------------- MODULE Federation -----------------------------
(***************************************************************************)
(* The review federation on one ticket: a round spawns the reviewers, each  *)
(* of which posts comments to a store that only grows; when all have ended  *)
(* the orchestrator takes what is new, files the notable ones as issues,    *)
(* drops what is out of scope or was dismissed, and passes or blocks the    *)
(* phase.  Between the rounds the developer, and during them the reviewers, *)
(* acknowledge findings by the number RC-n, which is nowhere stored: it is  *)
(* computed from the order in which the findings first appeared.            *)
(*                                                                          *)
(* What a reviewer is shown (diff base, metrics, earlier findings) is left  *)
(* out: its comments are arbitrary.  The type, file and prose of a comment  *)
(* are one anchor.  asyncio.gather raises at the first reviewer that fails  *)
(* and leaves the others running.                                           *)
(***************************************************************************)
EXTENDS Naturals, Sequences, FiniteSets, SequencesExt

CONSTANTS
  Reviewers,     \* the reviewers spawned as agents
  Anchors,       \* the places and texts a comment can be about
  OutOfScope,    \* the pairs of reviewer and anchor outside its reads_glob
  Passes,        \* review_passes of the phase, for its first round
  MaxComments,   \* bound: comments in the store
  MaxAcks,       \* bound: acknowledgements the agents write
  MaxRounds      \* bound: rounds, each with the retry it may need

ASSUME FederationAssumption == Passes \in Nat \ {0} /\ {MaxComments, MaxRounds} \subseteq Nat

VARIABLES
  comments,   \* review_comments.jsonl
  acks,       \* finding_acks.jsonl
  round,      \* the round in progress, and the result of the last one
  cyc,        \* the fix-loop cycle of the task; a restart begins at 0 again
  working,    \* the reviewer agents that run, with their round and cycle
  filed,      \* the signatures filed as proposed issues
  ticket,     \* what the gate on resolution did to the ticket
  rounds

fedVars == <<comments, acks, round, cyc, working, filed, ticket, rounds>>

Severities == {"critical", "important", "notable"}
BlockingSev == {"critical", "important"}
NoRound == [at |-> "idle", kind |-> "phase", n |-> 0, pass |-> 0, start |-> 0, pre |-> {},
            mech |-> {}, got |-> {}, tries |-> 0, result |-> "none"]

-----------------------------------------------------------------------------
(* Identities. *)

\* _comment_signature: what tells a new row from an old one.
CommentSignature(c) == <<c.rv, c.at, c.cycle>>

\* signature_of: the same finding in whatever cycle.
SignatureOf(c) == <<c.rv, c.at>>

(* Mutant of NumberedFrom: the numbers start anew with each cycle. *)
LatestCycleOnly(cs) ==
  {i \in DOMAIN cs : \A j \in DOMAIN cs : cs[j].cycle <= cs[i].cycle}
\* The comments compute_finding_ids is given: all of the ticket, in order.
NumberedFrom(cs) == DOMAIN cs

\* The number of a finding: how many were first seen up to it.
FirstSeen(cs, i) ==
  \A j \in NumberedFrom(cs) : j < i => SignatureOf(cs[j]) # SignatureOf(cs[i])
ComputeFindingIds(cs) ==
  LET firsts == {i \in NumberedFrom(cs) : FirstSeen(cs, i)}
      id(i) == Cardinality({j \in firsts : j <= i})
  IN  {[fid |-> id(i), sig |-> SignatureOf(cs[i])] : i \in firsts}
FindById(cs, fid) == {x.sig : x \in {y \in ComputeFindingIds(cs) : y.fid = fid}}

-----------------------------------------------------------------------------
(* A round. *)

Free == round.at = "idle" /\ rounds < MaxRounds

\* _run_review_phase_federation, and the gate on resolution, which always
\* works with cycle 0 and is given a ticket that is resolved.
StartRound(kind) ==
  /\ Free
  /\ round' = [NoRound EXCEPT !.at = "dispatch", !.kind = kind, !.n = rounds + 1,
                              !.start = Len(comments)]
  /\ rounds' = rounds + 1
  /\ ticket' = IF kind = "final" THEN "resolved" ELSE ticket
  /\ UNCHANGED <<comments, acks, cyc, working, filed>>

\* Which of its dispatches a round is at: a pass of a phase, a try of the gate.
Turn == round.pass + round.tries
RoundCycle == IF round.kind = "phase" THEN cyc ELSE 0
PassesDue == IF round.kind = "phase" /\ cyc = 0 THEN Passes ELSE 1

\* dispatch_with_llm_spawn: the mechanical reviewers answer at once and their
\* comments are not stored; the rows that exist are remembered.
DispatchReviewers(mechanical) ==
  /\ round.at = "dispatch"
  /\ round' = [round EXCEPT !.at = "gather", !.mech = mechanical,
                 !.pre = {CommentSignature(comments[i]) : i \in DOMAIN comments}]
  /\ working' = working \cup
       {[rv |-> r, n |-> round.n, turn |-> Turn, cycle |-> RoundCycle] : r \in Reviewers}
  /\ UNCHANGED <<comments, acks, cyc, filed, ticket, rounds>>

\* handle_reviewer_post_comment: the session's cycle overrides the agent's.
\* A comment the schema or the self-check refuses leaves nothing.
ReviewerPostComment(w, a, sev) ==
  /\ w \in working /\ Len(comments) < MaxComments
  /\ comments' = Append(comments, [rv |-> w.rv, at |-> a, sev |-> sev, cycle |-> w.cycle,
                                   n |-> w.n, turn |-> w.turn])
  /\ UNCHANGED <<acks, round, cyc, working, filed, ticket, rounds>>

ReviewerEnds(w) ==
  /\ w \in working /\ working' = working \ {w}
  /\ UNCHANGED <<comments, acks, round, cyc, filed, ticket, rounds>>

\* The agents the gather waits for.
InRound(w) == w.n = round.n /\ w.turn = Turn

\* After the gather: the new rows of the reviewers spawned.
Collected ==
  {comments[i] : i \in {k \in DOMAIN comments :
     CommentSignature(comments[k]) \notin round.pre /\ comments[k].rv \in Reviewers}}

(* Mutant of Gathered: the findings of the earlier passes are forgotten. *)
LastPassOnly == round.mech \cup Collected
\* all_comments, which grows from pass to pass.
Gathered == round.got \cup round.mech \cup Collected
EndPass ==
  /\ round.at = "gather" /\ {w \in working : InRound(w)} = {}
  /\ round' = [round EXCEPT !.got = Gathered, !.mech = {}, !.pass = @ + 1,
                 !.at = IF round.pass + 1 < PassesDue THEN "dispatch" ELSE "judge"]
  /\ UNCHANGED <<comments, acks, cyc, working, filed, ticket, rounds>>

\* A reviewer fails.  A phase goes on with the comments of its earlier
\* passes, and passes when there are none; the gate tries once more.
ReviewerFails(w) ==
  /\ round.at = "gather" /\ w \in working /\ InRound(w)
  /\ working' = working \ {w}
  /\ round' = CASE round.kind = "final" /\ round.tries = 0 ->
                     [round EXCEPT !.at = "dispatch", !.tries = 1, !.got = {}]
                [] round.kind = "final" /\ round.tries = 1 ->
                     [round EXCEPT !.at = "idle", !.result = "error"]
                [] round.kind = "phase" /\ round.pass > 0 /\ round.got # {} ->
                     [round EXCEPT !.at = "judge", !.tries = 1]
                [] OTHER -> [round EXCEPT !.at = "idle", !.result = "unreviewed"]
  /\ ticket' = IF round'.result = "error" THEN "failed" ELSE ticket
  /\ UNCHANGED <<comments, acks, cyc, filed, rounds>>

\* compute_reraised_acks: what was posted before this round, is posted again
\* and no reviewer has called resolved.
Prior == SubSeq(comments, 1, round.start)
Reraised ==
  LET again == {SignatureOf(c) : c \in round.got}
                 \cap {SignatureOf(Prior[i]) : i \in DOMAIN Prior}
      settled == {acks[i].fid : i \in {k \in DOMAIN acks : acks[k].kind = "resolved"}}
  IN  {x \in ComputeFindingIds(comments) : x.sig \in again /\ x.fid \notin settled}
Ack(x, kind) == [fid |-> x.fid, kind |-> kind, cycle |-> RoundCycle, meant |-> x.sig]

Dismissed == {acks[i].meant : i \in {k \in DOMAIN acks : acks[k].kind = "dismissed"}}
InScope(c) == SignatureOf(c) \notin OutOfScope
BlockingNow == {c \in round.got : c.sev \in BlockingSev /\ InScope(c)
                                  /\ SignatureOf(c) \notin Dismissed}

\* _file_notable_issues, once per signature.
FileNotables == filed' = filed \cup {SignatureOf(c) : c \in {d \in round.got :
                                       d.sev = "notable" /\ InScope(d)}}

JudgePhase ==
  /\ round.at = "judge" /\ round.kind = "phase"
  /\ acks' = acks \o SetToSeq({Ack(x, "reraised") : x \in Reraised})
  /\ FileNotables
  /\ round' = [round EXCEPT !.at = "idle",
                            !.result = IF BlockingNow = {} THEN "passed" ELSE "blocked"]
  /\ cyc' = IF BlockingNow = {} THEN 0 ELSE cyc + 1
  /\ UNCHANGED <<comments, working, ticket, rounds>>

\* apply_severity_disposition and the notes that follow: a critical comment
\* fails the ticket, an important one alone blocks it.
JudgeFinal ==
  /\ round.at = "judge" /\ round.kind = "final"
  /\ FileNotables
  /\ LET has(s) == \E c \in round.got : c.sev = s
     IN  ticket' = CASE has("critical") -> "failed" [] has("important") /\ ~has("critical") -> "blocked"
                     [] OTHER -> ticket
  /\ round' = [round EXCEPT !.at = "idle",
                            !.result = IF ticket' = ticket THEN "passed" ELSE "blocked"]
  /\ UNCHANGED <<comments, acks, cyc, working, rounds>>

-----------------------------------------------------------------------------
(* Acknowledgements. *)

\* _write_ack: an unknown number is refused, the same acknowledgement is
\* written once.
WriteAck(x, kind) ==
  /\ Len(acks) < MaxAcks /\ x \in ComputeFindingIds(comments)
  /\ Ack(x, kind) \notin {acks[i] : i \in DOMAIN acks}
  /\ acks' = Append(acks, Ack(x, kind))
  /\ UNCHANGED <<comments, round, cyc, working, filed, ticket, rounds>>
\* "addressed" stands for the developer's "reject" too.
MarkFindingAddressed(x) == round.at = "idle" /\ WriteAck(x, "addressed")
MarkFindingResolved(x) == working # {} /\ WriteAck(x, "resolved")
\* The architect's verdict that a finding does not hold.
DismissFinding(x) == round.at = "idle" /\ round.result = "blocked" /\ WriteAck(x, "dismissed")

\* The process dies and the ticket is taken up again: agents and round are
\* gone, the cycle begins at 0.
FedRestart ==
  /\ round.at # "idle"
  /\ round' = [NoRound EXCEPT !.n = round.n] /\ cyc' = 0 /\ working' = {}
  /\ UNCHANGED <<comments, acks, filed, ticket, rounds>>

-----------------------------------------------------------------------------
FedInit ==
  /\ comments = <<>> /\ acks = <<>> /\ round = NoRound /\ cyc = 0 /\ working = {}
  /\ filed = {} /\ ticket = "resolved" /\ rounds = 0

\* What mechanical reviewers may find: nothing, or one contract violation.
Mechanical == {{}, {[rv |-> "mechanical", at |-> "contract", sev |-> "critical",
                     cycle |-> RoundCycle, n |-> 0, turn |-> 0]}}

FedNext ==
  \/ \E kind \in {"phase", "final"} : StartRound(kind)
  \/ \E m \in Mechanical : DispatchReviewers(m)
  \/ \E w \in working :
       \/ ReviewerEnds(w) \/ ReviewerFails(w)
       \/ \E a \in Anchors, sev \in {"critical", "notable"} : ReviewerPostComment(w, a, sev)
  \/ EndPass \/ JudgePhase \/ JudgeFinal \/ FedRestart
  \/ \E x \in ComputeFindingIds(comments) :
       \/ MarkFindingAddressed(x) \/ MarkFindingResolved(x) \/ DismissFinding(x)

FedSpec == FedInit /\ [][FedNext]_fedVars

FedTypeOK ==
  /\ Len(comments) <= MaxComments /\ rounds \in 0..MaxRounds
  /\ \A i \in DOMAIN comments : comments[i].rv \in Reviewers /\ comments[i].sev \in Severities
  /\ round.at \in {"idle", "dispatch", "gather", "judge"}
  /\ round.result \in {"none", "passed", "blocked", "unreviewed", "error"}
  /\ ticket \in {"resolved", "failed", "blocked"}

\* Posted (or to be posted) in a dispatch that was gathered and that counts: a
\* pass before the one that failed, the last try of the gate.
Ended(x) ==
  /\ x.n = round.n
  /\ IF round.kind = "final" THEN round.pass > 0 /\ x.turn = round.tries ELSE x.turn < round.pass

\* Let through: the phase passed, or the gate left the ticket resolved.
LetThrough ==
  round.at = "idle" /\ IF round.kind = "final" THEN ticket = "resolved" ELSE round.result = "passed"

\* What a finding need not block for: the same reviewer said the same before in
\* a cycle of the same number (a pass before, or the cycle a restart counts
\* anew), and in a phase, not at the gate, what is out of scope or dismissed.
Repeats(i) ==
  \E j \in 1..i - 1 : /\ SignatureOf(comments[j]) = SignatureOf(comments[i])
                     /\ comments[j].cycle = comments[i].cycle
Excused(i) ==
  \/ Repeats(i)
  \/ round.kind = "phase" /\ (~InScope(comments[i]) \/ SignatureOf(comments[i]) \in Dismissed)

\* No phase passes and no gate leaves its ticket resolved over a blocking
\* finding posted in a dispatch whose reviewers all ended, whatever failed in
\* its later passes or in the try before, unless the finding is excused.  A
\* phase whose reviewers failed before any pass found something is not a pass
\* here: it is "unreviewed", which _run_review_phase_federation lets through.
FreshFindingsBlock ==
  LetThrough => \A i \in DOMAIN comments :
    Ended(comments[i]) /\ comments[i].sev \in BlockingSev => Excused(i)

\* An acknowledgement names a finding only by its number, and rounds, restarts
\* and other reviewers add comments afterwards: the number in every
\* acknowledgement still belongs to the finding it was written for.
AckNamesItsFinding ==
  \A i \in DOMAIN acks : FindById(comments, acks[i].fid) = {acks[i].meant}
=============================================================================
