------------------------------ MODULE Operator ------------------------------
(***************************************************************************)
(* How a question reaches the operator and the answer comes back.  A paused *)
(* ticket's task, or a dialog of /init, registers a prompt and waits for its *)
(* future; the event goes through the relay to the terminals that are        *)
(* subscribed; a terminal shows one prompt at a time and sends the reply as   *)
(* a command, which runs in a task of its own.  Links drop, terminals         *)
(* reconnect, the daemon restarts, and a ticket may be resumed by another     *)
(* path than its prompt.                                                      *)
(*                                                                            *)
(* Only the prompts topic is shown: the other topics, the snapshots and what  *)
(* the screens draw are left out.  Replies are "good" or "bad": whether the   *)
(* dialog's parser takes them.  Prompts are numbered; in the code they are    *)
(* UUIDs, kept in the order of their registration.                            *)
(***************************************************************************)
EXTENDS Naturals, Sequences, FiniteSets

CONSTANTS
  Terminals,    \* the TUI processes
  Dialogs,      \* the askers that are dialogs of /init
  PausedTasks,  \* the askers that are tasks of tickets
  MaxPrompts,   \* bound: prompts registered
  MaxFaults     \* bound: dropped links and restarts of the daemon

ASSUME OperatorAssumption == MaxPrompts \in Nat /\ MaxFaults \in Nat /\ Dialogs \cap PausedTasks = {}

VARIABLES
  asker,      \* asker -> [at, pid]
  paused,     \* task -> "no", "question" or "other": why the ticket needs_info
  registry,   \* PromptRegistry._pending: the prompts whose future is open
  answered,   \* the prompts whose future has a result
  events,     \* the server's queue on the emitter
  kept,       \* _pending_prompts, replayed to whoever subscribes
  link,       \* terminal -> how far its connection is
  stale,      \* terminal -> the prompts its replay found answered
  wire,       \* terminal -> prompt requests on their way to it
  shown,      \* terminal -> NowScreen._active_prompt_id, 0 for none
  replies,    \* prompt_reply commands on their way
  prompts, faults \* the bounds' counters

opVars == <<asker, paused, registry, answered, events, kept, link, stale, wire,
            shown, replies, prompts, faults>>
serverVars == <<registry, answered, events, kept>>
clientVars == <<link, stale, wire, shown, replies>>

OpAskers == Dialogs \cup PausedTasks
IdleAsker == [at |-> "idle", pid |-> 0]
NotLinked(c) == link[c] = "off"

-----------------------------------------------------------------------------
(* Asking. *)

\* An agent's blocking question, or another reason, pauses a ticket.
PauseTicket(a, why) ==
  /\ a \in PausedTasks /\ asker[a] = IdleAsker /\ paused[a] = "no" /\ prompts < MaxPrompts
  /\ paused' = [paused EXCEPT ![a] = why]
  /\ UNCHANGED <<asker, serverVars, clientVars, prompts, faults>>

\* PromptRegistry.register and EventEmitter.emit: nothing suspends in between.
RegisterPrompt(a) ==
  /\ prompts < MaxPrompts /\ prompts' = prompts + 1
  /\ asker' = [asker EXCEPT ![a] = [at |-> "waiting", pid |-> prompts + 1]]
  /\ registry' = registry \cup {prompts + 1}
  /\ events' = Append(events, prompts + 1)
  /\ UNCHANGED <<kept, clientVars, faults>>

\* _prompt_for_needs_info for a question that is open.
PromptForNeedsInfo(a) ==
  /\ a \in PausedTasks /\ asker[a] = IdleAsker /\ paused[a] = "question"
  /\ RegisterPrompt(a) /\ UNCHANGED <<answered, paused>>
\* The ask_* methods of the dialog, one after the other.
RoundTrip(a) ==
  /\ a \in Dialogs /\ asker[a] = IdleAsker
  /\ RegisterPrompt(a) /\ UNCHANGED <<answered, paused>>

\* _silent_wait_for_resume: nothing to ask; wait until the status changes.
SilentWait(a) ==
  /\ a \in PausedTasks /\ asker[a] = IdleAsker /\ paused[a] = "other"
  /\ asker' = [asker EXCEPT ![a].at = "silent"]
  /\ UNCHANGED <<paused, serverVars, clientVars, prompts, faults>>
SilentWaitOver(a) ==
  /\ asker[a].at = "silent" /\ paused[a] = "no"
  /\ asker' = [asker EXCEPT ![a] = IdleAsker]
  /\ UNCHANGED <<paused, serverVars, clientVars, prompts, faults>>

\* answer_questions or update_ticket resume the ticket; the prompt stays.
ResumedElsewhere(a) ==
  /\ a \in PausedTasks /\ paused[a] # "no"
  /\ paused' = [paused EXCEPT ![a] = "no"]
  /\ UNCHANGED <<asker, serverVars, clientVars, prompts, faults>>

\* The task posts the answer, closes the question and resumes the ticket.
TaskResumes(a) ==
  /\ a \in PausedTasks /\ asker[a].pid \in answered
  /\ asker' = [asker EXCEPT ![a] = IdleAsker]
  /\ paused' = [paused EXCEPT ![a] = "no"]
  /\ answered' = answered \ {asker[a].pid}
  /\ UNCHANGED <<registry, events, kept, clientVars, prompts, faults>>
\* Most parsers fall back to a default; ask_direct_template asks again.
DialogGoesOn(a, reply) ==
  /\ a \in Dialogs /\ asker[a].pid \in answered
  /\ answered' = answered \ {asker[a].pid}
  /\ \/ /\ reply = "good" /\ asker' = [asker EXCEPT ![a] = IdleAsker]
        /\ UNCHANGED <<registry, events, kept, clientVars, prompts, faults>>
     \/ reply = "bad" /\ RegisterPrompt(a)
  /\ UNCHANGED paused

-----------------------------------------------------------------------------
(* The server. *)

\* _relay_events: the prompt is kept and sent to every client.  The sends are
\* one step: a client that comes or goes between them is replayed to anyway.
RelayEvents ==
  /\ events # <<>>
  /\ kept' = kept \cup {Head(events)} /\ events' = Tail(events)
  /\ wire' = [c \in Terminals |-> IF NotLinked(c) THEN wire[c] ELSE Append(wire[c], Head(events))]
  /\ UNCHANGED <<asker, paused, registry, answered, link, stale, shown, replies, prompts, faults>>

(* Mutant of StaleIn: what has been sent once is no longer kept. *)
StaleOnceSent(pids) == pids
\* What the replay will drop: the prompts that are no longer in the registry.
StaleIn(pids) == pids \ registry
\* In the order they were kept in, which is that of asking: k are up to the k-th.
Ascending(pids) ==
  [k \in 1..Cardinality(pids) |-> CHOOSE p \in pids : Cardinality({q \in pids : q <= p}) = k]
ReplayPrompts(c) ==
  /\ link[c] = "subscribed" /\ link' = [link EXCEPT ![c] = "replayed"]
  /\ wire' = [wire EXCEPT ![c] = @ \o Ascending(kept \cap registry)]
  /\ stale' = [stale EXCEPT ![c] = StaleIn(kept)]
  /\ UNCHANGED <<asker, paused, serverVars, shown, replies, prompts, faults>>
\* Another replay may have dropped one of them meanwhile: the KeyError ends
\* the handler, and with it the connection.
ReplayDrops(c) ==
  /\ link[c] = "replayed"
  /\ LET gone == stale[c] \ kept
     IN  /\ kept' = kept \ {p \in stale[c] : \A g \in gone : p < g}
         /\ link' = [link EXCEPT ![c] = IF gone = {} THEN "live" ELSE "off"]
         /\ wire' = IF gone = {} THEN wire ELSE [wire EXCEPT ![c] = <<>>]
  /\ stale' = [stale EXCEPT ![c] = {}]
  /\ UNCHANGED <<asker, paused, registry, answered, events, shown, replies, prompts, faults>>

\* cmd_prompt_reply, PromptRegistry.deliver: an unknown prompt is refused.
DeliverReply(r) ==
  /\ r \in replies /\ replies' = replies \ {r}
  /\ registry' = registry \ {r.pid}
  /\ answered' = IF r.pid \in registry THEN answered \cup {r.pid} ELSE answered
  /\ UNCHANGED <<asker, paused, events, kept, link, stale, wire, shown, prompts, faults>>

-----------------------------------------------------------------------------
(* The terminals. *)

\* DaemonClient.run_with_reconnect: connect and subscribe.  The subscription
\* counts at once; the snapshots that precede the replay take their time.
ConnectClient(c) ==
  /\ NotLinked(c) /\ link' = [link EXCEPT ![c] = "subscribed"]
  /\ UNCHANGED <<asker, paused, serverVars, stale, wire, shown, replies, prompts, faults>>

\* NowScreen: the newest request takes the place of the one before it.
RenderPromptRequest(c) ==
  /\ wire[c] # <<>>
  /\ shown' = [shown EXCEPT ![c] = Head(wire[c])] /\ wire' = [wire EXCEPT ![c] = Tail(@)]
  /\ UNCHANGED <<asker, paused, serverVars, link, stale, replies, prompts, faults>>

\* The prompt leaves the screen before the reply is sent; a send that fails is
\* reported and not repeated.
SubmitReply(c) ==
  /\ shown[c] # 0 /\ shown' = [shown EXCEPT ![c] = 0]
  /\ replies' = IF NotLinked(c) THEN replies ELSE replies \cup {[by |-> c, pid |-> shown[c]]}
  /\ UNCHANGED <<asker, paused, serverVars, link, stale, wire, prompts, faults>>

\* A link drops with what is on it; a reply may or may not have arrived.
DropLink(c, lost) ==
  /\ ~NotLinked(c) /\ faults < MaxFaults /\ faults' = faults + 1
  /\ link' = [link EXCEPT ![c] = "off"] /\ wire' = [wire EXCEPT ![c] = <<>>]
  /\ stale' = [stale EXCEPT ![c] = {}]
  /\ replies' = IF lost THEN {r \in replies : r.by # c} ELSE replies
  /\ UNCHANGED <<asker, paused, serverVars, shown, prompts>>

\* The daemon ends and starts again; the tickets stay paused, the terminals
\* keep what they show.
DaemonRestarts ==
  /\ faults < MaxFaults /\ faults' = faults + 1
  /\ asker' = [a \in OpAskers |-> IdleAsker]
  /\ registry' = {} /\ answered' = {} /\ events' = <<>> /\ kept' = {}
  /\ link' = [c \in Terminals |-> "off"] /\ wire' = [c \in Terminals |-> <<>>]
  /\ stale' = [c \in Terminals |-> {}] /\ replies' = {}
  /\ UNCHANGED <<paused, shown, prompts>>

-----------------------------------------------------------------------------
OperatorInit ==
  /\ asker = [a \in OpAskers |-> IdleAsker] /\ paused = [a \in PausedTasks |-> "no"]
  /\ registry = {} /\ answered = {} /\ events = <<>> /\ kept = {}
  /\ link = [c \in Terminals |-> "off"] /\ stale = [c \in Terminals |-> {}]
  /\ wire = [c \in Terminals |-> <<>>] /\ shown = [c \in Terminals |-> 0]
  /\ replies = {} /\ prompts = 0 /\ faults = 0

OperatorNext ==
  \/ \E a \in PausedTasks :
       \/ \E why \in {"question", "other"} : PauseTicket(a, why)
       \/ PromptForNeedsInfo(a) \/ SilentWait(a) \/ SilentWaitOver(a)
       \/ ResumedElsewhere(a) \/ TaskResumes(a)
  \/ \E a \in Dialogs : RoundTrip(a) \/ \E reply \in {"good", "bad"} : DialogGoesOn(a, reply)
  \/ RelayEvents \/ DaemonRestarts
  \/ \E c \in Terminals :
       \/ ReplayPrompts(c) \/ ReplayDrops(c)
       \/ ConnectClient(c) \/ RenderPromptRequest(c) \/ SubmitReply(c)
       \/ \E lost \in BOOLEAN : DropLink(c, lost)
  \/ \E r \in replies : DeliverReply(r)

OperatorSpec == OperatorInit /\ [][OperatorNext]_opVars

OperatorTypeOK ==
  /\ registry \cup answered \cup kept \subseteq 1..prompts /\ registry \cap answered = {}
  /\ \A a \in OpAskers : asker[a].at \in {"idle", "waiting", "silent"}
  /\ \A c \in Terminals : link[c] \in {"off", "subscribed", "replayed", "live"}
  /\ \A c \in Terminals : shown[c] \in 0..prompts

\* Nobody waits for an answer that can no longer be given: the prompt of
\* whoever waits is answered already, or it is registered and every terminal
\* that subscribes from now on is asked again, whatever was dropped, answered
\* twice or overwritten on a screen before.
PromptStaysAnswerable ==
  \A a \in OpAskers : asker[a].at = "waiting" =>
    \/ asker[a].pid \in answered
    \/ /\ asker[a].pid \in registry
       /\ asker[a].pid \in kept \/ \E i \in DOMAIN events : events[i] = asker[a].pid
=============================================================================
