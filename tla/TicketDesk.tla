----------------------------- MODULE TicketDesk -----------------------------
(***************************************************************************)
(* Where tickets come from: the agents' create_ticket and update_ticket in  *)
(* the daemon, and the issue front doors (command line, stand-alone MCP     *)
(* server, web board), each a process of its own with its own copy of       *)
(* tickets.jsonl.  What they share is the file, the counter behind the keys *)
(* jig-N, and a file lock held from taking a key to appending the ticket.   *)
(*                                                                          *)
(* The file is shown as the tickets its lines amount to: an update line     *)
(* overwrites the fields it names, whoever wrote them last.  Titles, sizes, *)
(* labels, parents and comments are left out.                               *)
(***************************************************************************)
EXTENDS Naturals, Sequences, FiniteSets

CONSTANTS
  Desks,        \* the processes; Daemon is the one the agents' tools run in
  Daemon,
  DoorOf,       \* process -> the front door it is
  Descriptions, \* what descriptions may be: the kinds of their lines
  TicketIds,
  MaxCalls,     \* bound: calls that change a ticket
  MaxDeskDeaths \* bound: processes that end or are killed

ASSUME DeskAssumption == /\ Daemon \in Desks /\ "nobody" \notin Desks /\ DoorOf[Daemon] = "agents"
                         /\ {MaxCalls, MaxDeskDeaths} \subseteq Nat

VARIABLES
  disk,      \* id -> ticket, as the lines of the file amount to
  copy,      \* process -> what it loaded and wrote itself
  up,        \* the processes that run
  seq,       \* the counter file issue_seq
  flock,     \* who holds .issue.lock
  request,   \* process -> the create or link it is in the middle of
  announced, \* the tickets published for dispatch
  calls, deskDeaths \* the bounds' counters

deskVars == <<disk, copy, up, seq, flock, request, announced, calls, deskDeaths>>

DeskStatus == {"proposed", "open", "blocked", "closed"}
Nobody == "nobody"
NoRequest == [step |-> "none"]

NewTicket(status, key) ==
  [status |-> status, key |-> key, blockedBy |-> {}, blocks |-> {}]

Write1(f, id, t) == [x \in DOMAIN f \cup {id} |-> IF x = id THEN t ELSE f[x]]

\* The fields an update line names are overwritten in the file, and in the
\* copy of the process that wrote it.
UpdateField(p, id, field, v) ==
  /\ disk' = [disk EXCEPT ![id][field] = v]
  /\ copy' = [copy EXCEPT ![p][id][field] = v]

\* What each front door offers; approving is the operator's command only.
CliOffers == {"create", "update", "approve", "link", "unlink"}
McpOffers == {"create", "update", "link", "unlink"}
BoardOffers == {"create"}
AgentsOffer == {"create", "update"}
Offers == [cli |-> CliOffers, mcp |-> McpOffers, board |-> BoardOffers, agents |-> AgentsOffer]

\* A call is taken by a process that is idle and knows the tickets named.
Takes(p, call, ids) ==
  /\ p \in up /\ request[p] = NoRequest /\ call \in Offers[DoorOf[p]]
  /\ ids \subseteq DOMAIN copy[p] /\ calls < MaxCalls /\ calls' = calls + 1

\* An acceptance-criteria heading with a bullet before the next other heading.
HasAcceptanceCriteria(lines) ==
  \E i, j \in DOMAIN lines :
    /\ i < j /\ lines[i] = "criteria" /\ lines[j] = "bullet"
    /\ \A k \in i + 1 .. j - 1 : lines[k] # "heading"
\* What the schema refuses is not written.  Ids, dates, layers and tiers that
\* are malformed are refused alike.
TicketValid(work, lines) == work = "system" \/ HasAcceptanceCriteria(lines)
SomeValid == \E work \in {"system", "feature"}, lines \in Descriptions : TicketValid(work, lines)

\* Identifiers are UUIDs: nobody has used one before.
Fresh(id) == id \notin DOMAIN disk /\ \A r \in {request[q] : q \in Desks} \ {NoRequest} : r.id # id
Asks(p, r) == /\ request' = [request EXCEPT ![p] = r]
              /\ UNCHANGED <<disk, copy, up, seq, flock, announced, deskDeaths>>

-----------------------------------------------------------------------------
(* Processes. *)

\* A front door has a new IssueService for every call, which loads the file
\* first; the daemon loads it when it starts and on every reconcile tick.
LoadTickets(p) ==
  /\ request[p] = NoRequest /\ (p = Daemon \/ p \notin up) /\ calls < MaxCalls
  /\ up' = up \cup {p} /\ copy' = [copy EXCEPT ![p] = disk]
  /\ UNCHANGED <<disk, seq, flock, request, announced, calls, deskDeaths>>

\* The process is killed: the operating system frees its lock.
DeskDies(p) ==
  /\ p \in up /\ up' = up \ {p} /\ deskDeaths < MaxDeskDeaths /\ deskDeaths' = deskDeaths + 1
  /\ copy' = [copy EXCEPT ![p] = <<>>] /\ request' = [request EXCEPT ![p] = NoRequest]
  /\ flock' = IF flock = p THEN Nobody ELSE flock
  /\ UNCHANGED <<disk, seq, announced, calls>>

-----------------------------------------------------------------------------
(* Creating. *)

\* handle_create_ticket: dependencies must exist; the ticket is open at once.
CreateTicket(id, deps) ==
  /\ Takes(Daemon, "create", deps) /\ SomeValid /\ Fresh(id) /\ Cardinality(deps) <= 1
  /\ Asks(Daemon, [step |-> "lock", id |-> id, status |-> "open", deps |-> deps])

\* IssueService.create: proposed until the operator approves it.
CreateIssue(p, id, deps) ==
  /\ p # Daemon /\ Takes(p, "create", deps) /\ SomeValid /\ Fresh(id) /\ Cardinality(deps) <= 1
  /\ Asks(p, [step |-> "lock", id |-> id, status |-> "proposed", deps |-> deps])

(* Mutant of LockIsFree: the lock covers one process only. *)
LockIsNotShared == TRUE
\* _key_lock: LOCK_NB, tried again until it is free.
LockIsFree == flock = Nobody
KeyLock(p) ==
  /\ request[p].step = "lock" /\ LockIsFree
  /\ flock' = p /\ request' = [request EXCEPT ![p].step = "read_seq"]
  /\ UNCHANGED <<disk, copy, up, seq, announced, calls, deskDeaths>>

\* The counter is read, and written before the ticket that uses it.
ReadSeq(p) ==
  /\ request[p].step = "read_seq"
  /\ request' = [request EXCEPT ![p] = [step |-> "write_seq", id |-> @.id, status |-> @.status,
                                        deps |-> @.deps, key |-> seq + 1]]
  /\ UNCHANGED <<disk, copy, up, seq, flock, announced, calls, deskDeaths>>
WriteSeq(p) ==
  /\ request[p].step = "write_seq"
  /\ seq' = request[p].key /\ request' = [request EXCEPT ![p].step = "insert"]
  /\ UNCHANGED <<disk, copy, up, flock, announced, calls, deskDeaths>>

\* Collection.insert, and the lock is released.
InsertTicket(p) ==
  /\ request[p].step = "insert"
  /\ LET r == request[p]
         t == [NewTicket(r.status, r.key) EXCEPT !.blockedBy = IF p = Daemon THEN r.deps ELSE {}]
     IN  /\ disk' = Write1(disk, r.id, t)
         /\ copy' = [copy EXCEPT ![p] = Write1(@, r.id, t)]
         /\ request' = [request EXCEPT ![p] =
              [step |-> IF r.deps = {} THEN "publish" ELSE IF p = Daemon THEN "blocks" ELSE "blocked_by",
               id |-> r.id, deps |-> r.deps]]
  /\ flock' = Nobody
  /\ UNCHANGED <<up, seq, announced, calls, deskDeaths>>

\* _edge, and the loop at the end of handle_create_ticket: the list as this
\* process knows it, with one more member, replaces the list in the file.
Edge(p) ==
  /\ request[p].step \in {"blocked_by", "blocks"}
  /\ LET r == request[p]
         dep == CHOOSE d \in r.deps : TRUE
     IN  \/ /\ r.step = "blocked_by"
            /\ UpdateField(p, r.id, "blockedBy", copy[p][r.id].blockedBy \cup {dep})
            /\ request' = [request EXCEPT ![p].step = "blocks"]
         \/ /\ r.step = "blocks"
            /\ UpdateField(p, dep, "blocks", copy[p][dep].blocks \cup {r.id})
            /\ request' = [request EXCEPT ![p].step = "publish"]
  /\ UNCHANGED <<up, seq, flock, announced, calls, deskDeaths>>

\* publish_ticket_created: only the daemon has a bus; other processes' tickets
\* are found when it reloads.  A front door's call is over, its service gone.
PublishTicketCreated(p) ==
  /\ request[p].step = "publish"
  /\ announced' = IF p = Daemon THEN announced \cup {request[p].id} ELSE announced
  /\ request' = [request EXCEPT ![p] = NoRequest]
  /\ up' = up \ ({p} \ {Daemon})
  /\ copy' = IF p = Daemon THEN copy ELSE [copy EXCEPT ![p] = <<>>]
  /\ UNCHANGED <<disk, seq, flock, calls, deskDeaths>>

\* IssueService.link between tickets that both exist, or its removal, which
\* filters the list as this process knows it.
LinkIssue(p, id, dep) ==
  /\ id # dep /\ Takes(p, "link", {id, dep})
  /\ Asks(p, [step |-> "blocked_by", id |-> id, deps |-> {dep}])
UnlinkIssue(p, id, dep) ==
  /\ Takes(p, "unlink", {id, dep}) /\ dep \in copy[p][id].blockedBy
  /\ UpdateField(p, id, "blockedBy", copy[p][id].blockedBy \ {dep})
  /\ UNCHANGED <<up, seq, flock, request, announced, deskDeaths>>

-----------------------------------------------------------------------------
(* Status. *)

\* TicketStore.update, behind update_ticket, `jig issue update`, the MCP tools
\* and close: from proposed to open is refused, by the copy at hand.
Gate(from, to) == ~(from = "proposed" /\ to = "open")
UpdateStatus(p, id, s) ==
  /\ Takes(p, "update", {id}) /\ s # copy[p][id].status /\ Gate(copy[p][id].status, s)
  /\ UpdateField(p, id, "status", s)
  /\ UNCHANGED <<up, seq, flock, request, announced, deskDeaths>>

\* TicketStore.approve, the operator's command.
Approve(p, id) ==
  /\ Takes(p, "approve", {id}) /\ copy[p][id].status = "proposed"
  /\ UpdateField(p, id, "status", "open")
  /\ UNCHANGED <<up, seq, flock, request, announced, deskDeaths>>

\* The other calls leave nothing to do: the front door's service is gone.
CallOver(p) ==
  /\ p \in up \ {Daemon} /\ request[p] = NoRequest
  /\ up' = up \ {p} /\ copy' = [copy EXCEPT ![p] = <<>>]
  /\ UNCHANGED <<disk, seq, flock, request, announced, calls, deskDeaths>>

-----------------------------------------------------------------------------
DeskInit ==
  /\ disk = <<>> /\ copy = [p \in Desks |-> <<>>] /\ up = {} /\ seq = 0 /\ flock = Nobody
  /\ request = [p \in Desks |-> NoRequest] /\ announced = {} /\ calls = 0 /\ deskDeaths = 0

DeskNext ==
  \/ \E p \in Desks :
       \/ LoadTickets(p) \/ DeskDies(p) \/ KeyLock(p) \/ ReadSeq(p) \/ WriteSeq(p) \/ InsertTicket(p)
       \/ Edge(p) \/ PublishTicketCreated(p) \/ CallOver(p)
       \/ \E id \in TicketIds : \/ \E s \in DeskStatus \ {"proposed"} : UpdateStatus(p, id, s)
                                \/ Approve(p, id)
                                \/ \E d \in TicketIds : LinkIssue(p, id, d) \/ UnlinkIssue(p, id, d)
       \/ \E id \in TicketIds, dep \in SUBSET TicketIds : CreateIssue(p, id, dep)
  \/ \E id \in TicketIds, dep \in SUBSET TicketIds : CreateTicket(id, dep)

DeskSpec == DeskInit /\ [][DeskNext]_deskVars

DeskTypeOK ==
  /\ \A id \in DOMAIN disk : id \in TicketIds /\ disk[id].status \in DeskStatus
  /\ \A p \in Desks : p \notin up => copy[p] = <<>>
  /\ flock \in Desks \cup {Nobody} /\ calls \in 0..MaxCalls
  /\ announced \subseteq TicketIds

\* No two tickets have the same key jig-N, whichever processes create them at
\* the same time and wherever one of them dies between taking the number and
\* appending the ticket.
KeysUnique ==
  \A i, j \in DOMAIN disk : disk[i].key = disk[j].key => i = j
=============================================================================
