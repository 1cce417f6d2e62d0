--------------------------- MODULE SharingProofs ---------------------------
(* Proofs of what is shared safely, for any processes, tickets and bounds. *)
EXTENDS TicketDesk, AgentSession, DevEnv, Host, Watchers, FiniteSetTheorems, SequenceTheorems, TLAPS

-----------------------------------------------------------------------------
(* TicketDesk: no two tickets share a key.  A process between the lock and  *)
(* the append holds the lock; the number it has read is the counter's next, *)
(* the number it has written is above that of every ticket in the file.     *)
TicketFields == {"status", "key", "blockedBy", "blocks"}
InKeySection(p) == request[p].step \in {"read_seq", "write_seq", "insert"}

KeysBelow ==
  /\ \A i \in DOMAIN disk : DOMAIN disk[i] = TicketFields /\ disk[i].key \in Nat
  /\ \A i \in DOMAIN disk : disk[i].key <= seq
HolderOnly ==
  /\ DOMAIN request = Desks
  /\ \A p \in Desks : "step" \in DOMAIN request[p]
  /\ \A p \in Desks : request[p].step \in {"write_seq", "insert"} => "key" \in DOMAIN request[p]
  /\ \A p \in Desks : InKeySection(p) => flock = p
  /\ \A p \in Desks : request[p].step = "write_seq" => request[p].key = seq + 1
  /\ \A p \in Desks : request[p].step = "insert" =>
       request[p].key = seq /\ \A i \in DOMAIN disk : disk[i].key < seq

KeyInv == seq \in Nat /\ KeysBelow /\ HolderOnly /\ KeysUnique

(* LEMMA: an update line leaves every key, and which tickets there are. *)
LEMMA UpdateKeepsKeys ==
  ASSUME KeysBelow, NEW p, NEW id, NEW field \in {"status", "blockedBy", "blocks"}, NEW v,
         UpdateField(p, id, field, v)
  PROVE  /\ DOMAIN disk' = DOMAIN disk
         /\ \A i \in DOMAIN disk : DOMAIN disk'[i] = DOMAIN disk[i] /\ disk'[i].key = disk[i].key
<1>1. disk' = [disk EXCEPT ![id] = [disk[id] EXCEPT ![field] = v]]
  BY DEF UpdateField
<1>2. ASSUME NEW i \in DOMAIN disk
      PROVE  DOMAIN disk'[i] = DOMAIN disk[i] /\ disk'[i].key = disk[i].key
  <2>1. CASE i = id
    <3>1. disk'[i] = [disk[i] EXCEPT ![field] = v] BY <1>1, <2>1
    <3>2. "key" \in DOMAIN disk[i] /\ field # "key" BY DEF KeysBelow, TicketFields
    <3> QED BY <3>1, <3>2
  <2>2. CASE i # id BY <1>1, <2>2
  <2> QED BY <2>1, <2>2
<1> QED BY <1>1, <1>2

(* LEMMA: where keys, counter, lock and the calls in the key section stay   *)
(* as they are, so does the invariant.                                      *)
LEMMA KeysUntouched ==
  ASSUME KeyInv, seq' = seq, DOMAIN disk' = DOMAIN disk,
         \A i \in DOMAIN disk : DOMAIN disk'[i] = DOMAIN disk[i] /\ disk'[i].key = disk[i].key,
         DOMAIN request' = Desks, \A p \in Desks : "step" \in DOMAIN request'[p],
         \A p \in Desks : InKeySection(p)' => request'[p] = request[p] /\ flock' = flock
  PROVE  KeyInv'
<1>1. KeysBelow' BY DEF KeyInv, KeysBelow
<1>2. HolderOnly' BY DEF KeyInv, HolderOnly, InKeySection
<1>3. KeysUnique' BY DEF KeyInv, KeysUnique
<1> QED BY <1>1, <1>2, <1>3 DEF KeyInv

(* LEMMA: no ticket has been created, and no key has been taken.             *)
LEMMA KeyInit == DeskInit => KeyInv
  BY DEF DeskInit, KeyInv, KeysBelow, HolderOnly, InKeySection, KeysUnique, NoRequest

(* LEMMA: every step keeps the keys apart. *)
LEMMA KeyStep ==
  ASSUME KeyInv, [DeskNext]_deskVars
  PROVE  KeyInv'
<1> USE DEF KeyInv
<1>a. DOMAIN request = Desks /\ \A p \in Desks : "step" \in DOMAIN request[p]
  BY DEF HolderOnly
<1>1. ASSUME NEW p \in Desks, LoadTickets(p) PROVE KeyInv'
  BY <1>a, <1>1, KeysUntouched DEF LoadTickets
<1>2. ASSUME NEW p \in Desks, DeskDies(p) PROVE KeyInv'
  <2>1. KeysBelow' /\ KeysUnique' BY <1>2 DEF DeskDies, KeysBelow, KeysUnique
  <2>2. \A q \in Desks : InKeySection(q)' => q # p /\ request'[q] = request[q]
    BY <1>a, <1>2 DEF DeskDies, InKeySection, NoRequest
  <2>3. request'[p] = NoRequest /\ \A q \in Desks \ {p} : request'[q] = request[q]
    BY <1>a, <1>2 DEF DeskDies
  <2>4. DOMAIN request' = Desks BY <1>a, <1>2 DEF DeskDies
  <2>5. HolderOnly'
    BY <1>a, <1>2, <2>2, <2>3, <2>4 DEF DeskDies, HolderOnly, InKeySection, NoRequest
  <2> QED BY <1>2, <2>1, <2>5 DEF DeskDies
<1>3. ASSUME NEW p \in Desks, KeyLock(p) PROVE KeyInv'
  <2>1. KeysBelow' /\ KeysUnique' BY <1>3 DEF KeyLock, KeysBelow, KeysUnique
  <2>2. \A q \in Desks : ~InKeySection(q)
    BY <1>3, DeskAssumption DEF KeyLock, LockIsFree, Nobody, HolderOnly
  <2>3. request'[p].step = "read_seq" /\ "step" \in DOMAIN request'[p] BY <1>a, <1>3 DEF KeyLock
  <2>4. HolderOnly' BY <1>a, <1>3, <2>2, <2>3 DEF KeyLock, HolderOnly, InKeySection
  <2> QED BY <1>3, <2>1, <2>4 DEF KeyLock
<1>4. ASSUME NEW p \in Desks, ReadSeq(p) PROVE KeyInv'
  <2>1. KeysBelow' /\ KeysUnique' BY <1>4 DEF ReadSeq, KeysBelow, KeysUnique
  <2>2. /\ request'[p].step = "write_seq" /\ request'[p].key = seq + 1
        /\ {"step", "key"} \subseteq DOMAIN request'[p]
    BY <1>a, <1>4 DEF ReadSeq
  <2>3. HolderOnly' BY <1>a, <1>4, <2>2 DEF ReadSeq, HolderOnly, InKeySection
  <2> QED BY <1>4, <2>1, <2>3 DEF ReadSeq
<1>5. ASSUME NEW p \in Desks, WriteSeq(p) PROVE KeyInv'
  <2>1. seq' = seq + 1 /\ flock = p BY <1>5 DEF WriteSeq, HolderOnly, InKeySection
  <2>2. KeysBelow' /\ KeysUnique' BY <1>5, <2>1 DEF WriteSeq, KeysBelow, KeysUnique
  <2>3. \A q \in Desks : InKeySection(q) => q = p BY <2>1 DEF HolderOnly
  <2>4. /\ request'[p].step = "insert" /\ request'[p].key = seq'
        /\ {"step", "key"} \subseteq DOMAIN request'[p]
    BY <1>a, <1>5 DEF WriteSeq, HolderOnly
  <2>5. HolderOnly' BY <1>a, <1>5, <2>1, <2>3, <2>4 DEF WriteSeq, HolderOnly, InKeySection, KeysBelow
  <2> QED BY <2>1, <2>2, <2>5
<1>6. ASSUME NEW p \in Desks, InsertTicket(p) PROVE KeyInv'
  <2> DEFINE r == request[p]
             t == [NewTicket(r.status, r.key) EXCEPT !.blockedBy = IF p = Daemon THEN r.deps ELSE {}]
  <2>1. /\ flock = p /\ r.key = seq /\ \A i \in DOMAIN disk : disk[i].key < seq
    BY <1>6 DEF InsertTicket, HolderOnly, InKeySection
  <2>2. t.key = seq /\ DOMAIN t = TicketFields BY <2>1 DEF NewTicket, TicketFields
  <2>3. disk' = Write1(disk, r.id, t) BY <1>6 DEF InsertTicket
  <2> HIDE DEF t
  <2>4. /\ DOMAIN disk' = DOMAIN disk \cup {r.id} /\ disk'[r.id] = t
        /\ \A i \in DOMAIN disk : i # r.id => disk'[i] = disk[i]
    BY <2>3 DEF Write1
  <2>a. seq' = seq BY <1>6 DEF InsertTicket
  <2>b. \A i \in DOMAIN disk' :
          (i = r.id /\ disk'[i] = t) \/ (i # r.id /\ i \in DOMAIN disk /\ disk'[i] = disk[i])
    BY <2>4
  <2>c. \A i \in DOMAIN disk' : /\ DOMAIN disk'[i] = TicketFields /\ disk'[i].key \in Nat
                                /\ disk'[i].key <= seq
    BY <2>1, <2>2, <2>b DEF KeysBelow
  <2>d. KeysUnique'
    BY <2>1, <2>2, <2>b DEF KeysBelow, KeysUnique
  <2>5. KeysBelow' /\ KeysUnique' BY <2>a, <2>c, <2>d DEF KeysBelow
  <2>6. /\ request'[p].step \in {"publish", "blocks", "blocked_by"} /\ "step" \in DOMAIN request'[p]
        /\ DOMAIN request' = Desks /\ \A q \in Desks \ {p} : request'[q] = request[q]
    BY <1>a, <1>6 DEF InsertTicket
  <2>7. \A q \in Desks : ~InKeySection(q)'
    BY <2>1, <2>6 DEF HolderOnly, InKeySection
  <2>8. HolderOnly' BY <1>a, <2>6, <2>7 DEF HolderOnly, InKeySection
  <2> QED BY <1>6, <2>5, <2>8 DEF InsertTicket
<1>7. ASSUME NEW p \in Desks, Edge(p) PROVE KeyInv'
  <2>1. PICK id, v : UpdateField(p, id, "blockedBy", v) \/ UpdateField(p, id, "blocks", v)
    BY <1>7 DEF Edge
  <2>2. /\ request'[p].step \in {"blocks", "publish"} /\ "step" \in DOMAIN request'[p]
        /\ DOMAIN request' = Desks /\ \A q \in Desks \ {p} : request'[q] = request[q]
    BY <1>a, <1>7 DEF Edge
  <2>3. UNCHANGED <<seq, flock>> BY <1>7 DEF Edge
  <2> QED BY <1>a, <2>1, <2>2, <2>3, UpdateKeepsKeys, KeysUntouched DEF InKeySection
<1>8. ASSUME NEW p \in Desks, PublishTicketCreated(p) PROVE KeyInv'
  <2>1. /\ request'[p] = NoRequest
        /\ DOMAIN request' = Desks /\ \A q \in Desks \ {p} : request'[q] = request[q]
    BY <1>a, <1>8 DEF PublishTicketCreated
  <2> QED BY <1>a, <1>8, <2>1, KeysUntouched DEF PublishTicketCreated, InKeySection, NoRequest
<1>9. ASSUME NEW p \in Desks, CallOver(p) PROVE KeyInv'
  BY <1>a, <1>9, KeysUntouched DEF CallOver
<1>10. ASSUME NEW p \in Desks, NEW r, Asks(p, r), UNCHANGED seq,
              r.step \in {"lock", "blocked_by"}, "step" \in DOMAIN r
       PROVE  KeyInv'
  <2>1. /\ request'[p] = r /\ DOMAIN request' = Desks
        /\ \A q \in Desks \ {p} : request'[q] = request[q]
    BY <1>a, <1>10 DEF Asks
  <2> QED BY <1>a, <1>10, <2>1, KeysUntouched DEF Asks, InKeySection
<1>11. ASSUME NEW p \in Desks, NEW id, NEW field \in {"status", "blockedBy", "blocks"}, NEW v,
              UpdateField(p, id, field, v), UNCHANGED <<seq, flock, request>>
       PROVE  KeyInv'
  BY <1>a, <1>11, UpdateKeepsKeys, KeysUntouched
<1>12. ASSUME NEW p \in Desks, NEW id, NEW d, LinkIssue(p, id, d) \/ UnlinkIssue(p, id, d)
       PROVE  KeyInv'
  <2>1. CASE LinkIssue(p, id, d)
    <3> DEFINE r == [step |-> "blocked_by", id |-> id, deps |-> {d}]
    <3>1. Asks(p, r) BY <2>1 DEF LinkIssue
    <3>2. r.step \in {"lock", "blocked_by"} /\ "step" \in DOMAIN r OBVIOUS
    <3>3. UNCHANGED seq BY <3>1 DEF Asks
    <3> HIDE DEF r
    <3> QED BY <3>1, <3>2, <3>3, <1>10
  <2>2. CASE UnlinkIssue(p, id, d)
    <3> DEFINE v == copy[p][id].blockedBy \ {d}
    <3>1. UpdateField(p, id, "blockedBy", v) /\ UNCHANGED <<seq, flock, request>>
      BY <2>2 DEF UnlinkIssue
    <3> HIDE DEF v
    <3> QED BY <3>1, <1>11
  <2> QED BY <1>12, <2>1, <2>2
<1>13. ASSUME NEW p \in Desks, NEW id, NEW s, UpdateStatus(p, id, s) \/ Approve(p, id)
       PROVE  KeyInv'
  BY <1>11, <1>13 DEF UpdateStatus, Approve
<1>14. ASSUME NEW id, NEW deps, NEW p \in Desks, CreateIssue(p, id, deps) \/ CreateTicket(id, deps)
       PROVE  KeyInv'
  <2>1. CASE CreateIssue(p, id, deps)
    <3> DEFINE r == [step |-> "lock", id |-> id, status |-> "proposed", deps |-> deps]
    <3>1. Asks(p, r) BY <2>1 DEF CreateIssue
    <3>2. r.step \in {"lock", "blocked_by"} /\ "step" \in DOMAIN r OBVIOUS
    <3>3. UNCHANGED seq BY <3>1 DEF Asks
    <3> HIDE DEF r
    <3> QED BY <3>1, <3>2, <3>3, <1>10
  <2>2. CASE CreateTicket(id, deps)
    <3> DEFINE r == [step |-> "lock", id |-> id, status |-> "open", deps |-> deps]
    <3>1. Asks(Daemon, r) BY <2>2 DEF CreateTicket
    <3>2. r.step \in {"lock", "blocked_by"} /\ "step" \in DOMAIN r OBVIOUS
    <3>3. UNCHANGED seq BY <3>1 DEF Asks
    <3>4. Daemon \in Desks BY DeskAssumption
    <3> HIDE DEF r
    <3> QED BY <3>1, <3>2, <3>3, <3>4, <1>10
  <2> QED BY <1>14, <2>1, <2>2
<1>15. CASE UNCHANGED deskVars
  BY <1>a, <1>15, KeysUntouched DEF deskVars
<1> QED
  BY <1>1, <1>2, <1>3, <1>4, <1>5, <1>6, <1>7, <1>8, <1>9, <1>12, <1>13, <1>14, <1>15, DeskAssumption
  DEF DeskNext

(* THEOREM: no two tickets share a key, whichever processes create them at  *)
(* once and wherever one is killed.                                         *)
THEOREM DeskKeysUnique == DeskSpec => []KeysUnique
<1>1. KeyInv => KeysUnique BY DEF KeyInv
<1> QED BY KeyInit, KeyStep, <1>1, PTL DEF DeskSpec

-----------------------------------------------------------------------------
(* AgentSession: writes reach their own ticket.  A run that has started keeps *)
(* its role and ticket; a call under way bears the ticket of its run.         *)
CallSound(s, c) ==
  c = NoToolCall \/
    /\ DOMAIN c = {"tool", "to", "stamp"} /\ ses[s].at = "run" /\ c.stamp = ses[s].ticket
    /\ c.to # c.stamp => AgentRoles[ses[s].role].cross
ScopeInv ==
  /\ DOMAIN ses = Spawns /\ \A s \in Spawns : DOMAIN ses[s] = DOMAIN NoSession
  /\ DOMAIN toolCall = Spawns /\ \A s \in Spawns : CallSound(s, toolCall[s])
  /\ \A w \in stamps : w.by \in Spawns /\ ses[w.by].at # "off"
  /\ WritesInScope

(* LEMMA: a run that has begun keeps its role and its ticket. *)
LEMMA ScopeKept ==
  ASSUME ScopeInv, UNCHANGED <<toolCall, stamps>>,
         DOMAIN ses' = Spawns, \A s \in Spawns : DOMAIN ses'[s] = DOMAIN NoSession,
         \A s \in Spawns : ses[s].at # "off" =>
           /\ ses'[s].at # "off" /\ ses'[s].role = ses[s].role /\ ses'[s].ticket = ses[s].ticket
           /\ toolCall[s] # NoToolCall => ses'[s].at = "run"
  PROVE  ScopeInv'
<1>1. ASSUME NEW s \in Spawns PROVE CallSound(s, toolCall[s])'
  <2>1. CallSound(s, toolCall[s]) BY DEF ScopeInv
  <2> QED BY <2>1 DEF CallSound
<1>2. WritesInScope' BY DEF ScopeInv, WritesInScope
<1> QED BY <1>1, <1>2 DEF ScopeInv

(* LEMMA: no call of an agent is under way.                                  *)
LEMMA ScopeInit == SessionInit => ScopeInv
  BY DEF SessionInit, ScopeInv, CallSound, WritesInScope

(* LEMMA: a call goes on only after it was let through, with the context of  *)
(* its agent.                                                                *)
LEMMA ScopeStep ==
  ASSUME ScopeInv, [SessionNext]_sesVars
  PROVE  ScopeInv'
<1>a. DOMAIN NoSession = {"at", "role", "ticket", "tools", "hooks", "done", "result"} BY DEF NoSession
<1>b. DOMAIN ses = Spawns /\ \A s \in Spawns : DOMAIN ses[s] = DOMAIN NoSession BY DEF ScopeInv
<1>c. \A s \in Spawns : toolCall[s] # NoToolCall => ses[s].at = "run" BY DEF ScopeInv, CallSound
<1>1. ASSUME NEW s \in Spawns, NEW role, NEW t, StartSession(s, role, t) PROVE ScopeInv'
  <2> DEFINE new == [NoSession EXCEPT !.at = "prompt", !.role = role, !.ticket = t]
  <2>1. DOMAIN new = DOMAIN NoSession BY <1>a
  <2>2. ses[s].at = "off" /\ ses' = [ses EXCEPT ![s] = new] /\ UNCHANGED <<toolCall, stamps>>
    BY <1>1 DEF StartSession, At
  <2> HIDE DEF new
  <2> QED BY <1>b, <1>c, <2>1, <2>2, ScopeKept
<1>2. ASSUME NEW s \in Spawns, ses[s].at # "off", UNCHANGED <<toolCall, stamps>>,
             NEW to, to # "off", toolCall[s] # NoToolCall => to = "run",
             DOMAIN ses' = Spawns, \A x \in Spawns \ {s} : ses'[x] = ses[x],
             DOMAIN ses'[s] = DOMAIN NoSession, ses'[s].at = to,
             ses'[s].role = ses[s].role, ses'[s].ticket = ses[s].ticket
      PROVE  ScopeInv'
  BY <1>b, <1>c, <1>2, ScopeKept
<1>3. ASSUME NEW s \in Spawns, NEW has, BuildAgentPrompt(s, has) PROVE ScopeInv'
  <2>1. PICK to \in {"policy", "out"} : ses' = [ses EXCEPT ![s].at = to]
    BY <1>3 DEF BuildAgentPrompt, Moves
  <2> QED BY <1>2, <1>3, <1>a, <1>b, <1>c, <2>1 DEF BuildAgentPrompt, At
<1>4. ASSUME NEW s \in Spawns, NEW b, MaterializePolicy(s, b) PROVE ScopeInv'
  <2>1. PICK h : ses' = [ses EXCEPT ![s].at = "server", ![s].hooks = h] BY <1>4 DEF MaterializePolicy
  <2> QED BY <1>2, <1>4, <1>a, <1>b, <1>c, <2>1 DEF MaterializePolicy, At
<1>5. ASSUME NEW s \in Spawns, CreateServer(s) PROVE ScopeInv'
  <2>1. PICK x : ses' = [ses EXCEPT ![s].at = "config", ![s].tools = x] BY <1>5 DEF CreateServer
  <2> QED BY <1>2, <1>5, <1>a, <1>b, <1>c, <2>1 DEF CreateServer, At
<1>6. ASSUME NEW s \in Spawns, NEW b, MakeConfigDir(s, b) PROVE ScopeInv'
  <2>1. PICK to \in {"orphaned", "subscribe"} : ses' = [ses EXCEPT ![s].at = to]
    BY <1>6 DEF MakeConfigDir, Moves
  <2> QED BY <1>2, <1>6, <1>a, <1>b, <1>c, <2>1 DEF MakeConfigDir, At
<1>7. ASSUME NEW s \in Spawns, NEW o, SubscribeAgent(s, o) PROVE ScopeInv'
  <2>1. PICK to \in {"run", "out", "unsubscribed_never"} : ses' = [ses EXCEPT ![s].at = to]
    BY <1>7 DEF SubscribeAgent, Moves
  <2> QED BY <1>2, <1>7, <1>a, <1>b, <1>c, <2>1 DEF SubscribeAgent, At
<1>8. ASSUME NEW s \in Spawns, PromptStream(s) PROVE ScopeInv'
  <2>1. PICK d : ses' = [ses EXCEPT ![s].done = d] BY <1>8 DEF PromptStream
  <2> QED BY <1>2, <1>8, <1>a, <1>b, <1>c, <2>1 DEF PromptStream, At
<1>9. ASSUME NEW s \in Spawns, NEW tool, NEW target, BeginToolCall(s, tool, target) PROVE ScopeInv'
  <2> DEFINE to == IF target = "unnamed" THEN ses[s].ticket ELSE target
  <2>1. /\ toolCall' = [toolCall EXCEPT ![s] = [tool |-> tool, to |-> to, stamp |-> ses[s].ticket]]
        /\ ~NamesOther(s, target) /\ ses[s].at = "run" /\ UNCHANGED <<ses, stamps>>
    BY <1>9 DEF BeginToolCall, At
  <2>2. to # ses[s].ticket => AgentRoles[ses[s].role].cross BY <2>1 DEF NamesOther
  <2> HIDE DEF to
  <2>3. CallSound(s, toolCall[s])' BY <2>1, <2>2 DEF ScopeInv, CallSound
  <2>4. \A x \in Spawns : CallSound(x, toolCall[x])' BY <2>1, <2>3 DEF ScopeInv, CallSound
  <2> QED BY <2>1, <2>4 DEF ScopeInv, WritesInScope
<1>10. ASSUME NEW s \in Spawns, NEW status, EndToolCall(s, status) PROVE ScopeInv'
  <2> DEFINE c == toolCall[s]
  <2>1. /\ c # NoToolCall /\ stamps' = stamps \cup {[by |-> s, to |-> c.to, stamp |-> c.stamp]}
        /\ toolCall' = [toolCall EXCEPT ![s] = NoToolCall] /\ UNCHANGED ses
    BY <1>10 DEF EndToolCall
  <2>2. CallSound(s, c) BY DEF ScopeInv
  <2>3. \A x \in Spawns : CallSound(x, toolCall[x])' BY <2>1 DEF ScopeInv, CallSound
  <2>4. c.stamp = ses[s].ticket /\ ses[s].at = "run" /\ (c.to # c.stamp => AgentRoles[ses[s].role].cross)
    BY <2>1, <2>2 DEF CallSound
  <2> HIDE DEF c
  <2> QED BY <2>1, <2>3, <2>4 DEF ScopeInv, WritesInScope
<1>11. ASSUME NEW s \in Spawns, NEW how, AgentStops(s, how) PROVE ScopeInv'
  <2>1. PICK r : ses' = [ses EXCEPT ![s].at = "finally", ![s].done = TRUE, ![s].result = r]
    BY <1>11 DEF AgentStops
  <2> QED BY <1>2, <1>11, <1>a, <1>b, <1>c, <2>1 DEF AgentStops, At
<1>12. ASSUME NEW s \in Spawns, StopHeartbeat(s) PROVE ScopeInv'
  BY <1>b, <1>c, <1>12, ScopeKept DEF StopHeartbeat
<1>13. ASSUME NEW s \in Spawns, LeaveTopic(s) PROVE ScopeInv'
  <2>1. ses' = [ses EXCEPT ![s].at = "out"] BY <1>13 DEF LeaveTopic, Moves
  <2> QED BY <1>2, <1>13, <1>a, <1>b, <1>c, <2>1 DEF LeaveTopic, At
<1>14. ASSUME NEW s \in Spawns, RunAgentEnds(s) PROVE ScopeInv'
  <2> DEFINE to == CASE ses[s].at = "out" -> "over" [] ses[s].at = "orphaned" -> "over_orphaned"
                     [] OTHER -> "over_subscribed"
  <2>1. PICK r : ses' = [ses EXCEPT ![s].at = to, ![s].result = r] BY <1>b, <1>14 DEF RunAgentEnds
  <2>2. to # "off" OBVIOUS
  <2> HIDE DEF to
  <2> QED BY <1>2, <1>14, <1>a, <1>b, <1>c, <2>1, <2>2 DEF RunAgentEnds, At
<1>15. CASE UNCHANGED sesVars BY <1>b, <1>c, <1>15, ScopeKept DEF sesVars
<1> QED
  BY <1>1, <1>3, <1>4, <1>5, <1>6, <1>7, <1>8, <1>9, <1>10, <1>11, <1>12, <1>13, <1>14, <1>15
  DEF SessionNext

(* THEOREM: what an agent's tool call writes is stamped with its own ticket *)
(* and reaches another one only from a role that may cross tickets.         *)
THEOREM SessionWritesInScope == SessionSpec => []WritesInScope
<1>1. ScopeInv => WritesInScope BY DEF ScopeInv
<1> QED BY ScopeInit, ScopeStep, <1>1, PTL DEF SessionSpec

-----------------------------------------------------------------------------
(* Host: one daemon.  A daemon that counts is the one the files name; while   *)
(* there is one, whoever may still write is watching or killing it, or is     *)
(* about to remove a process file beside its container file; and an operator  *)
(* that is still alone in starting one found none.                            *)
Counts(d) == d \in Daemons /\ AliveDaemon(d) /\ proc[d].known
NoneCounts == \A d : ~Counts(d)
HopFields == {"at", "docker", "port", "d", "alone"}
DaemonRecords == [kind : {"host", "docker", "foreground"}, port : Nat, st : {"starting", "serving", "dead"},
                  known : BOOLEAN]
HopSound(h) ==
  /\ DOMAIN h = HopFields /\ {h.alone, h.docker} \subseteq BOOLEAN /\ h.port \in Nat
  /\ h.at \in {"record", "address", "poll", "clear", "kill"} => h.d \in Daemons
HostShape ==
  /\ proc \in Seq(DaemonRecords) /\ {pidFile, ctrFile} \subseteq {0} \cup Daemons
  /\ DOMAIN hop = Operators /\ \A o \in Operators : HopSound(hop[o])
FilesName == \A d : Counts(d) => ctrFile = d \/ (ctrFile = 0 /\ pidFile = d)
BusyWith ==
  \A d : Counts(d) => \A o \in Operators : MayWrite(o) =>
    \/ hop[o].at \in {"address", "poll", "kill"} /\ hop[o].d = d
    \/ hop[o].at = "clear" /\ ~hop[o].docker /\ ctrFile = d
StartsAlone ==
  \A o \in Operators : hop[o].at \in {"stale", "launch", "record"} /\ hop[o].alone =>
    /\ hop[o].at # "stale" => ctrFile = 0 /\ pidFile = 0
    /\ \A q \in Operators \ {o} : ~MayWrite(q)
HostInv == HostShape /\ FilesName /\ BusyWith /\ StartsAlone

(* LEMMA: a daemon that counts is the one daemon_status finds. *)
LEMMA CountedIsFound ==
  ASSUME HostInv, NEW d, Counts(d)
  PROVE  RunningDaemon = {d}
<1>1. d # 0 /\ AliveDaemon(d)
  <2>1. DOMAIN proc = 1..Len(proc) /\ Len(proc) \in Nat BY LenProperties DEF HostInv, HostShape
  <2> QED BY <2>1 DEF Counts, Daemons
<1>2. ctrFile = d \/ (ctrFile = 0 /\ pidFile = d) BY DEF HostInv, FilesName
<1> QED BY <1>1, <1>2 DEF RunningDaemon

(* LEMMA: what the files lead to is a daemon that was started.               *)
LEMMA FoundIsDaemon ==
  ASSUME HostShape
  PROVE  RunningDaemon \subseteq Daemons
  BY DEF RunningDaemon, OrphanOnPort, HostShape

(* LEMMA: one daemon more, that nobody knows yet; one daemon changed. *)
LEMMA DaemonAdded ==
  ASSUME NEW s \in Seq(DaemonRecords), NEW kind \in {"host", "docker", "foreground"}, NEW port \in Nat
  PROVE  /\ Append(s, NewDaemon(kind, port)) \in Seq(DaemonRecords)
         /\ DOMAIN Append(s, NewDaemon(kind, port)) = DOMAIN s \cup {Len(s) + 1}
         /\ \A d \in DOMAIN s : Append(s, NewDaemon(kind, port))[d] = s[d]
         /\ Append(s, NewDaemon(kind, port))[Len(s) + 1].known = FALSE
<1> DEFINE r == NewDaemon(kind, port)
<1>1. r \in DaemonRecords /\ r.known = FALSE BY DEF NewDaemon, DaemonRecords
<1> HIDE DEF r
<1>2. DOMAIN s = 1..Len(s) /\ Len(s) \in Nat BY LenProperties
<1>3. /\ Append(s, r) \in Seq(DaemonRecords) /\ Append(s, r)[Len(s) + 1] = r
      /\ \A i \in 1..Len(s) : Append(s, r)[i] = s[i] /\ Len(Append(s, r)) = Len(s) + 1
  BY <1>1, AppendProperties
<1>4. DOMAIN Append(s, r) = 1..(Len(s) + 1) BY <1>1, AppendProperties
<1>5. DOMAIN Append(s, r) = DOMAIN s \cup {Len(s) + 1} BY <1>2, <1>4
<1> QED BY <1>1, <1>2, <1>3, <1>5 DEF r

(* LEMMA: a change to one daemon's record changes no other's.                *)
LEMMA DaemonChanged ==
  ASSUME NEW s \in Seq(DaemonRecords), NEW d \in DOMAIN s, NEW v \in DaemonRecords
  PROVE  /\ [s EXCEPT ![d] = v] \in Seq(DaemonRecords) /\ DOMAIN [s EXCEPT ![d] = v] = DOMAIN s
         /\ \A e \in DOMAIN s : [s EXCEPT ![d] = v][e] = IF e = d THEN v ELSE s[e]
  OBVIOUS

(* LEMMA: no daemon comes to count, and nobody begins anything. *)
LEMMA HostQuiet ==
  ASSUME HostInv, HostShape', \A d : Counts(d)' => Counts(d),
         NoneCounts' \/ UNCHANGED <<ctrFile, pidFile>>,
         ctrFile' \in {ctrFile, 0}, pidFile' \in {pidFile, 0},
         \A o \in Operators : MayWrite(o)' =>
           /\ MayWrite(o)
           /\ \/ hop'[o] = hop[o]
              \/ /\ hop'[o].at = hop[o].at /\ hop'[o].d = hop[o].d
                 /\ hop'[o].docker = hop[o].docker /\ ~hop'[o].alone
              \/ hop'[o].at = "poll" /\ hop[o].at = "address" /\ hop'[o].d = hop[o].d
              \/ NoneCounts' /\ hop'[o].at \notin {"stale", "launch", "record"}
              \/ /\ NoneCounts' /\ hop'[o].alone = hop[o].alone
                 /\ hop'[o].at \in {"launch", "record"} /\ hop[o].at \in {"stale", "launch"}
                 /\ hop[o].at = "stale" => ctrFile' = 0 /\ pidFile' = 0
  PROVE  HostInv'
<1> USE DEF HostInv
<1>1. FilesName' BY DEF FilesName, NoneCounts
<1>2. BusyWith'
  <2> SUFFICES ASSUME NEW d, Counts(d)', NEW o \in Operators, MayWrite(o)'
               PROVE  \/ hop'[o].at \in {"address", "poll", "kill"} /\ hop'[o].d = d
                      \/ hop'[o].at = "clear" /\ ~hop'[o].docker /\ ctrFile' = d
    BY DEF BusyWith
  <2>1. Counts(d) /\ MayWrite(o) /\ ctrFile' = ctrFile BY DEF NoneCounts
  <2>2. \/ hop[o].at \in {"address", "poll", "kill"} /\ hop[o].d = d
        \/ hop[o].at = "clear" /\ ~hop[o].docker /\ ctrFile = d
    BY <2>1 DEF BusyWith
  <2>3. CASE hop'[o] = hop[o] BY <2>1, <2>2, <2>3
  <2>4. CASE hop'[o].at = hop[o].at /\ hop'[o].d = hop[o].d /\ hop'[o].docker = hop[o].docker
    BY <2>1, <2>2, <2>4
  <2>5. CASE hop'[o].at = "poll" /\ hop[o].at = "address" /\ hop'[o].d = hop[o].d BY <2>2, <2>5
  <2> QED BY <2>3, <2>4, <2>5 DEF NoneCounts
<1>3. StartsAlone'
  <2> SUFFICES ASSUME NEW o \in Operators, hop'[o].at \in {"stale", "launch", "record"}, hop'[o].alone
               PROVE  /\ hop'[o].at # "stale" => ctrFile' = 0 /\ pidFile' = 0
                      /\ \A q \in Operators \ {o} : ~MayWrite(q)'
    BY DEF StartsAlone
  <2>1. MayWrite(o)' BY DEF MayWrite
  <2>2. /\ hop[o].alone /\ hop[o].at \in {"stale", "launch", "record"}
        /\ \/ hop'[o].at = hop[o].at
           \/ hop[o].at # "record" /\ (hop[o].at = "stale" => ctrFile' = 0 /\ pidFile' = 0)
    BY <2>1
  <2>3. /\ hop[o].at # "stale" => ctrFile = 0 /\ pidFile = 0
        /\ \A q \in Operators \ {o} : ~MayWrite(q)
    BY <2>2 DEF StartsAlone
  <2>4. \A q \in Operators \ {o} : ~MayWrite(q)' BY <2>3
  <2> QED BY <2>2, <2>3, <2>4
<1> QED BY <1>1, <1>2, <1>3

(* LEMMA: an operator begins something else than a start, or finds none. *)
LEMMA HopBegins ==
  ASSUME HostInv, NEW o \in Operators, NEW next, HopSound(next), Begins(o, next), UNCHANGED proc
  PROVE  /\ DOMAIN hop' = Operators /\ \A p \in Operators : HopSound(hop'[p])
         /\ hop'[o].at = next.at /\ hop'[o].d = next.d
         /\ hop'[o].docker = next.docker /\ hop'[o].alone = (\A q \in Operators \ {o} : ~MayWrite(q))
         /\ \A p \in Operators \ {o} : /\ hop'[p].at = hop[p].at /\ hop'[p].d = hop[p].d
                                      /\ hop'[p].docker = hop[p].docker /\ (MayWrite(p)' <=> MayWrite(p))
                                      /\ (MayWrite(p) => ~hop'[p].alone)
<1> DEFINE alone == \A q \in Operators \ {o} : ~MayWrite(q)
           mine == [next EXCEPT !.alone = alone]
<1>1. /\ DOMAIN hop' = Operators /\ hop'[o] = mine
      /\ \A p \in Operators \ {o} : hop'[p] = IF MayWrite(p) THEN [hop[p] EXCEPT !.alone = FALSE] ELSE hop[p]
  BY DEF Begins
<1>2. alone \in BOOLEAN OBVIOUS
<1> HIDE DEF alone
<1>3. /\ DOMAIN mine = HopFields /\ mine.alone = alone /\ mine.port = next.port /\ mine.at = next.at
      /\ mine.d = next.d /\ mine.docker = next.docker
  BY DEF HopSound, HopFields
<1> HIDE DEF mine
<1>4. HopSound(mine) BY <1>2, <1>3 DEF HopSound
<1>5. ASSUME NEW p \in Operators \ {o}
      PROVE  /\ HopSound(hop'[p]) /\ hop'[p].at = hop[p].at /\ hop'[p].d = hop[p].d
             /\ hop'[p].docker = hop[p].docker /\ (MayWrite(p) => ~hop'[p].alone)
  <2>1. HopSound(hop[p]) BY DEF HostInv, HostShape
  <2>2. CASE MayWrite(p)
    <3> DEFINE h == [hop[p] EXCEPT !.alone = FALSE]
    <3>1. /\ DOMAIN h = HopFields /\ h.alone = FALSE /\ h.port = hop[p].port /\ h.at = hop[p].at
          /\ h.d = hop[p].d /\ h.docker = hop[p].docker
      BY <2>1 DEF HopSound, HopFields
    <3>2. hop'[p] = h BY <1>1, <2>2
    <3> HIDE DEF h
    <3> QED BY <2>1, <3>1, <3>2 DEF HopSound
  <2>3. CASE ~MayWrite(p) BY <1>1, <2>1, <2>3
  <2> QED BY <2>2, <2>3
<1>6. \A p \in Operators \ {o} : MayWrite(p)' <=> MayWrite(p) BY <1>5 DEF MayWrite
<1>7. hop'[o].alone = alone BY <1>1, <1>3
<1> QED BY <1>1, <1>3, <1>4, <1>5, <1>6, <1>7 DEF alone

(* LEMMA: no daemon is there and nobody is busy.                             *)
LEMMA HostInitOK == HostInit => HostInv
<1> SUFFICES ASSUME HostInit PROVE HostInv OBVIOUS
<1>1. proc \in Seq(DaemonRecords) BY EmptySeq DEF HostInit
<1>2. \A o \in Operators : HopSound(hop[o]) /\ hop[o].at = "idle"
  BY DEF HostInit, NoOp, HopSound, HopFields
<1>3. HostShape BY <1>1, <1>2 DEF HostInit, HostShape
<1>4. NoneCounts BY DEF HostInit, NoneCounts, Counts, Daemons
<1> QED BY <1>2, <1>3, <1>4 DEF HostInv, NoneCounts, FilesName, BusyWith, StartsAlone

(* LEMMA: no step of the operators', of a daemon or of docker makes two      *)
(* daemons count.                                                            *)
LEMMA HostStep ==
  ASSUME HostInv, [HostNext]_hostVars
  PROVE  HostInv'
<1>a. /\ proc \in Seq(DaemonRecords) /\ DOMAIN hop = Operators /\ \A o \in Operators : HopSound(hop[o])
      /\ Daemons = DOMAIN proc /\ DOMAIN proc = 1..Len(proc) /\ Len(proc) \in Nat
      /\ {pidFile, ctrFile} \subseteq {0} \cup Daemons
  BY LenProperties DEF HostInv, HostShape, Daemons
<1>b. HopSound(NoOp) /\ NoOp.at = "idle" BY DEF HopSound, HopFields, NoOp
<1>c. RunningDaemon = {} => NoneCounts BY CountedIsFound DEF NoneCounts
<1>d. ASSUME NEW o \in Operators, hop[o].at \in {"stale", "launch", "record", "unlink", "wipe", "tidy"}
      PROVE  NoneCounts
  BY <1>d DEF HostInv, BusyWith, NoneCounts, MayWrite
\* An operator goes on to another step, with the daemon d.
<1>f. ASSUME NEW o \in Operators, NEW at, NEW d, hop' = [hop EXCEPT ![o].at = at, ![o].d = d]
      PROVE  /\ DOMAIN hop' = Operators /\ \A p \in Operators \ {o} : hop'[p] = hop[p]
             /\ DOMAIN hop'[o] = HopFields /\ hop'[o].alone = hop[o].alone /\ hop'[o].port = hop[o].port
             /\ hop'[o].at = at /\ hop'[o].d = d /\ hop'[o].docker = hop[o].docker
  BY <1>a, <1>f DEF HopSound, HopFields
<1>g. ASSUME NEW o \in Operators, NEW at, hop' = [hop EXCEPT ![o].at = at]
      PROVE  /\ DOMAIN hop' = Operators /\ \A p \in Operators \ {o} : hop'[p] = hop[p]
             /\ DOMAIN hop'[o] = HopFields /\ hop'[o].alone = hop[o].alone /\ hop'[o].port = hop[o].port
             /\ hop'[o].at = at /\ hop'[o].d = hop[o].d /\ hop'[o].docker = hop[o].docker
             /\ \A p \in Operators \ {o} : MayWrite(p)' <=> MayWrite(p)
  BY <1>a, <1>g DEF HopSound, HopFields, MayWrite
<1>h. ASSUME UNCHANGED <<proc, pidFile, ctrFile>>, DOMAIN hop' = Operators,
             \A o \in Operators : HopSound(hop'[o])
      PROVE  HostShape' /\ (\A d : Counts(d)' <=> Counts(d)) /\ (NoneCounts' <=> NoneCounts)
  BY <1>a, <1>h DEF HostShape, HopSound, Counts, NoneCounts, Daemons, AliveDaemon
\* An operator begins where no daemon counts.
<1>i. ASSUME NEW o \in Operators, NEW next, HopSound(next), Begins(o, next), NoneCounts,
             next.at \in {"launch", "record"} => ctrFile = 0 /\ pidFile = 0,
             UNCHANGED <<proc, pidFile, ctrFile>>
      PROVE  HostInv'
  <2>1. /\ DOMAIN hop' = Operators /\ \A p \in Operators : HopSound(hop'[p])
        /\ hop'[o].at = next.at /\ hop'[o].alone = (\A q \in Operators \ {o} : ~MayWrite(q))
        /\ \A p \in Operators \ {o} : hop'[p].at = hop[p].at /\ (MayWrite(p)' <=> MayWrite(p))
        /\ \A p \in Operators \ {o} : MayWrite(p) => ~hop'[p].alone
    <3>1. UNCHANGED proc BY <1>i
    <3> QED BY <1>i, <3>1, HopBegins
  <2>2. HostShape' /\ NoneCounts' BY <1>h, <1>i, <2>1
  <2>3. StartsAlone'
    <3> SUFFICES ASSUME NEW p \in Operators, hop'[p].at \in {"stale", "launch", "record"}, hop'[p].alone
                 PROVE  /\ hop'[p].at # "stale" => ctrFile' = 0 /\ pidFile' = 0
                        /\ \A q \in Operators \ {p} : ~MayWrite(q)'
      BY DEF StartsAlone
    <3>1. p = o BY <2>1 DEF MayWrite
    <3> QED BY <1>i, <2>1, <3>1
  <2> QED BY <2>2, <2>3 DEF HostInv, NoneCounts, FilesName, BusyWith
<1>1. ASSUME NEW o \in Operators, NEW docker \in BOOLEAN, StartDaemon(o, docker) PROVE HostInv'
  <2>d. PICK next : next = [NoOp EXCEPT !.at = IF StaleFiles THEN "stale" ELSE "launch",
                                        !.docker = docker, !.port = AllocatePort]
    OBVIOUS
  <2>1. /\ RunningDaemon = {} /\ Begins(o, next) /\ UNCHANGED <<proc, pidFile, ctrFile>>
    BY <1>1, <2>d DEF StartDaemon
  <2>2. AllocatePort \in Nat BY <1>a DEF AllocatePort, Preferred
  <2>3. HopSound(next) /\ next.at = IF StaleFiles THEN "stale" ELSE "launch"
    BY <2>2, <2>d DEF HopSound, HopFields, NoOp
  <2>4. next.at \in {"launch", "record"} => ctrFile = 0 /\ pidFile = 0 BY <2>1, <2>3 DEF StaleFiles
  <2> QED BY <1>c, <1>i, <2>1, <2>3, <2>4
<1>18. ASSUME NEW o \in Operators, ClearStale(o) \/ StopTidies(o) \/ WipeProject(o) PROVE HostInv'
  <2>1. /\ hop[o].at \in {"stale", "tidy", "wipe"} /\ UNCHANGED proc /\ pidFile' = 0 /\ ctrFile' = 0
        /\ \/ hop' = [hop EXCEPT ![o].at = "launch"] /\ hop[o].at = "stale"
           \/ hop' = [hop EXCEPT ![o] = NoOp]
    BY <1>18 DEF ClearStale, StopTidies, WipeProject
  <2>2. NoneCounts /\ NoneCounts' BY <1>d, <2>1 DEF NoneCounts, Counts, Daemons, AliveDaemon
  <2>3. CASE hop' = [hop EXCEPT ![o].at = "launch"] /\ hop[o].at = "stale"
    <3>1. /\ DOMAIN hop' = Operators /\ \A p \in Operators \ {o} : hop'[p] = hop[p]
          /\ DOMAIN hop'[o] = HopFields /\ hop'[o].alone = hop[o].alone /\ hop'[o].port = hop[o].port
          /\ hop'[o].at = "launch" /\ hop'[o].docker = hop[o].docker
          /\ \A p \in Operators \ {o} : MayWrite(p)' <=> MayWrite(p)
      BY <1>g, <2>3
    <3>2. HostShape' BY <1>a, <2>1, <3>1 DEF HostShape, HopSound, Daemons
    <3>3. MayWrite(o) BY <2>3 DEF MayWrite
    <3> QED BY <2>1, <2>2, <2>3, <3>1, <3>2, <3>3, HostQuiet DEF NoneCounts
  <2>4. CASE hop' = [hop EXCEPT ![o] = NoOp]
    <3>1. HostShape' BY <1>a, <1>b, <2>1, <2>4 DEF HostShape, HopSound, Daemons
    <3>2. \A p \in Operators : MayWrite(p)' => MayWrite(p) /\ hop'[p] = hop[p]
      BY <1>a, <1>b, <2>4 DEF MayWrite
    <3> QED BY <2>1, <2>2, <3>1, <3>2, HostQuiet DEF NoneCounts
  <2> QED BY <2>1, <2>3, <2>4
<1>2. ASSUME NEW o \in Operators, LaunchProcess(o) PROVE HostInv'
  <2>1. /\ hop[o].at = "launch" /\ proc' = Append(proc, NewDaemon("host", hop[o].port))
        /\ hop' = [hop EXCEPT ![o].at = "record", ![o].d = Len(proc) + 1] /\ UNCHANGED <<pidFile, ctrFile>>
    BY <1>2 DEF LaunchProcess
  <2>2. hop[o].port \in Nat BY <1>a DEF HopSound
  <2>3. /\ proc' \in Seq(DaemonRecords) /\ DOMAIN proc' = DOMAIN proc \cup {Len(proc) + 1}
        /\ \A d \in DOMAIN proc : proc'[d] = proc[d]
        /\ proc'[Len(proc) + 1].known = FALSE
    BY <1>a, <2>1, <2>2, DaemonAdded
  <2>4. NoneCounts' BY <1>d, <2>1, <2>3 DEF NoneCounts, Counts, Daemons, AliveDaemon
  <2>5. /\ DOMAIN hop' = Operators /\ \A p \in Operators \ {o} : hop'[p] = hop[p]
        /\ DOMAIN hop'[o] = HopFields /\ hop'[o].alone = hop[o].alone /\ hop'[o].port = hop[o].port
        /\ hop'[o].at = "record" /\ hop'[o].d = Len(proc) + 1 /\ hop'[o].docker = hop[o].docker
    BY <1>f, <2>1
  <2>6. HostShape' BY <1>a, <2>1, <2>2, <2>3, <2>5 DEF HostShape, HopSound, Daemons
  <2>7. MayWrite(o) /\ \A p \in Operators \ {o} : MayWrite(p)' <=> MayWrite(p) BY <2>1, <2>5 DEF MayWrite
  <2> QED BY <2>1, <2>4, <2>5, <2>6, <2>7, HostQuiet DEF NoneCounts
<1>3. ASSUME NEW o \in Operators, NEW ok \in BOOLEAN, LaunchContainer(o, ok) PROVE HostInv'
  <2>1. hop[o].at = "launch" /\ UNCHANGED <<pidFile, ctrFile>> BY <1>3 DEF LaunchContainer
  <2>2. /\ NoContainers \in Seq(DaemonRecords) /\ DOMAIN NoContainers = DOMAIN proc
        /\ Len(NoContainers) = Len(proc)
        /\ \A d \in DOMAIN proc : NoContainers[d].st = "dead" \/ NoContainers[d] = proc[d]
    <3>1. ASSUME NEW d \in Daemons
          PROVE  NoContainers[d] \in DaemonRecords /\ (NoContainers[d].st = "dead" \/ NoContainers[d] = proc[d])
      <4>1. proc[d] \in DaemonRecords BY <1>a, <3>1
      <4>2. [proc[d] EXCEPT !.st = "dead"] \in DaemonRecords /\ [proc[d] EXCEPT !.st = "dead"].st = "dead"
        BY <4>1 DEF DaemonRecords
      <4> QED BY <4>1, <4>2 DEF NoContainers
    <3>2. NoContainers \in [1..Len(proc) -> DaemonRecords] BY <1>a, <3>1 DEF NoContainers
    <3>3. NoContainers \in Seq(DaemonRecords) BY <1>a, <3>2
    <3> QED BY <1>a, <3>1, <3>2, <3>3, LenProperties DEF Daemons
  <2>3. /\ proc' = IF ok THEN Append(NoContainers, NewDaemon("docker", hop[o].port)) ELSE NoContainers
        /\ hop' = [hop EXCEPT ![o] = IF ok THEN [@ EXCEPT !.at = "record", !.d = Len(proc) + 1] ELSE NoOp]
    BY <1>3 DEF LaunchContainer
  <2>4. hop[o].port \in Nat BY <1>a DEF HopSound
  <2>5. NoneCounts BY <1>d, <2>1
  <2>6. CASE ok
    <3>1. /\ hop' = [hop EXCEPT ![o].at = "record", ![o].d = Len(proc) + 1]
          /\ proc' = Append(NoContainers, NewDaemon("docker", hop[o].port))
      BY <2>3, <2>6
    <3>2. /\ proc' \in Seq(DaemonRecords) /\ DOMAIN proc' = DOMAIN proc \cup {Len(proc) + 1}
          /\ \A d \in DOMAIN proc : proc'[d] = NoContainers[d]
          /\ proc'[Len(proc) + 1].known = FALSE
      <4> DEFINE port == hop[o].port
                 n == NoContainers
      <4>1. n \in Seq(DaemonRecords) /\ port \in Nat /\ DOMAIN n = DOMAIN proc /\ Len(n) = Len(proc)
        BY <2>2, <2>4
      <4>2. proc' = Append(n, NewDaemon("docker", port)) BY <3>1
      <4> HIDE DEF port, n
      <4>3. /\ Append(n, NewDaemon("docker", port)) \in Seq(DaemonRecords)
            /\ DOMAIN Append(n, NewDaemon("docker", port)) = DOMAIN n \cup {Len(n) + 1}
            /\ \A d \in DOMAIN n : Append(n, NewDaemon("docker", port))[d] = n[d]
            /\ Append(n, NewDaemon("docker", port))[Len(n) + 1].known = FALSE
        BY <4>1, DaemonAdded
      <4> QED BY <4>1, <4>2, <4>3 DEF n
    <3>3. NoneCounts' BY <2>2, <2>5, <3>2 DEF NoneCounts, Counts, Daemons, AliveDaemon
    <3>4. /\ DOMAIN hop' = Operators /\ \A p \in Operators \ {o} : hop'[p] = hop[p]
          /\ DOMAIN hop'[o] = HopFields /\ hop'[o].alone = hop[o].alone /\ hop'[o].port = hop[o].port
          /\ hop'[o].at = "record" /\ hop'[o].d = Len(proc) + 1 /\ hop'[o].docker = hop[o].docker
      <4> DEFINE at == "record"
                 d == Len(proc) + 1
      <4>1. hop' = [hop EXCEPT ![o].at = at, ![o].d = d] BY <3>1
      <4> HIDE DEF at, d
      <4>2. /\ DOMAIN hop' = Operators /\ \A p \in Operators \ {o} : hop'[p] = hop[p]
            /\ DOMAIN hop'[o] = HopFields /\ hop'[o].alone = hop[o].alone /\ hop'[o].port = hop[o].port
            /\ hop'[o].at = at /\ hop'[o].d = d /\ hop'[o].docker = hop[o].docker
        BY <1>a, <4>1 DEF HopSound, HopFields
      <4> QED BY <4>2 DEF at, d
    <3>5. HostShape' BY <1>a, <2>1, <2>4, <3>2, <3>4 DEF HostShape, HopSound, Daemons
    <3>6. MayWrite(o) /\ \A p \in Operators \ {o} : MayWrite(p)' <=> MayWrite(p) BY <2>1, <3>4 DEF MayWrite
    <3> QED BY <2>1, <3>3, <3>4, <3>5, <3>6, HostQuiet DEF NoneCounts
  <2>7. CASE ~ok
    <3>1. hop' = [hop EXCEPT ![o] = NoOp] /\ proc' = NoContainers BY <2>3, <2>7
    <3>2. HostShape' BY <1>a, <1>b, <2>1, <2>2, <3>1 DEF HostShape, HopSound, Daemons
    <3>3. NoneCounts' BY <2>2, <2>5, <3>1 DEF NoneCounts, Counts, Daemons, AliveDaemon
    <3>4. \A p \in Operators : MayWrite(p)' => MayWrite(p) /\ hop'[p] = hop[p]
      BY <1>a, <1>b, <3>1 DEF MayWrite
    <3> QED BY <1>a, <1>b, <2>1, <3>1, <3>2, <3>3, <3>4, HostQuiet DEF NoneCounts
  <2> QED BY <2>6, <2>7
<1>4. ASSUME NEW o \in Operators, RecordDaemon(o) PROVE HostInv'
  <2> DEFINE d == hop[o].d
             v == [proc[d] EXCEPT !.known = hop[o].alone]
  <2>1. /\ hop[o].at = "record" /\ hop' = [hop EXCEPT ![o].at = "address"] /\ proc' = [proc EXCEPT ![d] = v]
        /\ \/ hop[o].docker /\ ctrFile' = d /\ UNCHANGED pidFile
           \/ ~hop[o].docker /\ pidFile' = d /\ UNCHANGED ctrFile
    BY <1>4 DEF RecordDaemon
  <2>2. d \in Daemons /\ hop[o].alone \in BOOLEAN BY <1>a, <2>1 DEF HopSound
  <2>3. proc[d] \in DaemonRecords BY <1>a, <2>2
  <2>4. v \in DaemonRecords /\ v.known = hop[o].alone BY <2>2, <2>3 DEF DaemonRecords
  <2> HIDE DEF v
  <2>5. /\ proc' \in Seq(DaemonRecords) /\ DOMAIN proc' = DOMAIN proc
        /\ \A e \in DOMAIN proc : proc'[e] = IF e = d THEN v ELSE proc[e]
    BY <1>a, <2>1, <2>2, <2>4, DaemonChanged
  <2>6. /\ DOMAIN hop' = Operators /\ \A p \in Operators \ {o} : hop'[p] = hop[p]
        /\ DOMAIN hop'[o] = HopFields /\ hop'[o].alone = hop[o].alone /\ hop'[o].port = hop[o].port
        /\ hop'[o].at = "address" /\ hop'[o].d = d /\ hop'[o].docker = hop[o].docker
        /\ \A p \in Operators \ {o} : MayWrite(p)' <=> MayWrite(p)
    BY <1>g, <2>1
  <2>7. HostShape' BY <1>a, <2>1, <2>2, <2>5, <2>6 DEF HostShape, HopSound, Daemons
  <2>8. \A e : Counts(e)' => e = d /\ hop[o].alone
    BY <1>d, <2>1, <2>4, <2>5 DEF NoneCounts, Counts, Daemons, AliveDaemon
  <2>9. hop[o].alone => ctrFile = 0 /\ pidFile = 0 /\ \A q \in Operators \ {o} : ~MayWrite(q)
    BY <2>1 DEF HostInv, StartsAlone
  <2>10. FilesName' BY <2>1, <2>8, <2>9 DEF FilesName
  <2>11. BusyWith' BY <2>6, <2>8, <2>9 DEF BusyWith
  <2>12. StartsAlone'
    <3> SUFFICES ASSUME NEW p \in Operators, hop'[p].at \in {"stale", "launch", "record"}, hop'[p].alone PROVE FALSE
      BY DEF StartsAlone
    <3>1. p # o /\ hop'[p] = hop[p] BY <2>6
    <3>2. MayWrite(o) BY <2>1 DEF MayWrite
    <3> QED BY <2>1, <3>1, <3>2 DEF HostInv, StartsAlone
  <2> QED BY <2>7, <2>10, <2>11, <2>12 DEF HostInv
<1>5. ASSUME NEW o \in Operators, StartSeesDeath(o) PROVE HostInv'
  <2>1. /\ hop[o].at = "poll" /\ ~AliveDaemon(hop[o].d) /\ UNCHANGED <<proc, pidFile, ctrFile>>
        /\ HopSound(hop[o]) /\ hop[o].d \in Daemons
    BY <1>5, <1>a DEF StartSeesDeath, HopSound
  <2>2. CASE hop' = [hop EXCEPT ![o].at = "forget"] /\ ~hop[o].docker
    <3>1. /\ DOMAIN hop' = Operators /\ \A p \in Operators \ {o} : hop'[p] = hop[p]
          /\ DOMAIN hop'[o] = HopFields /\ hop'[o].alone = hop[o].alone /\ hop'[o].port = hop[o].port
          /\ hop'[o].at = "forget" /\ hop'[o].docker = hop[o].docker
          /\ \A p \in Operators \ {o} : MayWrite(p)' <=> MayWrite(p)
      BY <1>g, <2>2
    <3>2. \A p \in Operators : HopSound(hop'[p]) BY <1>a, <2>1, <3>1 DEF HopSound
    <3>3. ~MayWrite(o)' BY <3>1 DEF MayWrite
    <3> QED BY <1>h, <2>1, <3>1, <3>2, <3>3, HostQuiet
  <2>3. ASSUME NEW next, next = [hop[o] EXCEPT !.at = "clear"], Begins(o, next),
               hop[o].docker \/ pidFile \in {hop[o].d, 0}
        PROVE  HostInv'
    <3>1. HopSound(next) /\ next.at = "clear" /\ next.docker = hop[o].docker
      BY <2>1, <2>3 DEF HopSound, HopFields
    <3>2. /\ DOMAIN hop' = Operators /\ \A p \in Operators : HopSound(hop'[p])
          /\ hop'[o].at = "clear" /\ hop'[o].docker = hop[o].docker
          /\ \A p \in Operators \ {o} : /\ hop'[p].at = hop[p].at /\ hop'[p].d = hop[p].d
                                       /\ hop'[p].docker = hop[p].docker /\ (MayWrite(p)' <=> MayWrite(p))
                                       /\ (MayWrite(p) => ~hop'[p].alone)
      BY <2>1, <2>3, <3>1, HopBegins
    <3>3. HostShape' /\ \A e : Counts(e)' <=> Counts(e) BY <1>h, <2>1, <3>2
    <3>4. ASSUME NEW e, Counts(e) PROVE ~hop[o].docker /\ ctrFile = e
      <4>1. hop[o].docker => MayWrite(o) BY <2>1 DEF MayWrite
      <4>2. e # hop[o].d BY <2>1, <3>4 DEF Counts
      <4>3. ~hop[o].docker BY <2>1, <3>4, <4>1, <4>2 DEF HostInv, BusyWith
      <4>4. e # 0 BY <1>a, <3>4 DEF Counts
      <4> QED BY <2>3, <3>4, <4>2, <4>3, <4>4 DEF HostInv, FilesName
    <3>5. FilesName' BY <2>1, <3>3 DEF HostInv, FilesName
    <3>6. BusyWith'
      <4> SUFFICES ASSUME NEW e, Counts(e), NEW p \in Operators, MayWrite(p)'
                   PROVE  \/ hop'[p].at \in {"address", "poll", "kill"} /\ hop'[p].d = e
                          \/ hop'[p].at = "clear" /\ ~hop'[p].docker /\ ctrFile' = e
        BY <3>3 DEF BusyWith
      <4>1. CASE p = o BY <2>1, <3>2, <3>4, <4>1
      <4>2. CASE p # o BY <2>1, <3>2, <4>2 DEF HostInv, BusyWith
      <4> QED BY <4>1, <4>2
    <3>7. StartsAlone'
      <4> SUFFICES ASSUME NEW p \in Operators, hop'[p].at \in {"stale", "launch", "record"}, hop'[p].alone PROVE FALSE
        BY DEF StartsAlone
      <4>1. p # o /\ hop[p].at = hop'[p].at BY <3>2
      <4>2. MayWrite(p) BY <4>1 DEF MayWrite
      <4> QED BY <3>2, <4>1, <4>2
    <3> QED BY <3>3, <3>5, <3>6, <3>7 DEF HostInv
  <2> QED BY <1>5, <2>2, <2>3 DEF StartSeesDeath
<1>16. ASSUME NEW o \in Operators, ClearRecord(o) PROVE HostInv'
  <2>1. /\ hop[o].at = "clear" /\ hop' = [hop EXCEPT ![o].at = "forget"] /\ UNCHANGED proc /\ MayWrite(o)
        /\ \/ hop[o].docker /\ ctrFile' = 0 /\ UNCHANGED pidFile
           \/ ~hop[o].docker /\ pidFile' = 0 /\ UNCHANGED ctrFile
    BY <1>16 DEF ClearRecord, MayWrite
  <2>2. /\ DOMAIN hop' = Operators /\ \A p \in Operators \ {o} : hop'[p] = hop[p]
        /\ DOMAIN hop'[o] = HopFields /\ hop'[o].alone = hop[o].alone /\ hop'[o].port = hop[o].port
        /\ hop'[o].at = "forget" /\ hop'[o].docker = hop[o].docker
        /\ \A p \in Operators \ {o} : MayWrite(p)' <=> MayWrite(p)
    BY <1>g, <2>1
  <2>3. HostShape' /\ ~MayWrite(o)' BY <1>a, <2>1, <2>2 DEF HostShape, HopSound, Daemons, MayWrite
  <2>4. \A e : Counts(e)' <=> Counts(e) BY <2>1 DEF Counts, Daemons, AliveDaemon
  <2>5. \A e : Counts(e) => ~hop[o].docker /\ ctrFile = e BY <2>1 DEF HostInv, BusyWith
  <2>6. FilesName' BY <2>1, <2>4, <2>5 DEF FilesName
  <2>7. BusyWith' BY <2>1, <2>2, <2>3, <2>4, <2>5 DEF HostInv, BusyWith
  <2>8. StartsAlone' BY <2>1, <2>2 DEF HostInv, StartsAlone
  <2> QED BY <2>3, <2>6, <2>7, <2>8 DEF HostInv
<1>17. ASSUME NEW o \in Operators, WriteAddress(o) PROVE HostInv'
  <2>1. hop[o].at = "address" /\ hop' = [hop EXCEPT ![o].at = "poll"] /\ UNCHANGED <<proc, pidFile, ctrFile>>
    BY <1>17 DEF WriteAddress
  <2>2. /\ DOMAIN hop' = Operators /\ \A p \in Operators \ {o} : hop'[p] = hop[p]
        /\ DOMAIN hop'[o] = HopFields /\ hop'[o].alone = hop[o].alone /\ hop'[o].port = hop[o].port
        /\ hop'[o].at = "poll" /\ hop'[o].d = hop[o].d /\ hop'[o].docker = hop[o].docker
        /\ \A p \in Operators \ {o} : MayWrite(p)' <=> MayWrite(p)
    BY <1>g, <2>1
  <2>3. \A p \in Operators : HopSound(hop'[p]) BY <1>a, <2>1, <2>2 DEF HopSound
  <2>4. MayWrite(o)' => MayWrite(o) BY <2>1, <2>2 DEF MayWrite
  <2> QED BY <1>h, <2>1, <2>2, <2>3, <2>4, HostQuiet
<1>6. ASSUME NEW o \in Operators, hop' = [hop EXCEPT ![o] = NoOp], UNCHANGED <<proc, pidFile, ctrFile>>
      PROVE  HostInv'
  <2>1. DOMAIN hop' = Operators /\ \A p \in Operators : HopSound(hop'[p]) BY <1>a, <1>b, <1>6
  <2>2. \A p \in Operators : MayWrite(p)' => MayWrite(p) /\ hop'[p] = hop[p]
    BY <1>a, <1>b, <1>6 DEF MayWrite
  <2> QED BY <1>6, <1>h, <2>1, <2>2, HostQuiet
<1>7. ASSUME NEW o \in Operators, StopDaemon(o) PROVE HostInv'
  <2>1. ASSUME RunningDaemon = {}, Begins(o, [NoOp EXCEPT !.at = "tidy"]), UNCHANGED <<proc, pidFile, ctrFile>>
        PROVE  HostInv'
    <3>1. PICK next : next = [NoOp EXCEPT !.at = "tidy"] OBVIOUS
    <3>2. HopSound(next) /\ next.at = "tidy" BY <3>1 DEF HopSound, HopFields, NoOp
    <3>3. Begins(o, next) BY <2>1, <3>1
    <3> QED BY <1>c, <1>i, <2>1, <3>2, <3>3
  <2>2. ASSUME NEW d \in RunningDaemon, Begins(o, [NoOp EXCEPT !.at = "kill", !.d = d]),
               UNCHANGED <<proc, pidFile, ctrFile>>
        PROVE  HostInv'
    <3>d. PICK next : next = [NoOp EXCEPT !.at = "kill", !.d = d] OBVIOUS
    <3>1. d \in Daemons BY FoundIsDaemon, <2>2 DEF HostInv
    <3>2. HopSound(next) /\ next.at = "kill" /\ next.d = d BY <3>1, <3>d DEF HopSound, HopFields, NoOp
    <3>n. Begins(o, next) BY <2>2, <3>d
    <3>3. /\ DOMAIN hop' = Operators /\ \A p \in Operators : HopSound(hop'[p])
          /\ hop'[o].at = "kill" /\ hop'[o].d = d
          /\ \A p \in Operators \ {o} : /\ hop'[p].at = hop[p].at /\ hop'[p].d = hop[p].d
                                       /\ hop'[p].docker = hop[p].docker /\ (MayWrite(p)' <=> MayWrite(p))
                                       /\ (MayWrite(p) => ~hop'[p].alone)
      <4>1. UNCHANGED proc BY <2>2
      <4>2. /\ DOMAIN hop' = Operators /\ \A p \in Operators : HopSound(hop'[p])
            /\ hop'[o].at = next.at /\ hop'[o].d = next.d
            /\ \A p \in Operators \ {o} : /\ hop'[p].at = hop[p].at /\ hop'[p].d = hop[p].d
                                         /\ hop'[p].docker = hop[p].docker /\ (MayWrite(p)' <=> MayWrite(p))
                                         /\ (MayWrite(p) => ~hop'[p].alone)
        BY <1>7, <3>2, <3>n, <4>1, HopBegins
      <4> QED BY <3>2, <4>2
    <3>4. HostShape' /\ \A e : Counts(e)' <=> Counts(e) BY <1>h, <2>2, <3>3
    <3>5. \A e : Counts(e) => e = d BY <2>2, CountedIsFound
    <3>6. FilesName' BY <2>2, <3>4 DEF HostInv, FilesName
    <3>7. BusyWith'
      <4> SUFFICES ASSUME NEW e, Counts(e), NEW p \in Operators, MayWrite(p)'
                   PROVE  \/ hop'[p].at \in {"address", "poll", "kill"} /\ hop'[p].d = e
                          \/ hop'[p].at = "clear" /\ ~hop'[p].docker /\ ctrFile' = e
        BY <3>4 DEF BusyWith
      <4>1. CASE p = o BY <3>3, <3>5, <4>1
      <4>2. CASE p # o BY <2>2, <3>3, <4>2 DEF HostInv, BusyWith
      <4> QED BY <4>1, <4>2
    <3>8. StartsAlone'
      <4> SUFFICES ASSUME NEW p \in Operators, hop'[p].at \in {"stale", "launch", "record"}, hop'[p].alone PROVE FALSE
        BY DEF StartsAlone
      <4>1. p # o /\ hop[p].at = hop'[p].at BY <3>3
      <4>2. MayWrite(p) BY <4>1 DEF MayWrite
      <4> QED BY <3>3, <4>1, <4>2
    <3> QED BY <3>4, <3>6, <3>7, <3>8 DEF HostInv
  <2> QED BY <1>7, <2>1, <2>2 DEF StopDaemon
<1>8. ASSUME NEW o \in Operators, NEW ok \in BOOLEAN, KillDaemon(o, ok) PROVE HostInv'
  <2> DEFINE d == hop[o].d
             v == IF ok THEN [proc[d] EXCEPT !.st = "dead"] ELSE [proc[d] EXCEPT !.known = FALSE]
  <2>1. /\ hop[o].at = "kill" /\ hop' = [hop EXCEPT ![o].at = "unlink"] /\ proc' = [proc EXCEPT ![d] = v]
        /\ UNCHANGED <<pidFile, ctrFile>>
    BY <1>8 DEF KillDaemon
  <2>2. d \in Daemons /\ proc[d] \in DaemonRecords BY <1>a, <2>1 DEF HopSound
  <2>3. v \in DaemonRecords /\ (v.st = "dead" \/ ~v.known) BY <2>2 DEF DaemonRecords
  <2> HIDE DEF v
  <2>4. /\ proc' \in Seq(DaemonRecords) /\ DOMAIN proc' = DOMAIN proc
        /\ \A e \in DOMAIN proc : proc'[e] = IF e = d THEN v ELSE proc[e]
    BY <1>a, <2>1, <2>2, <2>3, DaemonChanged
  <2>m. MayWrite(o) BY <2>1 DEF MayWrite
  <2>5. \A e : Counts(e) => e = d BY <2>1, <2>m DEF HostInv, BusyWith
  <2>6. NoneCounts' BY <2>2, <2>3, <2>4, <2>5 DEF NoneCounts, Counts, Daemons, AliveDaemon
  <2>7. /\ DOMAIN hop' = Operators /\ \A p \in Operators \ {o} : hop'[p] = hop[p]
        /\ DOMAIN hop'[o] = HopFields /\ hop'[o].alone = hop[o].alone /\ hop'[o].port = hop[o].port
        /\ hop'[o].at = "unlink" /\ hop'[o].docker = hop[o].docker
        /\ \A p \in Operators \ {o} : MayWrite(p)' <=> MayWrite(p)
    BY <1>g, <2>1
  <2>8. HostShape' BY <1>a, <2>1, <2>4, <2>7 DEF HostShape, HopSound, Daemons
  <2> QED BY <2>1, <2>m, <2>6, <2>7, <2>8, HostQuiet DEF NoneCounts
<1>9. ASSUME NEW o \in Operators, NEW wipes \in BOOLEAN, StopUnlinks(o, wipes) PROVE HostInv'
  <2>1. /\ hop[o].at = "unlink" /\ pidFile' = 0 /\ ctrFile' = 0 /\ UNCHANGED proc /\ MayWrite(o)
        /\ \/ hop' = [hop EXCEPT ![o].at = "wipe"]
           \/ hop' = [hop EXCEPT ![o] = NoOp]
    BY <1>9 DEF StopUnlinks, MayWrite
  <2>2. NoneCounts' BY <1>d, <2>1 DEF NoneCounts, Counts, Daemons, AliveDaemon
  <2>3. CASE hop' = [hop EXCEPT ![o].at = "wipe"]
    <3>1. /\ DOMAIN hop' = Operators /\ \A p \in Operators \ {o} : hop'[p] = hop[p]
          /\ DOMAIN hop'[o] = HopFields /\ hop'[o].alone = hop[o].alone /\ hop'[o].port = hop[o].port
          /\ hop'[o].at = "wipe" /\ hop'[o].docker = hop[o].docker
          /\ \A p \in Operators \ {o} : MayWrite(p)' <=> MayWrite(p)
      BY <1>g, <2>3
    <3>2. HostShape' BY <1>a, <2>1, <3>1 DEF HostShape, HopSound, Daemons
    <3> QED BY <2>1, <2>2, <3>1, <3>2, HostQuiet DEF NoneCounts
  <2>4. CASE hop' = [hop EXCEPT ![o] = NoOp]
    <3>1. HostShape' BY <1>a, <1>b, <2>1, <2>4 DEF HostShape, HopSound, Daemons
    <3>2. \A p \in Operators : MayWrite(p)' => MayWrite(p) /\ hop'[p] = hop[p]
      BY <1>a, <1>b, <2>4 DEF MayWrite
    <3> QED BY <2>1, <2>2, <3>1, <3>2, HostQuiet DEF NoneCounts
  <2> QED BY <2>1, <2>3, <2>4
<1>10. ASSUME NEW o \in Operators, ResetProject(o) PROVE HostInv'
  <2>1. PICK next : next = [NoOp EXCEPT !.at = "wipe"] OBVIOUS
  <2>2. HopSound(next) /\ next.at = "wipe" BY <2>1 DEF HopSound, HopFields, NoOp
  <2>3. RunningDaemon = {} /\ Begins(o, next) /\ UNCHANGED <<proc, pidFile, ctrFile>>
    BY <1>10, <2>1 DEF ResetProject
  <2> QED BY <1>c, <1>i, <2>2, <2>3
<1>11. ASSUME NEW d \in Daemons, NEW to \in {"serving", "dead"}, AliveDaemon(d),
              proc' = [proc EXCEPT ![d].st = to], UNCHANGED <<pidFile, ctrFile, hop>>
       PROVE  HostInv'
  <2> DEFINE v == [proc[d] EXCEPT !.st = to]
  <2>1. proc[d] \in DaemonRecords BY <1>a
  <2>2. v \in DaemonRecords /\ v.known = proc[d].known BY <2>1 DEF DaemonRecords
  <2>q. proc' = [proc EXCEPT ![d] = v] BY <1>11
  <2> HIDE DEF v
  <2>3. /\ proc' \in Seq(DaemonRecords) /\ DOMAIN proc' = DOMAIN proc
        /\ \A e \in DOMAIN proc : proc'[e] = IF e = d THEN v ELSE proc[e]
    BY <1>a, <2>2, <2>q, DaemonChanged
  <2>4. \A e : Counts(e)' => Counts(e) BY <1>11, <2>2, <2>3 DEF Counts, Daemons, AliveDaemon
  <2>5. HostShape' BY <1>a, <1>11, <2>3 DEF HostShape, HopSound, Daemons
  <2>6. \A o \in Operators : MayWrite(o)' <=> MayWrite(o) BY <1>11 DEF MayWrite
  <2> QED BY <1>11, <2>4, <2>5, <2>6, HostQuiet
<1>12. CASE StartForeground
  <2> DEFINE r == NewDaemon("foreground", 0)
  <2>1. proc' = Append(proc, r) /\ UNCHANGED <<pidFile, ctrFile, hop>>
    BY <1>12 DEF StartForeground, Preferred
  <2>2. /\ proc' \in Seq(DaemonRecords) /\ DOMAIN proc' = DOMAIN proc \cup {Len(proc) + 1}
        /\ \A d \in DOMAIN proc : proc'[d] = proc[d]
        /\ proc'[Len(proc) + 1].known = FALSE
    <3>1. 0 \in Nat OBVIOUS
    <3> QED BY <1>a, <2>1, <3>1, DaemonAdded
  <2>3. \A e : Counts(e)' => Counts(e) BY <2>2 DEF Counts, Daemons, AliveDaemon
  <2>4. HostShape' BY <1>a, <2>1, <2>2 DEF HostShape, HopSound, Daemons
  <2>5. \A o \in Operators : MayWrite(o)' <=> MayWrite(o) BY <2>1 DEF MayWrite
  <2> QED BY <2>1, <2>3, <2>4, <2>5, HostQuiet
<1>13. CASE UNCHANGED hostVars
  <2>1. UNCHANGED <<proc, pidFile, ctrFile, hop>> BY <1>13 DEF hostVars
  <2>2. \A o \in Operators : MayWrite(o)' <=> MayWrite(o) BY <2>1 DEF MayWrite
  <2>3. DOMAIN hop' = Operators /\ \A o \in Operators : HopSound(hop'[o]) BY <1>a, <2>1
  <2> QED BY <1>h, <2>1, <2>2, <2>3, HostQuiet
<1>14. ASSUME NEW o \in Operators, StartSucceeds(o) \/ KillOperator(o) \/ ForgetAddress(o)
       PROVE  HostInv'
  BY <1>6, <1>14 DEF StartSucceeds, KillOperator, ForgetAddress
<1>15. ASSUME NEW d \in Daemons, BindPort(d) \/ DaemonDies(d) PROVE HostInv'
  BY <1>11, <1>15 DEF BindPort, DaemonDies, AliveDaemon
<1> QED
  BY <1>1, <1>2, <1>3, <1>4, <1>5, <1>7, <1>8, <1>9, <1>10, <1>12, <1>13, <1>14, <1>15,
     <1>16, <1>17, <1>18
  DEF HostNext

(* THEOREM: at most one daemon is alive among those that were started while *)
(* nobody else was at it and are known, whatever is killed in between.      *)
THEOREM HostOneDaemon == HostSpec => []OneDaemon
<1>1. ASSUME HostInv PROVE OneDaemon
  <2> DEFINE D == {d \in Daemons : AliveDaemon(d) /\ proc[d].known}
  <2>1. \A d, e : d \in D /\ e \in D => d = e
    <3> SUFFICES ASSUME NEW d, NEW e, Counts(d), Counts(e) PROVE d = e BY DEF Counts
    <3>1. RunningDaemon = {d} /\ RunningDaemon = {e} BY <1>1, CountedIsFound
    <3> QED BY <3>1
  <2> HIDE DEF D
  <2>2. CASE D = {} BY <2>2, FS_EmptySet DEF OneDaemon, D
  <2>3. CASE D # {}
    <3>1. PICK d : D = {d} BY <2>1, <2>3
    <3>2. Cardinality({d}) = 1 BY FS_Singleton
    <3> QED BY <3>1, <3>2 DEF OneDaemon, D
  <2> QED BY <2>2, <2>3
<1> QED BY HostInitOK, HostStep, <1>1, PTL DEF HostSpec

-----------------------------------------------------------------------------
(* Watchers: the tier of a ticket.                                           *)
(* Updates of one ticket's tier wait in the order of their ranks, one step    *)
(* above the tier at most; the watchdog's own times and sets are those of     *)
(* the ticks that saw no life; a pulse is never older than a run in flight.   *)
Writes == [run : AgentRuns, ticket : WatchTickets, tier : Tiers]
TierInv ==
  /\ tier \in [WatchTickets -> Tiers] /\ writes \in Seq(Writes) /\ TierNeverDrops
  /\ \A i \in DOMAIN writes : /\ Rank[tier[writes[i].ticket]] <= Rank[writes[i].tier]
                              /\ Rank[writes[i].tier] <= Rank[tier[writes[i].ticket]] + 1
  /\ \A i, j \in DOMAIN writes :
       i < j /\ writes[i].ticket = writes[j].ticket => Rank[writes[i].tier] <= Rank[writes[j].tier]

(* LEMMA: ranks, and the step of the ladder. *)
LEMMA RankFacts ==
  /\ \A x \in Tiers : Rank[x] \in 0..2
  /\ \A x, y \in Tiers : Rank[x] = Rank[y] => x = y
  /\ \A x \in Tiers : x \in DOMAIN Ladder => Ladder[x] \in Tiers /\ Rank[Ladder[x]] = Rank[x] + 1
BY DEF Tiers, Rank, Ladder

(* LEMMA: the next tier that is written. *)
LEMMA NextTier ==
  ASSUME TierInv, writes # <<>>
  PROVE  /\ writes[1] \in Writes /\ 1 \in DOMAIN writes /\ DOMAIN writes = 1..Len(writes) /\ Len(writes) \in Nat
         /\ Head(writes) = writes[1]
         /\ [tier EXCEPT ![writes[1].ticket] = writes[1].tier]
              = [peak EXCEPT ![writes[1].ticket] = Higher(@, writes[1].tier)]
         /\ [tier EXCEPT ![writes[1].ticket] = writes[1].tier] \in [WatchTickets -> Tiers]
<1> DEFINE w == writes[1]
<1>1. w \in Writes /\ 1 \in DOMAIN writes /\ DOMAIN writes = 1..Len(writes) /\ Len(writes) \in Nat /\ Head(writes) = w
  BY HeadTailProperties, LenProperties DEF TierInv
<1>2. w.ticket \in WatchTickets /\ w.tier \in Tiers BY <1>1 DEF Writes
<1>3. Rank[tier[w.ticket]] <= Rank[w.tier] BY <1>1 DEF TierInv
<1> HIDE DEF w
<1>4. peak = tier /\ tier \in [WatchTickets -> Tiers] BY DEF TierInv, TierNeverDrops
<1>5. Higher(tier[w.ticket], w.tier) = w.tier
  <2>1. tier[w.ticket] \in Tiers BY <1>2, <1>4
  <2> QED BY <1>2, <1>3, <2>1, RankFacts DEF Higher
<1>6. [tier EXCEPT ![w.ticket] = w.tier] = [tier EXCEPT ![w.ticket] = Higher(@, w.tier)] BY <1>5
<1> QED BY <1>1, <1>2, <1>4, <1>6 DEF w

(* LEMMA: no update of a tier waits.                                         *)
LEMMA TierInitOK == WatchersInit => TierInv
<1> SUFFICES ASSUME WatchersInit PROVE TierInv OBVIOUS
<1>1. writes \in Seq(Writes) /\ DOMAIN writes = {} BY EmptySeq DEF WatchersInit
<1> QED BY <1>1 DEF WatchersInit, TierInv, TierNeverDrops, Tiers

(* LEMMA: updates that wait are written in the order of their ranks.         *)
LEMMA TierStep ==
  ASSUME TierInv, [WatchersNext]_watchVars
  PROVE  TierInv'
<1>a. writes \in Seq(Writes) /\ tier \in [WatchTickets -> Tiers] BY DEF TierInv
<1>1. ASSUME UNCHANGED <<tier, peak, writes>> PROVE TierInv' BY <1>1 DEF TierInv, TierNeverDrops
<1>2. ASSUME NEW r \in AgentRuns, EndRun(r) PROVE TierInv'
  <2> DEFINE t == KeyOf[r].ticket
             to == Promotions(t, run[r].status)
             w == [run |-> r, ticket |-> t, tier |-> CHOOSE x \in to : TRUE]
  <2>1. writes' = (IF to = {} THEN writes ELSE Append(writes, w)) /\ UNCHANGED <<tier, peak>>
    BY <1>2 DEF EndRun
  <2>2. t \in WatchTickets BY WatchAssumption
  <2>3. CASE to = {} BY <1>1, <2>1, <2>3
  <2>4. CASE to # {}
    <3>1. tier[t] \in DOMAIN Ladder /\ to = {Ladder[tier[t]]} BY <2>4 DEF Promotions, Target
    <3>2. w.tier = Ladder[tier[t]] /\ w.ticket = t /\ w.run = r BY <3>1
    <3>3. tier[t] \in Tiers BY <1>a, <2>2
    <3>4. w.tier \in Tiers /\ Rank[w.tier] = Rank[tier[t]] + 1 BY <3>1, <3>2, <3>3, RankFacts
    <3>5. w \in Writes BY <2>2, <3>2, <3>4 DEF Writes
    <3>6. writes' = Append(writes, w) BY <2>1, <2>4
    <3> HIDE DEF w, to
    <3>7. /\ writes' \in Seq(Writes) /\ Len(writes) \in Nat /\ DOMAIN writes = 1..Len(writes)
          /\ DOMAIN writes' = 1..(Len(writes) + 1) /\ writes'[Len(writes) + 1] = w
          /\ \A i \in 1..Len(writes) : writes'[i] = writes[i]
      BY <1>a, <3>5, <3>6, AppendProperties, LenProperties
    <3>8. ASSUME NEW i \in DOMAIN writes'
          PROVE  /\ Rank[tier[writes'[i].ticket]] <= Rank[writes'[i].tier]
                 /\ Rank[writes'[i].tier] <= Rank[tier[writes'[i].ticket]] + 1
      <4>1. CASE i \in DOMAIN writes BY <3>7, <4>1 DEF TierInv
      <4>2. CASE i = Len(writes) + 1
        <5>1. Rank[tier[t]] \in 0..2 BY <3>3, RankFacts
        <5> QED BY <3>2, <3>4, <3>7, <4>2, <5>1
      <4> QED BY <3>7, <4>1, <4>2
    <3>9. ASSUME NEW i \in DOMAIN writes', NEW j \in DOMAIN writes', i < j, writes'[i].ticket = writes'[j].ticket
          PROVE  Rank[writes'[i].tier] <= Rank[writes'[j].tier]
      <4>1. CASE j \in DOMAIN writes
        <5>1. i \in DOMAIN writes BY <3>7, <3>9, <4>1
        <5> QED BY <3>7, <3>9, <4>1, <5>1 DEF TierInv
      <4>2. CASE j = Len(writes) + 1
        <5>1. i \in DOMAIN writes BY <3>7, <3>9, <4>2
        <5>2. Rank[writes[i].tier] <= Rank[tier[t]] + 1 BY <3>2, <3>7, <3>9, <4>2, <5>1 DEF TierInv
        <5> QED BY <3>2, <3>4, <3>7, <4>2, <5>1, <5>2
      <4> QED BY <3>7, <4>1, <4>2
    <3> QED BY <1>a, <2>1, <3>7, <3>8, <3>9 DEF TierInv, TierNeverDrops
  <2> QED BY <2>3, <2>4
<1>3. CASE StoreWrites
  <2> DEFINE w == writes[1]
  <2>1. /\ writes # <<>> /\ tier' = [tier EXCEPT ![w.ticket] = w.tier]
        /\ peak' = [peak EXCEPT ![w.ticket] = Higher(@, w.tier)]
        /\ writes' = [j \in 1..(Len(writes) - 1) |-> writes[IF j < 1 THEN j ELSE j + 1]]
    BY <1>3 DEF StoreWrites, NextWrite
  <2>2. /\ w \in Writes /\ 1 \in DOMAIN writes /\ DOMAIN writes = 1..Len(writes) /\ Len(writes) \in Nat
        /\ peak' = tier' /\ tier' \in [WatchTickets -> Tiers]
    BY <2>1, NextTier
  <2>3. w.ticket \in WatchTickets /\ w.tier \in Tiers BY <2>2 DEF Writes
  <2>4. /\ DOMAIN writes' = 1..(Len(writes) - 1)
        /\ \A j \in 1..(Len(writes) - 1) : writes'[j] = writes[j + 1] /\ j + 1 \in DOMAIN writes
    BY <2>1, <2>2
  <2>5. writes' \in Seq(Writes)
    <3>1. Len(writes) - 1 \in Nat BY <2>2
    <3>2. \A j \in 1..(Len(writes) - 1) : writes[j + 1] \in Writes BY <1>a, <2>2, <2>4
    <3>3. writes' \in [1..(Len(writes) - 1) -> Writes] BY <2>1, <2>4, <3>2
    <3> QED BY <3>1, <3>3
  <2> HIDE DEF w
  <2>6. \A t \in WatchTickets : tier'[t] = IF t = w.ticket THEN w.tier ELSE tier[t] BY <1>a, <2>1
  <2>7. ASSUME NEW j \in DOMAIN writes'
        PROVE  /\ Rank[tier'[writes'[j].ticket]] <= Rank[writes'[j].tier]
               /\ Rank[writes'[j].tier] <= Rank[tier'[writes'[j].ticket]] + 1
    <3>1. writes'[j] = writes[j + 1] /\ j + 1 \in DOMAIN writes /\ 1 < j + 1 BY <2>2, <2>4
    <3> DEFINE v == writes[j + 1]
    <3>2. v \in Writes BY <1>a, <3>1
    <3>3. v.ticket \in WatchTickets /\ v.tier \in Tiers BY <3>2 DEF Writes
    <3>4. Rank[tier[v.ticket]] <= Rank[v.tier] /\ Rank[v.tier] <= Rank[tier[v.ticket]] + 1 BY <3>1 DEF TierInv
    <3>5. w.ticket = v.ticket => Rank[w.tier] <= Rank[v.tier] BY <2>2, <3>1 DEF TierInv, w
    <3>6. Rank[tier[w.ticket]] <= Rank[w.tier] BY <2>2 DEF TierInv, w
    <3>7. /\ tier[w.ticket] \in Tiers /\ Rank[tier[w.ticket]] \in 0..2 /\ Rank[w.tier] \in 0..2 /\ Rank[v.tier] \in 0..2
          /\ Rank[tier[v.ticket]] \in 0..2
      BY <1>a, <2>3, <3>3, RankFacts
    <3> HIDE DEF v
    <3>8. Rank[tier'[v.ticket]] <= Rank[v.tier] /\ Rank[v.tier] <= Rank[tier'[v.ticket]] + 1
      <4>1. CASE v.ticket = w.ticket BY <2>3, <2>6, <3>4, <3>5, <3>6, <3>7, <4>1
      <4>2. CASE v.ticket # w.ticket BY <2>6, <3>3, <3>4, <4>2
      <4> QED BY <4>1, <4>2
    <3> QED BY <3>1, <3>8 DEF v
  <2>8. ASSUME NEW i \in DOMAIN writes', NEW j \in DOMAIN writes', i < j, writes'[i].ticket = writes'[j].ticket
        PROVE  Rank[writes'[i].tier] <= Rank[writes'[j].tier]
    <3>1. i + 1 \in DOMAIN writes /\ j + 1 \in DOMAIN writes /\ i + 1 < j + 1
          /\ writes'[i] = writes[i + 1] /\ writes'[j] = writes[j + 1]
      BY <2>2, <2>4, <2>8
    <3> QED BY <2>8, <3>1 DEF TierInv
  <2> QED BY <2>2, <2>5, <2>7, <2>8 DEF TierInv, TierNeverDrops
<1>4. CASE CancelAll
  <2>1. writes' = <<>> BY <1>4 DEF CancelAll
  <2>2. tier' = peak' /\ tier' \in [WatchTickets -> Tiers]
    <3>1. CASE UNCHANGED <<tier, peak>> BY <3>1 DEF TierInv, TierNeverDrops
    <3>2. CASE /\ writes # <<>> /\ tier' = [tier EXCEPT ![Head(writes).ticket] = Head(writes).tier]
               /\ peak' = [peak EXCEPT ![Head(writes).ticket] = Higher(@, Head(writes).tier)]
      <4>1. Head(writes) = writes[1] BY <3>2, NextTier
      <4> QED BY <3>2, <4>1, NextTier
    <3> QED BY <1>4, <3>1, <3>2 DEF CancelAll
  <2>3. writes' \in Seq(Writes) /\ DOMAIN writes' = {} BY <2>1, EmptySeq
  <2> QED BY <2>2, <2>3 DEF TierInv, TierNeverDrops
<1>5. ASSUME NEW r \in AgentRuns, NEW s, StartRun(r) \/ BeginPulse(r) \/ Pulse(r) \/ StopPulse(r, s)
      PROVE  TierInv'
  BY <1>1, <1>5 DEF StartRun, BeginPulse, Pulse, StopPulse, tierVars
<1>6. CASE StallPoll \/ KillScan \/ TimePasses \/ StartupEnds \/ Reload
  BY <1>1, <1>6 DEF StallPoll, KillScan, TimePasses, StartupEnds, Reload, tierVars
<1>7. CASE Shutdown \/ EmergencyReset BY <1>4, <1>7 DEF Shutdown, EmergencyReset
<1>8. ASSUME NEW t, NEW to, OperatorMoves(t, to) \/ TaskMoves(t, to) PROVE TierInv'
  BY <1>1, <1>8 DEF OperatorMoves, TaskMoves, Move, tierVars
<1>9. ASSUME NEW seen, ReconcileTick(seen) PROVE TierInv'
  BY <1>1, <1>9 DEF ReconcileTick, tierVars
<1>10. CASE UNCHANGED watchVars BY <1>1, <1>10 DEF watchVars, tierVars
<1>11. CASE StallNext BY <1>2, <1>3, <1>5, <1>6, <1>7, <1>11 DEF StallNext
<1>12. CASE StuckNext BY <1>6, <1>8, <1>9, <1>12 DEF StuckNext
<1> QED BY <1>10, <1>11, <1>12 DEF WatchersNext

(* THEOREM: however many agents of a ticket end blocked at once, its tier   *)
(* never goes down.                                                         *)
THEOREM TierKept == WatchersSpec => []TierNeverDrops
<1>1. TierInv => TierNeverDrops BY DEF TierInv
<1> QED BY TierInitOK, TierStep, <1>1, PTL DEF WatchersSpec

-----------------------------------------------------------------------------
(* DevEnv: a database goes from under a running agent only by the operator  *)
(* or where the template names the ticket alone.  A file that an agent was   *)
(* given is named after it or after its ticket; whoever removes a file by a  *)
(* template that names the agent removes one named after itself.             *)
AgentFields == {"at", "role", "ticket", "todo", "given", "ok"}
HoldsFiles(b) == agent[b].at \in {"provisioning", "running", "cleaning"}
NamedAfter(f, b) == f.name = Who(b) \/ f.name = <<"any", agent[b].ticket>>

DevInv ==
  /\ DOMAIN agent = DevRuns
  /\ \A b \in DevRuns : DOMAIN agent[b] = AgentFields
  /\ \A b \in DevRuns : HoldsFiles(b) => agent[b].role \in DevRoles
  /\ \A b \in DevRuns : \A f \in agent[b].given : NamedAfter(f, b)
  /\ DatabaseStaysMine

(* LEMMA: an agent that is off or over has nothing. *)
LEMMA NoAgentFacts ==
  /\ DOMAIN NoAgent = AgentFields /\ NoAgent.given = {} /\ NoAgent.at = "off"
  /\ DOMAIN [NoAgent EXCEPT !.at = "over"] = AgentFields
  /\ [NoAgent EXCEPT !.at = "over"].given = {} /\ [NoAgent EXCEPT !.at = "over"].at = "over"
  BY DEF NoAgent, AgentFields

(* LEMMA: nothing has been given to anybody.                                 *)
LEMMA DevInitOK == DevInit => DevInv
<1> SUFFICES ASSUME DevInit PROVE DevInv OBVIOUS
<1>1. agent = [a \in DevRuns |-> NoAgent] /\ robbed = {} BY DEF DevInit
<1> QED BY <1>1, NoAgentFacts DEF DevInv, HoldsFiles, DatabaseStaysMine

(* LEMMA: where one agent moves on under its name and nothing is removed,   *)
(* its files named after it, the invariant stays.                            *)
LEMMA AgentMoves ==
  ASSUME DevInv, NEW a \in DevRuns, NEW r, agent' = [agent EXCEPT ![a] = r], robbed' = robbed,
         DOMAIN r = AgentFields,
         r.at \in {"provisioning", "running", "cleaning"} => r.role \in DevRoles,
         \A f \in r.given : f.name = <<r.role, r.ticket>> \/ f.name = <<"any", r.ticket>>
  PROVE  DevInv'
<1>1. DOMAIN agent' = DevRuns /\ agent'[a] = r BY DEF DevInv
<1>2. \A b \in DevRuns \ {a} : agent'[b] = agent[b] BY DEF DevInv
<1>3. \A b \in DevRuns : DOMAIN agent'[b] = AgentFields BY <1>1, <1>2 DEF DevInv
<1>4. \A b \in DevRuns : HoldsFiles(b)' => agent'[b].role \in DevRoles BY <1>1, <1>2 DEF DevInv, HoldsFiles
<1>5. \A b \in DevRuns : \A f \in agent'[b].given : NamedAfter(f, b)'
  BY <1>1, <1>2 DEF DevInv, NamedAfter, Who
<1>6. DatabaseStaysMine' BY DEF DevInv, DatabaseStaysMine
<1> QED BY <1>1, <1>3, <1>4, <1>5, <1>6 DEF DevInv

(* LEMMA: what a run is given is named after it, and no step takes it away   *)
(* other than as the property allows.                                        *)
LEMMA DevStep ==
  ASSUME DevInv, [DevNext]_devVars
  PROVE  DevInv'
<1>1. ASSUME UNCHANGED <<agent, robbed>> PROVE DevInv'
  BY <1>1 DEF DevInv, HoldsFiles, NamedAfter, Who, DatabaseStaysMine
<1>2. ASSUME NEW a \in DevRuns, NEW role \in DevRoles, NEW t \in DOMAIN DevTickets, SpawnAgent(a, role, t)
      PROVE  DevInv'
  <2> DEFINE r == [NoAgent EXCEPT !.at = "provisioning", !.role = role, !.ticket = t, !.todo = Manifest]
  <2>1. agent' = [agent EXCEPT ![a] = r] /\ robbed' = robbed BY <1>2 DEF SpawnAgent
  <2>2. DOMAIN r = AgentFields /\ r.role = role /\ r.given = {} BY DEF NoAgent, AgentFields
  <2> HIDE DEF r
  <2> QED BY <2>1, <2>2, AgentMoves
<1>3. ASSUME NEW a \in DevRuns, ProvisionService(a) PROVE DevInv'
  <2> DEFINE s == Head(agent[a].todo)
             f == FileOf(s, agent[a].role, agent[a].ticket)
             r == [agent[a] EXCEPT !.todo = Tail(@), !.given = IF HasFile(s) THEN @ \cup {f} ELSE @]
  <2>1. agent' = [agent EXCEPT ![a] = r] /\ robbed' = robbed /\ agent[a].at = "provisioning"
    BY <1>3 DEF ProvisionService
  <2>2. /\ DOMAIN r = AgentFields /\ r.role = agent[a].role /\ r.ticket = agent[a].ticket
        /\ r.given \subseteq agent[a].given \cup {f}
    BY DEF DevInv, AgentFields
  <2>3. f.name = <<agent[a].role, agent[a].ticket>> \/ f.name = <<"any", agent[a].ticket>>
    BY DEF FileOf, render_namespace
  <2>4. \A g \in r.given : g.name = <<r.role, r.ticket>> \/ g.name = <<"any", r.ticket>>
    BY <2>2, <2>3 DEF DevInv, NamedAfter, Who
  <2>5. r.role \in DevRoles BY <2>1, <2>2 DEF DevInv, HoldsFiles
  <2> HIDE DEF r
  <2> QED BY <2>1, <2>2, <2>4, <2>5, AgentMoves
<1>4. ASSUME NEW a \in DevRuns, ProvisioningFails(a) \/ CleanupOver(a) PROVE DevInv'
  <2> DEFINE r == [NoAgent EXCEPT !.at = "over"]
  <2>1. agent' = [agent EXCEPT ![a] = r] /\ robbed' = robbed BY <1>4 DEF ProvisioningFails, CleanupOver
  <2>2. DOMAIN r = AgentFields /\ r.given = {} /\ r.at = "over" BY NoAgentFacts
  <2> HIDE DEF r
  <2> QED BY <2>1, <2>2, AgentMoves
<1>5. ASSUME NEW a \in DevRuns, NEW ok \in BOOLEAN, RunsProvisioned(a) \/ AgentRunEnds(a, ok) PROVE DevInv'
  <2>1. PICK r : /\ agent' = [agent EXCEPT ![a] = r] /\ robbed' = robbed /\ HoldsFiles(a)
                 /\ \/ r = [agent[a] EXCEPT !.at = "running"]
                    \/ r = [agent[a] EXCEPT !.at = "cleaning", !.todo = Manifest, !.ok = ok]
    BY <1>5 DEF RunsProvisioned, AgentRunEnds, HoldsFiles
  <2>2. DOMAIN r = AgentFields /\ r.role = agent[a].role /\ r.ticket = agent[a].ticket /\ r.given = agent[a].given
    BY <2>1 DEF DevInv, AgentFields
  <2>3. \A f \in r.given : f.name = <<r.role, r.ticket>> \/ f.name = <<"any", r.ticket>>
    BY <2>2 DEF DevInv, NamedAfter, Who
  <2>4. r.role \in DevRoles BY <2>1, <2>2 DEF DevInv
  <2> QED BY <2>1, <2>2, <2>3, <2>4, AgentMoves
<1>6. ASSUME NEW a \in DevRuns, NEW works \in BOOLEAN, CleanupService(a, works) PROVE DevInv'
  <2> DEFINE s == Head(agent[a].todo)
             f == FileOf(s, agent[a].role, agent[a].ticket)
             r == [agent[a] EXCEPT !.todo = Tail(@)]
  <2>1. /\ agent' = [agent EXCEPT ![a] = r] /\ agent[a].at = "cleaning"
        /\ robbed' = robbed \/ robbed' = Robbed(f, Who(a), ~s.perAgent)
    BY <1>6 DEF CleanupService
  <2>2. /\ DOMAIN r = AgentFields /\ r.role = agent[a].role /\ r.ticket = agent[a].ticket
        /\ r.given = agent[a].given /\ r.at = agent[a].at
    BY DEF DevInv, AgentFields
  <2>3. DOMAIN agent' = DevRuns /\ agent'[a] = r /\ \A b \in DevRuns \ {a} : agent'[b] = agent[b]
    BY <2>1 DEF DevInv
  <2>4. ASSUME NEW b \in DevRuns
        PROVE  /\ DOMAIN agent'[b] = AgentFields
               /\ HoldsFiles(b)' => agent'[b].role \in DevRoles
               /\ \A g \in agent'[b].given : NamedAfter(g, b)'
    <3>1. /\ DOMAIN agent'[b] = AgentFields /\ agent'[b].role = agent[b].role /\ agent'[b].ticket = agent[b].ticket
          /\ agent'[b].given = agent[b].given /\ agent'[b].at = agent[b].at
      BY <2>2, <2>3 DEF DevInv
    <3> QED BY <3>1 DEF DevInv, HoldsFiles, NamedAfter, Who
  <2>5. ASSUME NEW b \in DevRuns, f \in agent[b].given, s.perAgent PROVE Who(b) = Who(a)
    <3>1. f.name = Who(a) BY <2>5 DEF FileOf, render_namespace, Who
    <3>2. agent[a].role \in DevRoles BY <2>1 DEF DevInv, HoldsFiles
    <3>3. Who(a) # <<"any", agent[b].ticket>> BY <3>2, DevEnvAssumption DEF Who
    <3> QED BY <2>5, <3>1, <3>3 DEF DevInv, NamedAfter
  <2>6. DatabaseStaysMine'
    <3>1. CASE robbed' = robbed BY <3>1 DEF DevInv, DatabaseStaysMine
    <3>2. CASE robbed' = Robbed(f, Who(a), ~s.perAgent)
      <4>1. ASSUME NEW x \in robbed', x \notin robbed PROVE x.by = x.of \/ x.shared
        <5>1. PICK b \in DevRuns : /\ f \in agent[b].given
                                   /\ x = [of |-> Who(b), by |-> Who(a), shared |-> ~s.perAgent]
          BY <3>2, <4>1 DEF Robbed
        <5>2. x.of = Who(b) /\ x.by = Who(a) /\ x.shared = ~s.perAgent BY <5>1
        <5>3. CASE s.perAgent BY <2>5, <5>1, <5>2, <5>3
        <5>4. CASE ~s.perAgent BY <5>2, <5>4
        <5> QED BY <5>3, <5>4
      <4> QED BY <4>1 DEF DevInv, DatabaseStaysMine
    <3> QED BY <2>1, <3>1, <3>2
  <2> QED BY <2>3, <2>4, <2>6 DEF DevInv
<1>7. CASE DaemonEnds
  <2>1. /\ agent' = [a \in DevRuns |-> IF agent[a].at = "off" THEN NoAgent ELSE [NoAgent EXCEPT !.at = "over"]]
        /\ robbed' = robbed
    BY <1>7 DEF DaemonEnds
  <2>2. \A b \in DevRuns : agent'[b] = NoAgent \/ agent'[b] = [NoAgent EXCEPT !.at = "over"] BY <2>1
  <2>3. \A b \in DevRuns : DOMAIN agent'[b] = AgentFields /\ agent'[b].given = {} /\ ~HoldsFiles(b)'
    BY <2>2, NoAgentFacts DEF HoldsFiles
  <2> QED BY <2>1, <2>3 DEF DevInv, DatabaseStaysMine
<1>8. ASSUME NEW f \in files, DropEphemeral(f) PROVE DevInv'
  <2>1. agent' = agent /\ robbed' = Robbed(f, <<"operator">>, FALSE) BY <1>8 DEF DropEphemeral
  <2>2. DatabaseStaysMine'
    <3>1. \A x \in robbed' : x \in robbed \/ x.by = <<"operator">> BY <2>1 DEF Robbed
    <3> QED BY <3>1 DEF DevInv, DatabaseStaysMine
  <2> QED BY <2>1, <2>2 DEF DevInv, HoldsFiles, NamedAfter, Who
<1>9. ASSUME NEW a \in DevRuns, RecordAnswer(a) \/ \E q \in Requests : AskService(a, q) PROVE DevInv'
  BY <1>1, <1>9 DEF RecordAnswer, AskService
<1>10. ASSUME \/ ClearFixtures \/ ListOrphans \/ PurgeOrphans \/ RunSweeper
              \/ \E bucket \in {"auto_safe", "needs_confirm", "all"} : ApplySweep(bucket)
              \/ \E stores \in DataStores : DeriveManifest(stores)
              \/ \E t \in DOMAIN DevTickets :
                   \/ DropOrphan(t)
                   \/ \E x \in DevStatus : TicketMovesOn(t, x)
                   \/ TicketAges(t)
       PROVE  DevInv'
  <2>1. UNCHANGED <<agent, robbed>>
    BY <1>10 DEF ClearFixtures, ListOrphans, PurgeOrphans, RunSweeper, ApplySweep, DeriveManifest,
                 DropOrphan, TicketMovesOn, TicketAges, Logged
  <2> QED BY <1>1, <2>1
<1>11. CASE UNCHANGED devVars BY <1>1, <1>11 DEF devVars
<1> QED BY <1>2, <1>3, <1>4, <1>5, <1>6, <1>7, <1>8, <1>9, <1>10, <1>11 DEF DevNext

(* THEOREM: no run of another role or ticket takes an agent's database while *)
(* it runs, whatever the manifest becomes and whoever fails or ends, unless  *)
(* the template names the ticket alone.                                      *)
THEOREM DatabasesKept == DevSpec => []DatabaseStaysMine
<1>1. DevInv => DatabaseStaysMine BY DEF DevInv
<1> QED BY <1>1, DevInitOK, DevStep, PTL DEF DevSpec
=============================================================================
