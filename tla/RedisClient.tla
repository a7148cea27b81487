----------------------------- MODULE RedisClient -----------------------------
(***************************************************************************)
(* The Redis client every Go Job carries (redis.go): goroutines share a     *)
(* client, a client has one connection and one mutex, held from the dialling *)
(* to the last reply.  Redis (external) executes the requests of a           *)
(* connection in order and answers each; it may also execute what it had     *)
(* received of a connection that is closed by then.                          *)
(***************************************************************************)
EXTENDS Integers, Sequences, FiniteSets, RedisPromise

CONSTANTS
  Clients,
  Owner,       \* the client a goroutine uses
  Free,        \* nobody holds the mutex
  MaxFaults    \* connections that fail, commands Redis refuses, deadlines that expire

RedisClientConstants ==
  /\ Owner \in [Goroutines -> Clients]
  /\ Free \notin Goroutines
  /\ MaxFaults \in Nat

ASSUME RedisClientAssumption == RedisClientConstants

VARIABLES
  holder,    \* client -> goroutine that holds its mutex
  link,      \* client -> its connection: state, requests sent, replies to be read
  stray,     \* requests on their way when their connection was closed
  faults

redis == <<holder, link, call, acked, stray, executed, faults>>

NoLink == [state |-> "none", requests |-> <<>>, replies |-> <<>>]
Idle == [at |-> "idle", cmds |-> <<>>, read |-> <<>>, deadline |-> FALSE]
Elements(seq) == {seq[i] : i \in DOMAIN seq}

ClientInit ==
  /\ holder = [c \in Clients |-> Free]
  /\ link = [c \in Clients |-> NoLink]
  /\ call = [g \in Goroutines |-> Idle]
  /\ acked = [g \in Goroutines |-> {}]
  /\ stray = {} /\ executed = {} /\ faults = 0

At(g, step) == call[g].at = step
Fault == faults < MaxFaults /\ faults' = faults + 1

-----------------------------------------------------------------------------
(* A call: do for one command (Ping, Get, Set, Publish, XAdd, ...), Exec for *)
(* the commands queued in a Pipeliner.                                       *)

Begin(g, cmds, deadline) ==
  call' = [call EXCEPT ![g] = [Idle EXCEPT !.at = "lock", !.cmds = cmds, !.deadline = deadline]]

Lock(g) ==
  /\ At(g, "lock") /\ holder[Owner[g]] = Free
  /\ holder' = [holder EXCEPT ![Owner[g]] = g]
  /\ call' = [call EXCEPT ![g].at = "send"]
  /\ UNCHANGED <<link, acked, stray, executed, faults>>

\* Mutant of Reset: after an error the connection is kept.
ResetNever(c) == link' = [link EXCEPT ![c].state = IF @ = "broken" THEN "none" ELSE @]
                 /\ stray' = stray

\* reset: the connection is closed; the next call dials a new one.
Reset(c) ==
  /\ link' = [link EXCEPT ![c] = NoLink]
  /\ stray' = stray \cup Elements(link[c].requests)

\* The call returns and releases the mutex, as its deferred Unlock does.
Return(g, outcome, commands) ==
  /\ call' = [call EXCEPT ![g] = [@ EXCEPT !.at = outcome]]
  /\ acked' = [acked EXCEPT ![g] = commands]
  /\ holder' = [holder EXCEPT ![Owner[g]] = Free]

\* ensureConn, writeCommand and Flush.  A connection that broke while idle is noticed by
\* the call that uses it next; nothing is sent twice.
Send(g) ==
  LET c == Owner[g] IN
  /\ At(g, "send")
  /\ \/ /\ link[c].state # "broken"
        /\ link' = [link EXCEPT ![c].state = "up", ![c].requests = @ \o call[g].cmds]
        /\ call' = [call EXCEPT ![g].at = "read"]
        /\ UNCHANGED <<holder, acked, stray, faults>>
     \/ link[c].state = "none" /\ Fault /\ Return(g, "failed", {}) /\ UNCHANGED <<link, stray>>
     \/ link[c].state = "broken" /\ Reset(c) /\ Return(g, "failed", {}) /\ UNCHANGED faults
  /\ UNCHANGED executed

\* An error, from the connection or from Redis, is the error of this command and of those
\* after it: they are marked failed, whether Redis executes them or not.
Failing(g) == Return(g, "failed", Elements(call[g].read))

\* readReply for the next command.
ReadReply(g) ==
  LET c == Owner[g]
      reply == Head(link[c].replies)
      read == Append(call[g].read, reply.cmd)
  IN
  /\ At(g, "read") /\ link[c].replies # <<>>
  /\ \/ /\ reply.ok /\ Len(read) < Len(call[g].cmds)
        /\ link' = [link EXCEPT ![c].replies = Tail(@)]
        /\ call' = [call EXCEPT ![g].read = read]
        /\ UNCHANGED <<holder, acked, stray>>
     \/ /\ reply.ok /\ Len(read) = Len(call[g].cmds)
        /\ link' = [link EXCEPT ![c].replies = Tail(@)]
        /\ call' = [call EXCEPT ![g].at = "ok", ![g].read = read]
        /\ acked' = [acked EXCEPT ![g] = Elements(call[g].cmds)]
        /\ holder' = [holder EXCEPT ![c] = Free]
        /\ UNCHANGED stray
     \/ ~reply.ok /\ Reset(c) /\ Failing(g)
  /\ UNCHANGED <<executed, faults>>

\* The connection fails or the deadline of the context passes while it waits.
ReadFails(g) ==
  /\ At(g, "read")
  /\ \/ link[Owner[g]].state = "broken" /\ UNCHANGED faults
     \/ link[Owner[g]].state = "up" /\ call[g].deadline /\ Fault
  /\ Reset(Owner[g]) /\ Failing(g)
  /\ UNCHANGED executed

ClientStep(g) == Lock(g) \/ Send(g) \/ ReadReply(g) \/ ReadFails(g)

-----------------------------------------------------------------------------
(* Redis                                                                    *)

\* The next request of a connection is executed, or refused with an error.
Execute(c) ==
  LET cmd == Head(link[c].requests) IN
  /\ link[c].state = "up" /\ link[c].requests # <<>>
  /\ \/ executed' = executed \cup {cmd} /\ UNCHANGED faults
        /\ link' = [link EXCEPT ![c].requests = Tail(@),
                                ![c].replies = Append(@, [cmd |-> cmd, ok |-> TRUE])]
     \/ UNCHANGED executed /\ Fault
        /\ link' = [link EXCEPT ![c].requests = Tail(@),
                                ![c].replies = Append(@, [cmd |-> cmd, ok |-> FALSE])]
  /\ UNCHANGED <<holder, call, acked, stray>>

ExecuteStray(cmd) ==
  /\ cmd \in stray
  /\ executed' = executed \cup {cmd} /\ stray' = stray \ {cmd}
  /\ UNCHANGED <<holder, link, call, acked, faults>>

\* The connection fails: the replies not read yet are lost.
Break(c) ==
  /\ link[c].state = "up" /\ Fault
  /\ link' = [link EXCEPT ![c] = [NoLink EXCEPT !.state = "broken"]]
  /\ stray' = stray \cup Elements(link[c].requests)
  /\ UNCHANGED <<holder, call, acked, executed>>

-----------------------------------------------------------------------------
(* Properties                                                               *)

Links(commands) == [state: {"none", "up", "broken"}, requests: Seq(commands),
                    replies: Seq([cmd: commands, ok: BOOLEAN])]
CallsOf(commands) == [at: {"idle", "lock", "send", "read", "ok", "failed"},
                      cmds: Seq(commands), read: Seq(commands), deadline: BOOLEAN]

ClientTypeOK(commands) ==
  /\ holder \in [Clients -> Goroutines \cup {Free}]
  /\ \A c \in Clients : holder[c] # Free => Owner[holder[c]] = c
  /\ link \in [Clients -> Links(commands)]
  /\ call \in [Goroutines -> CallsOf(commands)]
  /\ acked \in [Goroutines -> SUBSET commands]
  /\ stray \subseteq commands /\ executed \subseteq commands
  /\ faults \in 0 .. MaxFaults
=============================================================================
