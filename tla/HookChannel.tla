---------------------------- MODULE HookChannel ----------------------------
(***************************************************************************)
(* The channel between an agent's hooks and the core, for one session:      *)
(* `tyba _hook` processes (hook_ipc/client.rs) connect to the session's     *)
(* socket, an accept thread per HookServer (hook_ipc/server.rs) gives each  *)
(* connection a thread, and HookServerRegistry (agent/session.rs) keeps the *)
(* one server of the session.  Every server of a session binds the SAME     *)
(* path (runtime_dir is a function of the SessionId), so stopping one -     *)
(* which wakes its accept thread by connecting to that path, and removes    *)
(* it - and opening the next must not interleave.  What a handler decides   *)
(* is ApprovalGate's subject; here it answers, some time.                   *)
(***************************************************************************)
EXTENDS Naturals, FiniteSets

CONSTANTS
  Servers,      \* servers the session binds in its life, each by its own thread
  NoServer,     \* the socket file is absent; nothing is registered
  Hooks,        \* hook processes the agent starts: bound on them
  MaxInflight,  \* MAX_INFLIGHT
  Attempts,     \* RetryPlan.attempts
  Kinds,        \* events hooks run for: "PreToolUse", "PermissionRequest", "Other"
  Sessions,     \* kinds of session: "agent", "shell"
  Overlap       \* whether openings and teardowns of the session may overlap

ASSUME ChannelAssumption ==
  /\ IsFiniteSet(Servers) /\ IsFiniteSet(Hooks) /\ Servers \cap Hooks = {}
  /\ NoServer \notin Servers /\ {"reaper", "disposer"} \cap Servers = {}
  /\ Kinds \subseteq {"PreToolUse", "PermissionRequest", "Other"}
  /\ Sessions \subseteq {"agent", "shell"}
  /\ MaxInflight \in Nat /\ Attempts \in Nat \ {0} /\ Overlap \in BOOLEAN

\* A connection is named by the hook that made it, or by the server whose stop
\* made it to wake the accept thread.
Conns == Hooks \cup Servers
\* The threads that use the registry: the one opening each server, the one that
\* sees the session's process exit, and the command that disposes of the session.
Threads == Servers \cup {"reaper", "disposer"}
Stopping == {"flag", "wake", "join", "unlink"}

VARIABLES
  path,        \* the server whose socket the path names
  registered,  \* HookServerRegistry.servers[session]
  acceptor,    \* per server: "unborn", "accepting" or "ended"
  shutdown,    \* per server: its `shutdown` flag
  inflight,    \* per server: its `inflight` counter
  thread,      \* per connection: where the server's side of it is
  peer,        \* per connection: the server it reached
  client,      \* per hook: "idle", "connecting", "waiting", "done", "gone"
  kind,        \* per hook: its event
  attempt,     \* per hook: failed connections
  reply,       \* per hook: the line it was sent, "eof" when closed without one
  output,      \* per hook: the decision it printed, "silent" for none
  pc,          \* per thread: its next step
  after,       \* per thread: where it goes when the stop it is in ends
  victim,      \* per thread: the server it is stopping
  session      \* [kind : "agent" or "shell", alive, disposed]

server == <<path, registered, acceptor, shutdown>>
conns == <<inflight, thread, peer>>
hooks == <<client, kind, attempt, reply, output>>
threads == <<pc, after, victim>>
vars == <<server, conns, hooks, threads, session>>

Init ==
  /\ path = NoServer /\ registered = NoServer
  /\ acceptor = [s \in Servers |-> "unborn"]
  /\ shutdown = [s \in Servers |-> FALSE]
  /\ inflight = [s \in Servers |-> 0]
  /\ thread = [c \in Conns |-> "none"]
  /\ peer = [c \in Conns |-> NoServer]
  /\ client = [h \in Hooks |-> "idle"]
  /\ kind = [h \in Hooks |-> "none"]
  /\ attempt = [h \in Hooks |-> 0]
  /\ reply = [h \in Hooks |-> "none"]
  /\ output = [h \in Hooks |-> "none"]
  /\ pc = [t \in Threads |-> "idle"]
  /\ after = [t \in Threads |-> "over"]
  /\ victim = [t \in Threads |-> NoServer]
  /\ session \in {[kind |-> k, alive |-> k = "shell", disposed |-> FALSE] : k \in Sessions}

-----------------------------------------------------------------------------
(* Hook processes.                                                          *)

\* The path names a socket somebody listens on.
Reachable == path # NoServer /\ acceptor[path] = "accepting"

\* Connection c waits in the backlog of the server the path names.
Enqueue(c) ==
  /\ thread' = [thread EXCEPT ![c] = "queued"]
  /\ peer' = [peer EXCEPT ![c] = path]

\* Mutant: nothing is printed on a transport failure.
FailureOutputSilent(k) == "silent"

\* What a hook prints when the channel fails it ...
FailureOutput(k) == IF k = "PreToolUse" THEN "deny" ELSE "silent"

\* ... and what it prints for the answer it read.
Printed(r, k) ==
  IF r = "eof" THEN FailureOutput(k)
  ELSE IF r = "ack" \/ k = "Other" THEN "silent" ELSE r

\* The agent starts hook h for an event of kind k.
Fire(h, k) ==
  /\ client[h] = "idle" /\ session.alive
  /\ \E s \in Servers : acceptor[s] # "unborn"
  /\ client' = [client EXCEPT ![h] = "connecting"]
  /\ kind' = [kind EXCEPT ![h] = k]
  /\ UNCHANGED <<server, conns, attempt, reply, output, threads, session>>

Connect(h) ==
  /\ client[h] = "connecting" /\ Reachable
  /\ client' = [client EXCEPT ![h] = "waiting"]
  /\ Enqueue(h)
  /\ UNCHANGED <<server, inflight, kind, attempt, reply, output, threads, session>>

\* Mutant: one attempt too many.
ConnectFailsOnceMore(h) ==
  /\ client[h] = "connecting" /\ ~Reachable
  /\ attempt' = [attempt EXCEPT ![h] = @ + 1]
  /\ IF attempt'[h] > Attempts
       THEN /\ client' = [client EXCEPT ![h] = "done"]
            /\ output' = [output EXCEPT ![h] = FailureOutput(kind[h])]
       ELSE UNCHANGED <<client, output>>
  /\ UNCHANGED <<server, conns, kind, reply, threads, session>>

\* A refused connection: another attempt after the backoff, or transport failure.
ConnectFails(h) ==
  /\ client[h] = "connecting" /\ ~Reachable
  /\ attempt' = [attempt EXCEPT ![h] = @ + 1]
  /\ IF attempt'[h] >= Attempts
       THEN /\ client' = [client EXCEPT ![h] = "done"]
            /\ output' = [output EXCEPT ![h] = FailureOutput(kind[h])]
       ELSE UNCHANGED <<client, output>>
  /\ UNCHANGED <<server, conns, kind, reply, threads, session>>

Read(h) ==
  /\ client[h] = "waiting" /\ reply[h] # "none"
  /\ client' = [client EXCEPT ![h] = "done"]
  /\ output' = [output EXCEPT ![h] = Printed(reply[h], kind[h])]
  /\ UNCHANGED <<server, conns, kind, attempt, reply, threads, session>>

\* The agent may end a hook at any time: its own timeout, or it exits itself.
Killed(h) ==
  /\ client[h] \in {"connecting", "waiting"}
  /\ client' = [client EXCEPT ![h] = "gone"]
  /\ UNCHANGED <<server, conns, kind, attempt, reply, output, threads, session>>

ClientStep(h) == Connect(h) \/ ConnectFails(h) \/ Read(h)

-----------------------------------------------------------------------------
(* The accept thread of a server, and the threads of its connections.       *)

Queued(s) == {c \in Conns : thread[c] = "queued" /\ peer[c] = s}

\* Mutant: the accept thread waits for its connections before it ends.
AcceptEndsDrained(s) ==
  /\ acceptor[s] = "accepting" /\ shutdown[s] /\ Queued(s) # {} /\ inflight[s] = 0
  /\ acceptor' = [acceptor EXCEPT ![s] = "ended"]
  /\ thread' = [c \in Conns |-> IF c \in Queued(s) THEN "over" ELSE thread[c]]
  /\ reply' = [h \in Hooks |-> IF h \in Queued(s) THEN "eof" ELSE reply[h]]
  /\ UNCHANGED <<path, registered, shutdown, inflight, peer, client, kind, attempt,
                 output, threads, session>>

\* Mutant: the listener outlives the loop, and what waits on it is not closed.
AcceptEndsKeepingBacklog(s) ==
  /\ acceptor[s] = "accepting" /\ shutdown[s] /\ Queued(s) # {}
  /\ acceptor' = [acceptor EXCEPT ![s] = "ended"]
  /\ UNCHANGED <<path, registered, shutdown, conns, hooks, threads, session>>

\* The flag is set: the loop breaks, and the listener and what waits on it close.
AcceptEnds(s) ==
  /\ acceptor[s] = "accepting" /\ shutdown[s] /\ Queued(s) # {}
  /\ acceptor' = [acceptor EXCEPT ![s] = "ended"]
  /\ thread' = [c \in Conns |-> IF c \in Queued(s) THEN "over" ELSE thread[c]]
  /\ reply' = [h \in Hooks |-> IF h \in Queued(s) THEN "eof" ELSE reply[h]]
  /\ UNCHANGED <<path, registered, shutdown, inflight, peer, client, kind, attempt,
                 output, threads, session>>

\* Mutant: a refused connection is not counted, its guard still counts it out.
DispatchCountingServed(s, c) ==
  /\ acceptor[s] = "accepting" /\ ~shutdown[s] /\ c \in Queued(s)
  /\ IF inflight[s] >= MaxInflight
       THEN inflight' = inflight /\ thread' = [thread EXCEPT ![c] = "refusing"]
       ELSE /\ inflight' = [inflight EXCEPT ![s] = @ + 1]
            /\ thread' = [thread EXCEPT ![c] = "serving"]
  /\ UNCHANGED <<server, peer, hooks, threads, session>>

\* A connection is counted and gets a thread: to serve it, or to refuse it when
\* MaxInflight are already counted.
Dispatch(s, c) ==
  /\ acceptor[s] = "accepting" /\ ~shutdown[s] /\ c \in Queued(s)
  /\ inflight' = [inflight EXCEPT ![s] = @ + 1]
  /\ thread' = [thread EXCEPT
       ![c] = IF inflight[s] >= MaxInflight THEN "refusing" ELSE "serving"]
  /\ UNCHANGED <<server, peer, hooks, threads, session>>

\* The handler answers: a decision for what asks for one, an ack for the rest. Or the
\* connection is closed without a word: its request could not be read, or the handler
\* panicked.
Answer(h, r) ==
  /\ thread[h] = "serving"
  /\ r \in {"eof"} \cup (IF kind[h] = "Other" THEN {"ack"} ELSE {"allow", "deny"})
  /\ reply' = [reply EXCEPT ![h] = r]
  /\ thread' = [thread EXCEPT ![h] = "closing"]
  /\ UNCHANGED <<server, inflight, peer, client, kind, attempt, output, threads, session>>

\* The connection of a stop is closed at once: there is nothing to serve.
NothingToRead(s) ==
  /\ thread[s] = "serving"
  /\ thread' = [thread EXCEPT ![s] = "closing"]
  /\ UNCHANGED <<server, inflight, peer, hooks, threads, session>>

Refuse(c) ==
  /\ thread[c] = "refusing"
  /\ thread' = [thread EXCEPT ![c] = "closing"]
  /\ reply' = IF c \in Hooks THEN [reply EXCEPT ![c] = "deny"] ELSE reply
  /\ UNCHANGED <<server, inflight, peer, client, kind, attempt, output, threads, session>>

\* The thread ends and its InflightGuard drops.
Release(c) ==
  /\ thread[c] = "closing"
  /\ thread' = [thread EXCEPT ![c] = "over"]
  /\ inflight' = [inflight EXCEPT ![peer[c]] = @ - 1]
  /\ UNCHANGED <<server, peer, hooks, threads, session>>

AcceptStep(s) == AcceptEnds(s) \/ \E c \in Conns : Dispatch(s, c)
ConnStep(c) == Refuse(c) \/ Release(c) \/ (c \in Servers /\ NothingToRead(c))

-----------------------------------------------------------------------------
(* HookServer::stop, in the hands of thread t, on the server it took out of *)
(* the registry (`victim`); `after` says where t goes next.                 *)

SetFlag(t) ==
  /\ pc[t] = "flag"
  /\ shutdown' = [shutdown EXCEPT ![victim[t]] = TRUE]
  /\ pc' = [pc EXCEPT ![t] = "wake"]
  /\ UNCHANGED <<path, registered, acceptor, conns, hooks, after, victim, session>>

\* Connects to the PATH, whoever owns it by now.
WakeOwner(t) ==
  /\ pc[t] = "wake"
  /\ IF Reachable THEN Enqueue(victim[t]) ELSE UNCHANGED <<thread, peer>>
  /\ pc' = [pc EXCEPT ![t] = "join"]
  /\ UNCHANGED <<server, inflight, hooks, after, victim, session>>

Join(t) ==
  /\ pc[t] = "join" /\ acceptor[victim[t]] = "ended"
  /\ pc' = [pc EXCEPT ![t] = "unlink"]
  /\ UNCHANGED <<server, conns, hooks, after, victim, session>>

\* Mutant: the socket file is left behind.
UnlinkNothing(t) ==
  /\ pc[t] = "unlink"
  /\ pc' = [pc EXCEPT ![t] = after[t]]
  /\ victim' = [victim EXCEPT ![t] = NoServer]
  /\ UNCHANGED <<server, conns, hooks, after, session>>

\* Removes the file, whoever bound it.
Unlink(t) ==
  /\ pc[t] = "unlink"
  /\ path' = NoServer
  /\ pc' = [pc EXCEPT ![t] = after[t]]
  /\ victim' = [victim EXCEPT ![t] = NoServer]
  /\ UNCHANGED <<registered, acceptor, shutdown, conns, hooks, after, session>>

StopStep(t) == SetFlag(t) \/ WakeOwner(t) \/ Join(t) \/ Unlink(t)

\* The server registered before is stopped by t, if there was one, outside the lock.
StopOld(t) ==
  /\ victim' = [victim EXCEPT ![t] = registered]
  /\ pc' = [pc EXCEPT ![t] = IF registered = NoServer THEN after'[t] ELSE "flag"]

\* HookServerRegistry::shutdown.
TakeOut(t) ==
  /\ pc[t] = "take"
  /\ registered' = NoServer
  /\ after' = after
  /\ StopOld(t)
  /\ UNCHANGED <<path, acceptor, shutdown, conns, hooks, session>>

-----------------------------------------------------------------------------
(* The threads that open and tear down the session's server.                *)

Working == {t \in Threads : pc[t] \notin {"idle", "over"}}

\* Mutant: hosting again binds first, and leaves the old server to insert().
BeginWithoutShutdown(s) ==
  /\ pc[s] = "idle" /\ ~session.disposed
  /\ Working = {} \/ (Overlap /\ session.kind = "shell")
  /\ session.alive <=> session.kind = "shell"
  /\ pc' = [pc EXCEPT ![s] = "clear"]
  /\ after' = [after EXCEPT ![s] = "clear"]
  /\ UNCHANGED <<server, conns, hooks, victim, session>>

\* An agent session gets its server when it is created or resumed, once dead; a
\* `claude` typed in a shell gets one from the host channel, which first stops
\* the one of the `claude` before it.
Begin(s) ==
  /\ pc[s] = "idle" /\ ~session.disposed
  /\ Working = {} \/ (Overlap /\ session.kind = "shell")
  /\ session.alive <=> session.kind = "shell"
  /\ pc' = [pc EXCEPT ![s] = IF session.kind = "shell" THEN "take" ELSE "clear"]
  /\ after' = [after EXCEPT ![s] = "clear"]
  /\ UNCHANGED <<server, conns, hooks, victim, session>>

\* HookServer::bind: remove what is there, ...
Clear(s) ==
  /\ pc[s] = "clear"
  /\ path' = NoServer
  /\ pc' = [pc EXCEPT ![s] = "bind"]
  /\ UNCHANGED <<registered, acceptor, shutdown, conns, hooks, after, victim, session>>

\* ... bind - which fails if the path is taken again - and start the accept thread.
Bind(s) ==
  /\ pc[s] = "bind"
  /\ IF path = NoServer
       THEN /\ path' = s
            /\ acceptor' = [acceptor EXCEPT ![s] = "accepting"]
            /\ pc' = [pc EXCEPT ![s] = "insert"]
       ELSE /\ pc' = [pc EXCEPT ![s] = "over"]
            /\ UNCHANGED <<path, acceptor>>
  /\ UNCHANGED <<registered, shutdown, conns, hooks, after, victim, session>>

\* HookServerRegistry::insert.
Insert(s) ==
  /\ pc[s] = "insert"
  /\ registered' = s
  /\ after' = [after EXCEPT ![s] = "launch"]
  /\ StopOld(s)
  /\ UNCHANGED <<path, acceptor, shutdown, conns, hooks, session>>

\* The agent starts, or could not be started and the server is shut down.
Launch(s) ==
  /\ pc[s] = "launch"
  /\ pc' = [pc EXCEPT ![s] = "over"]
  /\ session' = [session EXCEPT !.alive = @ \/ session.kind = "agent"]
  /\ UNCHANGED <<server, conns, hooks, after, victim>>

LaunchFails(s) ==
  /\ pc[s] = "launch"
  /\ pc' = [pc EXCEPT ![s] = "take"]
  /\ after' = [after EXCEPT ![s] = "over"]
  /\ UNCHANGED <<server, conns, hooks, victim, session>>

OpenStep(s) ==
  TakeOut(s) \/ StopStep(s) \/ Clear(s) \/ Bind(s) \/ Insert(s) \/ Launch(s)

\* The process of the session ends; session_exited has nothing to do for a session
\* that is gone.
Exit ==
  /\ session.alive /\ pc["reaper"] = "idle"
  /\ Overlap \/ Working \subseteq {"disposer"}
  /\ session' = [session EXCEPT !.alive = FALSE]
  /\ IF session.disposed THEN UNCHANGED <<pc, after>>
     ELSE /\ pc' = [pc EXCEPT !["reaper"] = "take"]
          /\ after' = [after EXCEPT !["reaper"] = "finish"]
  /\ UNCHANGED <<server, conns, hooks, victim>>

\* The teardown is done: an agent session can be resumed, a shell is disposed of.
FinishExit ==
  /\ pc["reaper"] = "finish"
  /\ pc' = [pc EXCEPT !["reaper"] = "idle"]
  /\ session' = [session EXCEPT !.disposed = @ \/ session.kind = "shell"]
  /\ UNCHANGED <<server, conns, hooks, after, victim>>

\* dispose_session: the teardown, then the session goes and its process is killed.
Dispose ==
  /\ pc["disposer"] = "idle" /\ ~session.disposed
  /\ Overlap \/ Working \subseteq {"reaper"}
  /\ pc' = [pc EXCEPT !["disposer"] = "take"]
  /\ after' = [after EXCEPT !["disposer"] = "finish"]
  /\ UNCHANGED <<server, conns, hooks, victim, session>>

FinishDispose ==
  /\ pc["disposer"] = "finish"
  /\ pc' = [pc EXCEPT !["disposer"] = "over"]
  /\ session' = [session EXCEPT !.disposed = TRUE]
  /\ UNCHANGED <<server, conns, hooks, after, victim>>

ReaperStep == TakeOut("reaper") \/ StopStep("reaper") \/ FinishExit
DisposerStep == TakeOut("disposer") \/ StopStep("disposer") \/ FinishDispose

Next ==
  \/ \E h \in Hooks : \/ \E k \in Kinds : Fire(h, k)
                      \/ ClientStep(h) \/ Killed(h)
                      \/ \E r \in {"allow", "deny", "ack", "eof"} : Answer(h, r)
  \/ \E s \in Servers : Begin(s) \/ OpenStep(s) \/ LaunchFails(s) \/ AcceptStep(s)
  \/ \E c \in Conns : ConnStep(c)
  \/ Exit \/ ReaperStep \/ Dispose \/ DisposerStep

\* Every thread the code runs makes its steps, and so does a hook process that is
\* not killed.  What is not fair: that a person answers (Answer), that hooks fire,
\* servers are opened, sessions exit.
Fairness ==
  /\ \A h \in Hooks : WF_vars(ClientStep(h))
  /\ \A s \in Servers : WF_vars(OpenStep(s)) /\ WF_vars(AcceptStep(s))
  /\ \A c \in Conns : WF_vars(ConnStep(c))
  /\ WF_vars(ReaperStep) /\ WF_vars(DisposerStep)

Spec == Init /\ [][Next]_vars /\ Fairness

-----------------------------------------------------------------------------

TypeOK ==
  /\ {path, registered} \subseteq Servers \cup {NoServer}
  /\ acceptor \in [Servers -> {"unborn", "accepting", "ended"}]
  /\ shutdown \in [Servers -> BOOLEAN]
  /\ inflight \in [Servers -> Nat]
  /\ thread \in [Conns -> {"none", "queued", "serving", "refusing", "closing", "over"}]
  /\ peer \in [Conns -> Servers \cup {NoServer}]
  /\ client \in [Hooks -> {"idle", "connecting", "waiting", "done", "gone"}]
  /\ kind \in [Hooks -> Kinds \cup {"none"}]
  /\ attempt \in [Hooks -> 0..Attempts]
  /\ reply \in [Hooks -> {"none", "eof", "allow", "deny", "ack"}]
  /\ output \in [Hooks -> {"none", "silent", "allow", "deny"}]
  /\ pc \in [Threads -> Stopping \cup {"idle", "take", "clear", "bind", "insert",
                                       "launch", "finish", "over"}]
  /\ after \in [Threads -> {"clear", "launch", "finish", "over"}]
  /\ victim \in [Threads -> Servers \cup {NoServer}]
  /\ session \in [kind : Sessions, alive : BOOLEAN, disposed : BOOLEAN]

\* Whatever happens between a tool call and the core - the server not up yet, gone,
\* replaced, full, stopped with the connection in its backlog - a PreToolUse hook
\* that ends by itself has printed a decision, and "allow" only when a handler
\* answered so (client.rs run_client_inner: the agent takes silence for consent).
FailClosed ==
  \A h \in Hooks :
    client[h] = "done" /\ kind[h] = "PreToolUse" =>
      /\ output[h] \in {"allow", "deny"}
      /\ output[h] = "allow" => reply[h] = "allow"

\* `inflight` counts exactly the threads that run for a server, refusals and wake-up
\* connections included, so that slots neither leak (the server would refuse for
\* ever) nor come back early (more than MaxInflight handlers would be served).
SlotsAreExact ==
  \A s \in Servers :
    LET On(states) == {c \in Conns : peer[c] = s /\ thread[c] \in states}
    IN  /\ inflight[s] = Cardinality(On({"serving", "refusing", "closing"}))
        /\ Cardinality(On({"serving"})) <= MaxInflight

\* A thread that joins an accept thread does so on one that has ended, or that has a
\* connection to wake it: `stop` connects to the path, and must find there the
\* server it is stopping (the comment at agent/session.rs:899-912).
WakeReachesOwner ==
  \A t \in Threads :
    pc[t] = "join" => acceptor[victim[t]] = "ended" \/ Queued(victim[t]) # {}

\* Once openings and teardowns are over, the registered server is the one the path
\* names, it accepts, and no other server does; without one there is no socket.
ServerIsReachable ==
  Working = {} =>
    /\ path = registered
    /\ {s \in Servers : acceptor[s] = "accepting"} = {registered} \ {NoServer}

\* Stopping a server always ends, also while people leave its handlers blocked: it
\* is what the teardown does BEFORE it expires the requests that block them.
StopReturns ==
  \A t \in Threads : pc[t] \in Stopping ~> pc[t] \notin Stopping

\* A hook process never hangs on the channel itself: it reaches a handler, or ends.
HookIsServedOrEnds ==
  \A h \in Hooks :
    client[h] \in {"connecting", "waiting"}
      ~> (client[h] \in {"done", "gone"} \/ thread[h] = "serving")

=============================================================================
