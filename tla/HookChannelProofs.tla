-------------------------- MODULE HookChannelProofs --------------------------
(* Theorems about HookChannel, for any number of servers and hooks, any       *)
(* limit of connections and any number of attempts.                           *)
EXTENDS HookChannel, FiniteSetTheorems, TLAPS

\* A hook has a connection, a failed attempt and a reply only when it got so far,
\* and the reply fits its event.
InOrder(h) ==
  /\ client[h] \in {"idle", "connecting"} => thread[h] = "none"
  /\ client[h] = "connecting" => attempt[h] < Attempts
  /\ client[h] = "idle" => attempt[h] = 0
  /\ thread[h] \in {"none", "queued", "serving", "refusing"} => reply[h] = "none"
  /\ reply[h] = "ack" => kind[h] = "Other"
  /\ output[h] = "allow" => reply[h] = "allow"

HooksInOrder == \A h \in Hooks : InOrder(h)

\* Server s is not in the registry yet: its thread has not come to insert it.
NotYet(s) ==
  \/ pc[s] \in {"idle", "clear", "bind", "insert"}
  \/ pc[s] \in Stopping \cup {"take"} /\ after[s] = "clear"

\* A server is stopped once, by one thread, which took it out of the registry: so
\* no connection that wakes its accept thread exists before.
StoppedOnce ==
  /\ \A s \in Servers :
       NotYet(s) \/ s = registered =>
         thread[s] = "none" /\ \A t \in Threads : victim[t] # s
  /\ \A s \in Servers : NotYet(s) => s # registered
  /\ \A t, u \in Threads : victim[t] = victim[u] /\ victim[t] # NoServer => t = u
  /\ \A t \in Threads :
       /\ pc[t] \in Stopping <=> victim[t] # NoServer
       /\ pc[t] \in {"flag", "wake"} => thread[victim[t]] = "none"

\* A connection in the hands of a thread has reached a server.
PeersKnown == \A c \in Conns : thread[c] # "none" => peer[c] \in Servers

\* The connections server s has a thread for, and those of them it serves.
Running(s) == {c \in Conns : peer[c] = s /\ thread[c] \in {"serving", "refusing", "closing"}}
Served(s)  == {c \in Conns : peer[c] = s /\ thread[c] \in {"serving"}}

\* The inductive invariant.
ChannelInv ==
  /\ TypeOK /\ HooksInOrder /\ StoppedOnce /\ PeersKnown /\ SlotsAreExact /\ FailClosed

-----------------------------------------------------------------------------
LEMMA NextCases ==
  Next =>
    \/ \E h \in Hooks, k \in Kinds : Fire(h, k)
    \/ \E h \in Hooks : Connect(h) \/ ConnectFails(h) \/ Read(h) \/ Killed(h)
    \/ \E h \in Hooks, r \in {"allow", "deny", "ack", "eof"} : Answer(h, r)
    \/ \E s \in Servers : AcceptEnds(s) \/ NothingToRead(s)
    \/ \E s \in Servers, c \in Conns : Dispatch(s, c)
    \/ \E c \in Conns : Refuse(c) \/ Release(c)
    \/ \E t \in Threads : SetFlag(t) \/ WakeOwner(t) \/ Join(t) \/ Unlink(t) \/ TakeOut(t)
    \/ \E s \in Servers : \/ Begin(s) \/ Clear(s) \/ Bind(s) \/ Insert(s)
                          \/ Launch(s) \/ LaunchFails(s)
    \/ Exit \/ FinishExit \/ Dispose \/ FinishDispose
<1>1. Servers \subseteq Threads /\ "reaper" \in Threads /\ "disposer" \in Threads
  BY DEF Threads
<1>2. Servers \subseteq Conns
  BY DEF Conns
<1> QED
  BY <1>1, <1>2 DEF Next, ClientStep, OpenStep, AcceptStep, ConnStep, StopStep,
                    ReaperStep, DisposerStep

LEMMA CountFacts ==
  ASSUME SlotsAreExact, NEW s \in Servers
  PROVE  /\ IsFiniteSet(Running(s)) /\ IsFiniteSet(Served(s))
         /\ inflight[s] = Cardinality(Running(s))
         /\ Cardinality(Running(s)) \in Nat /\ Cardinality(Served(s)) \in Nat
         /\ Cardinality(Served(s)) <= Cardinality(Running(s))
         /\ Cardinality(Served(s)) <= MaxInflight
<1>1. IsFiniteSet(Conns)
  BY ChannelAssumption, FS_Union DEF Conns
<1>2. Running(s) \in SUBSET Conns /\ Served(s) \in SUBSET Running(s)
  BY DEF Running, Served
<1>3. IsFiniteSet(Running(s)) /\ IsFiniteSet(Served(s))
  BY <1>1, <1>2, FS_Subset
<1>4. Cardinality(Served(s)) <= Cardinality(Running(s))
  BY <1>2, <1>3, FS_Subset
<1>5. inflight[s] = Cardinality(Running(s)) /\ Cardinality(Served(s)) <= MaxInflight
  BY DEF SlotsAreExact, Running, Served
<1> QED
  BY <1>3, <1>4, <1>5, FS_CardinalityType

LEMMA TypeStep == ChannelInv /\ [Next]_vars => TypeOK'
<1> SUFFICES ASSUME ChannelInv, [Next]_vars PROVE TypeOK'
  OBVIOUS
<1> USE DEF TypeOK
<1>type. TypeOK
  BY DEF ChannelInv
<1>sets. Hooks \subseteq Conns /\ Servers \subseteq Conns /\ Servers \subseteq Threads
  BY DEF Conns, Threads
<1>fire. ASSUME NEW h \in Hooks, NEW k \in Kinds, Fire(h, k) PROVE TypeOK'
  BY <1>type, <1>fire DEF Fire, server, conns, threads
<1>connect. ASSUME NEW h \in Hooks, Connect(h) PROVE TypeOK'
  BY <1>type, <1>sets, <1>connect DEF Connect, Enqueue, Reachable, server, threads
<1>fails. ASSUME NEW h \in Hooks, ConnectFails(h) PROVE TypeOK'
  <2>1. attempt[h] < Attempts
    BY <1>fails DEF ChannelInv, HooksInOrder, InOrder, ConnectFails
  <2>2. attempt' \in [Hooks -> 0..Attempts]
    BY <2>1, <1>type, <1>fails, ChannelAssumption DEF ConnectFails
  <2>3. FailureOutput(kind[h]) \in {"deny", "silent"}
    BY DEF FailureOutput
  <2> QED
    BY <2>2, <2>3, <1>type, <1>fails DEF ConnectFails, server, conns, threads
<1>read. ASSUME NEW h \in Hooks, Read(h) PROVE TypeOK'
  <2>1. Printed(reply[h], kind[h]) \in {"silent", "allow", "deny"}
    BY <1>type, <1>read DEF Read, Printed, FailureOutput
  <2> QED
    BY <2>1, <1>type, <1>read DEF Read, server, conns, threads
<1>killed. ASSUME NEW h \in Hooks, Killed(h) PROVE TypeOK'
  BY <1>type, <1>killed DEF Killed, server, conns, threads
<1>answer. ASSUME NEW h \in Hooks, NEW r \in {"allow", "deny", "ack", "eof"}, Answer(h, r)
           PROVE TypeOK'
  BY <1>type, <1>sets, <1>answer DEF Answer, server, threads
<1>ends. ASSUME NEW s \in Servers, AcceptEnds(s) PROVE TypeOK'
  <2>1. /\ thread' \in [Conns -> {"none", "queued", "serving", "refusing", "closing", "over"}]
        /\ reply' \in [Hooks -> {"none", "eof", "allow", "deny", "ack"}]
    BY <1>type, <1>ends DEF AcceptEnds
  <2> QED
    BY <2>1, <1>type, <1>ends DEF AcceptEnds, threads
<1>nothing. ASSUME NEW s \in Servers, NothingToRead(s) PROVE TypeOK'
  BY <1>type, <1>sets, <1>nothing DEF NothingToRead, server, hooks, threads
<1>dispatch. ASSUME NEW s \in Servers, NEW c \in Conns, Dispatch(s, c) PROVE TypeOK'
  BY <1>type, <1>dispatch DEF Dispatch, server, hooks, threads
<1>refuse. ASSUME NEW c \in Conns, Refuse(c) PROVE TypeOK'
  BY <1>type, <1>refuse DEF Refuse, server, threads
<1>release. ASSUME NEW c \in Conns, Release(c) PROVE TypeOK'
  <2>1. peer[c] \in Servers /\ c \in Running(peer[c])
    BY <1>release DEF Release, Running, ChannelInv, PeersKnown
  <2>2. inflight[peer[c]] \in Nat \ {0}
    BY <2>1, CountFacts, FS_EmptySet DEF ChannelInv
  <2>3. inflight' \in [Servers -> Nat]
    BY <2>1, <2>2, <1>type, <1>release DEF Release
  <2> QED
    BY <2>3, <1>type, <1>release DEF Release, server, hooks, threads
<1>stop. ASSUME NEW t \in Threads, SetFlag(t) \/ WakeOwner(t) \/ Join(t) \/ Unlink(t) \/ TakeOut(t)
         PROVE TypeOK'
  <2>1. pc[t] \in Stopping => victim[t] \in Servers
    BY <1>type DEF ChannelInv, StoppedOnce
  <2>2. CASE SetFlag(t)
    BY <2>1, <2>2, <1>type DEF SetFlag, Stopping, conns, hooks
  <2>3. CASE WakeOwner(t)
    BY <2>1, <2>3, <1>type, <1>sets
    DEF WakeOwner, Enqueue, Reachable, Stopping, server, hooks
  <2>4. CASE Join(t)
    BY <2>4, <1>type DEF Join, Stopping, server, conns, hooks
  <2>5. CASE Unlink(t)
    BY <2>5, <1>type DEF Unlink, Stopping, conns, hooks
  <2>6. CASE TakeOut(t)
    BY <2>6, <1>type DEF TakeOut, StopOld, Stopping, conns, hooks
  <2> QED
    BY <1>stop, <2>2, <2>3, <2>4, <2>5, <2>6
<1>open. ASSUME NEW s \in Servers,
                Begin(s) \/ Clear(s) \/ Bind(s) \/ Insert(s) \/ Launch(s) \/ LaunchFails(s)
         PROVE TypeOK'
  <2>1. CASE Begin(s)
    BY <2>1, <1>type, <1>sets DEF Begin, server, conns, hooks
  <2>2. CASE Clear(s)
    BY <2>2, <1>type, <1>sets DEF Clear, conns, hooks
  <2>3. CASE Bind(s)
    BY <2>3, <1>type, <1>sets DEF Bind, conns, hooks
  <2>4. CASE Insert(s)
    BY <2>4, <1>type, <1>sets DEF Insert, StopOld, Stopping, conns, hooks
  <2>5. CASE Launch(s)
    BY <2>5, <1>type, <1>sets DEF Launch, server, conns, hooks
  <2>6. CASE LaunchFails(s)
    BY <2>6, <1>type, <1>sets DEF LaunchFails, server, conns, hooks
  <2> QED
    BY <1>open, <2>1, <2>2, <2>3, <2>4, <2>5, <2>6
<1>session. ASSUME Exit \/ FinishExit \/ Dispose \/ FinishDispose PROVE TypeOK'
  <2>1. session' \in [kind : Sessions, alive : BOOLEAN, disposed : BOOLEAN]
    <3>1. \/ session' = [session EXCEPT !.alive = FALSE]
          \/ \E b \in BOOLEAN : session' = [session EXCEPT !.disposed = b]
          \/ session' = session
      BY <1>session, <1>type, Zenon DEF Exit, FinishExit, Dispose, FinishDispose
    <3>2. session \in [kind : Sessions, alive : BOOLEAN, disposed : BOOLEAN]
      BY <1>type
    <3> HIDE DEF TypeOK
    <3>3. ASSUME NEW b \in BOOLEAN, session' = [session EXCEPT !.disposed = b]
          PROVE  session' \in [kind : Sessions, alive : BOOLEAN, disposed : BOOLEAN]
      BY <3>2, <3>3
    <3>4. ASSUME session' = [session EXCEPT !.alive = FALSE]
          PROVE  session' \in [kind : Sessions, alive : BOOLEAN, disposed : BOOLEAN]
      BY <3>2, <3>4
    <3> QED
      BY <3>1, <3>2, <3>3, <3>4
  <2>2. /\ pc' \in [Threads -> Stopping \cup {"idle", "take", "clear", "bind", "insert",
                                              "launch", "finish", "over"}]
        /\ after' \in [Threads -> {"clear", "launch", "finish", "over"}]
    BY <1>session, <1>type DEF Exit, FinishExit, Dispose, FinishDispose, Threads
  <2> QED
    BY <1>session, <2>1, <2>2, <1>type
    DEF Exit, FinishExit, Dispose, FinishDispose, server, conns, hooks
<1>still. CASE UNCHANGED vars
  BY <1>still, <1>type DEF vars, server, conns, hooks, threads
<1> QED
  BY <1>fire, <1>connect, <1>fails, <1>read, <1>killed, <1>answer, <1>ends, <1>nothing,
     <1>dispatch, <1>refuse, <1>release, <1>stop, <1>open, <1>session, <1>still, NextCases

LEMMA HooksStep == ChannelInv /\ [Next]_vars => HooksInOrder'
<1> SUFFICES ASSUME ChannelInv, [Next]_vars, NEW g \in Hooks PROVE InOrder(g)'
  BY DEF HooksInOrder
<1>inv. TypeOK /\ InOrder(g)
  BY DEF ChannelInv, HooksInOrder
<1>sets. Hooks \subseteq Conns /\ \A s \in Servers : s \notin Hooks
  BY ChannelAssumption DEF Conns
<1> USE DEF InOrder, TypeOK
<1>fire. ASSUME NEW h \in Hooks, NEW k \in Kinds, Fire(h, k) PROVE InOrder(g)'
  <2>1. Attempts > 0
    BY ChannelAssumption
  <2> QED
    BY <1>inv, <1>sets, <1>fire, <2>1 DEF Fire, server, conns, threads
<1>connect. ASSUME NEW h \in Hooks, Connect(h) PROVE InOrder(g)'
  BY <1>inv, <1>sets, <1>connect DEF Connect, Enqueue, server, threads
<1>fails. ASSUME NEW h \in Hooks, ConnectFails(h) PROVE InOrder(g)'
  <2>1. FailureOutput(kind[h]) # "allow"
    BY DEF FailureOutput
  <2>2. CASE g # h
    BY <2>2, <1>inv, <1>fails DEF ConnectFails, server, conns, threads
  <2>3. CASE g = h
    <3>1. attempt'[g] = attempt[g] + 1 /\ attempt[g] \in Nat /\ Attempts \in Nat
      BY <2>3, <1>inv, <1>fails, ChannelAssumption DEF ConnectFails
    <3> QED
      BY <2>1, <2>3, <3>1, <1>inv, <1>fails DEF ConnectFails, server, conns, threads
  <2> QED
    BY <2>2, <2>3
<1>read. ASSUME NEW h \in Hooks, Read(h) PROVE InOrder(g)'
  <2>1. Printed(reply[h], kind[h]) = "allow" => reply[h] = "allow"
    BY DEF Printed, FailureOutput
  <2> QED
    BY <2>1, <1>inv, <1>read DEF Read, server, conns, threads
<1>killed. ASSUME NEW h \in Hooks, Killed(h) PROVE InOrder(g)'
  BY <1>inv, <1>killed DEF Killed, server, conns, threads
<1>answer. ASSUME NEW h \in Hooks, NEW r \in {"allow", "deny", "ack", "eof"}, Answer(h, r)
           PROVE  InOrder(g)'
  BY <1>inv, <1>sets, <1>answer DEF Answer, server, threads
<1>ends. ASSUME NEW s \in Servers, AcceptEnds(s) PROVE InOrder(g)'
  <2>1. g \in Conns /\ (g \in Queued(s) => thread[g] = "queued")
    BY <1>sets DEF Queued
  <2> QED
    BY <2>1, <1>inv, <1>ends DEF AcceptEnds, threads
<1>serve. ASSUME NEW c \in Conns,
                 \/ c \in Servers /\ NothingToRead(c)
                 \/ Refuse(c) \/ Release(c)
                 \/ \E s \in Servers : Dispatch(s, c)
          PROVE  InOrder(g)'
  <2>1. CASE c \in Servers /\ NothingToRead(c)
    BY <2>1, <1>inv, <1>sets DEF NothingToRead, server, hooks, threads
  <2>2. CASE Refuse(c)
    BY <2>2, <1>inv, <1>sets DEF Refuse, server, threads
  <2>3. CASE Release(c)
    BY <2>3, <1>inv, <1>sets DEF Release, server, hooks, threads
  <2>4. ASSUME NEW s \in Servers, Dispatch(s, c) PROVE InOrder(g)'
    BY <2>4, <1>inv, <1>sets DEF Dispatch, Queued, server, hooks, threads
  <2> QED
    BY <1>serve, <2>1, <2>2, <2>3, <2>4
<1>quiet. ASSUME UNCHANGED <<client, kind, attempt, reply, output>>, thread'[g] = thread[g]
          PROVE  InOrder(g)'
  BY <1>quiet, <1>inv
<1>stop. ASSUME NEW t \in Threads, SetFlag(t) \/ WakeOwner(t) \/ Join(t) \/ Unlink(t) \/ TakeOut(t)
         PROVE InOrder(g)'
  <2>1. CASE WakeOwner(t)
    <3>1. victim[t] # g
      BY <2>1, <1>inv, <1>sets, ChannelAssumption DEF ChannelInv, StoppedOnce, WakeOwner, Stopping
    <3> QED
      BY <2>1, <3>1, <1>inv, <1>sets, <1>quiet DEF WakeOwner, Enqueue, hooks
  <2> QED
    BY <1>stop, <2>1, <1>quiet DEF SetFlag, Join, Unlink, TakeOut, conns, hooks, server
<1>open. ASSUME NEW s \in Servers,
                Begin(s) \/ Clear(s) \/ Bind(s) \/ Insert(s) \/ Launch(s) \/ LaunchFails(s)
         PROVE InOrder(g)'
  BY <1>open, <1>quiet DEF Begin, Clear, Bind, Insert, Launch, LaunchFails, conns, hooks
<1>session. ASSUME Exit \/ FinishExit \/ Dispose \/ FinishDispose PROVE InOrder(g)'
  BY <1>session, <1>quiet DEF Exit, FinishExit, Dispose, FinishDispose, conns, hooks
<1>still. CASE UNCHANGED vars
  BY <1>still, <1>quiet DEF vars, conns, hooks
<1>nothing. Servers \subseteq Conns
  BY DEF Conns
<1> QED
  BY <1>fire, <1>connect, <1>fails, <1>read, <1>killed, <1>answer, <1>ends, <1>nothing,
     <1>serve, <1>stop, <1>open, <1>session, <1>still, NextCases

LEMMA PeersStep == ChannelInv /\ [Next]_vars => PeersKnown'
<1> SUFFICES ASSUME ChannelInv, [Next]_vars PROVE PeersKnown'
  OBVIOUS
<1>inv. TypeOK /\ PeersKnown
  BY DEF ChannelInv
<1> USE DEF PeersKnown, TypeOK
<1>connect. ASSUME NEW c \in Conns, Reachable, Enqueue(c) PROVE PeersKnown'
  BY <1>connect, <1>inv DEF Reachable, Enqueue
<1>serve. ASSUME peer' = peer, \A c \in Conns : thread'[c] # "none" => thread[c] # "none"
          PROVE  PeersKnown'
  BY <1>serve, <1>inv
<1>hook. ASSUME NEW h \in Hooks,
                \/ \E k \in Kinds : Fire(h, k)
                \/ Connect(h) \/ ConnectFails(h) \/ Read(h) \/ Killed(h)
                \/ \E r \in {"allow", "deny", "ack", "eof"} : Answer(h, r)
         PROVE  PeersKnown'
  <2>1. CASE Connect(h)
    BY <2>1, <1>connect DEF Connect, Conns
  <2>2. ASSUME NEW r \in {"allow", "deny", "ack", "eof"}, Answer(h, r) PROVE PeersKnown'
    BY <2>2, <1>serve, <1>inv DEF Answer
  <2> QED
    BY <1>hook, <2>1, <2>2, <1>serve DEF Fire, ConnectFails, Read, Killed, conns
<1>conn. ASSUME NEW c \in Conns,
                \/ c \in Servers /\ (AcceptEnds(c) \/ NothingToRead(c))
                \/ Refuse(c) \/ Release(c)
                \/ \E s \in Servers : Dispatch(s, c)
         PROVE  PeersKnown'
  <2>1. CASE c \in Servers /\ AcceptEnds(c)
    BY <2>1, <1>serve, <1>inv DEF AcceptEnds, Queued
  <2>2. CASE (c \in Servers /\ NothingToRead(c)) \/ Refuse(c) \/ Release(c)
    BY <2>2, <1>serve, <1>inv DEF NothingToRead, Refuse, Release
  <2>3. ASSUME NEW s \in Servers, Dispatch(s, c) PROVE PeersKnown'
    BY <2>3, <1>serve, <1>inv DEF Dispatch, Queued
  <2> QED
    BY <1>conn, <2>1, <2>2, <2>3
<1>stop. ASSUME NEW t \in Threads, SetFlag(t) \/ WakeOwner(t) \/ Join(t) \/ Unlink(t) \/ TakeOut(t)
         PROVE  PeersKnown'
  <2>1. CASE WakeOwner(t)
    <3>1. victim[t] \in Conns
      BY <2>1, <1>inv DEF WakeOwner, ChannelInv, StoppedOnce, Stopping, Conns
    <3> QED
      BY <2>1, <3>1, <1>connect, <1>serve DEF WakeOwner
  <2> QED
    BY <1>stop, <2>1, <1>serve DEF SetFlag, Join, Unlink, TakeOut, conns, server
<1>open. ASSUME NEW s \in Servers,
                Begin(s) \/ Clear(s) \/ Bind(s) \/ Insert(s) \/ Launch(s) \/ LaunchFails(s)
         PROVE  PeersKnown'
  BY <1>open, <1>serve DEF Begin, Clear, Bind, Insert, Launch, LaunchFails, conns
<1>session. CASE Exit \/ FinishExit \/ Dispose \/ FinishDispose
  BY <1>session, <1>serve DEF Exit, FinishExit, Dispose, FinishDispose, conns
<1>still. CASE UNCHANGED vars
  BY <1>still, <1>serve DEF vars, conns
<1>sets. Servers \subseteq Conns
  BY DEF Conns
<1> QED
  BY <1>hook, <1>conn, <1>stop, <1>open, <1>session, <1>still, <1>sets, NextCases

LEMMA StoppedStep == ChannelInv /\ [Next]_vars => StoppedOnce'
<1> SUFFICES ASSUME ChannelInv, [Next]_vars PROVE StoppedOnce'
  OBVIOUS
<1>inv. TypeOK /\ StoppedOnce
  BY DEF ChannelInv
<1>sets. /\ Servers \subseteq Conns /\ Servers \subseteq Threads /\ NoServer \notin Servers
         /\ "reaper" \in Threads \ Servers /\ "disposer" \in Threads \ Servers
         /\ \A h \in Hooks : h \in Conns /\ h \notin Servers
  BY ChannelAssumption DEF Conns, Threads
<1> USE DEF StoppedOnce, NotYet, Stopping, TypeOK
<1>conn. ASSUME UNCHANGED <<registered, pc, after, victim>>,
                \A s \in Servers : thread[s] = "none" => thread'[s] = "none"
         PROVE  StoppedOnce'
  BY <1>conn, <1>inv
<1>hook. ASSUME NEW h \in Hooks,
                \/ \E k \in Kinds : Fire(h, k)
                \/ Connect(h) \/ ConnectFails(h) \/ Read(h) \/ Killed(h)
                \/ \E r \in {"allow", "deny", "ack", "eof"} : Answer(h, r)
         PROVE  StoppedOnce'
  <2>1. CASE Connect(h)
    BY <2>1, <1>conn, <1>inv, <1>sets DEF Connect, Enqueue, server, threads
  <2>2. ASSUME NEW r \in {"allow", "deny", "ack", "eof"}, Answer(h, r) PROVE StoppedOnce'
    BY <2>2, <1>conn, <1>inv, <1>sets DEF Answer, server, threads
  <2> QED
    BY <1>hook, <2>1, <2>2, <1>conn DEF Fire, ConnectFails, Read, Killed, conns, server, threads
<1>serve. ASSUME NEW c \in Conns,
                \/ c \in Servers /\ (AcceptEnds(c) \/ NothingToRead(c))
                \/ Refuse(c) \/ Release(c)
                \/ \E s \in Servers : Dispatch(s, c)
         PROVE  StoppedOnce'
  <2>1. CASE c \in Servers /\ AcceptEnds(c)
    BY <2>1, <1>conn, <1>inv, <1>sets DEF AcceptEnds, Queued, threads
  <2>2. CASE (c \in Servers /\ NothingToRead(c)) \/ Refuse(c) \/ Release(c)
    BY <2>2, <1>conn, <1>inv, <1>sets DEF NothingToRead, Refuse, Release, server, threads
  <2>3. ASSUME NEW s \in Servers, Dispatch(s, c) PROVE StoppedOnce'
    BY <2>3, <1>conn, <1>inv, <1>sets DEF Dispatch, Queued, server, threads
  <2> QED
    BY <1>serve, <2>1, <2>2, <2>3
<1>stop. ASSUME NEW t \in Threads, SetFlag(t) \/ WakeOwner(t) \/ Join(t) \/ Unlink(t) \/ TakeOut(t)
         PROVE  StoppedOnce'
  <2>1. CASE SetFlag(t)
    BY <2>1, <1>inv, <1>sets DEF SetFlag, conns
  <2>2. CASE WakeOwner(t)
    BY <2>2, <1>inv, <1>sets DEF WakeOwner, Enqueue, server
  <2>3. CASE Join(t)
    BY <2>3, <1>inv, <1>sets DEF Join, conns, server
  <2>4. CASE Unlink(t)
    BY <2>4, <1>inv, <1>sets DEF Unlink, conns
  <2>5. CASE TakeOut(t)
    BY <2>5, <1>inv, <1>sets DEF TakeOut, StopOld, conns
  <2> QED
    BY <1>stop, <2>1, <2>2, <2>3, <2>4, <2>5
<1>open. ASSUME NEW s \in Servers,
                Begin(s) \/ Clear(s) \/ Bind(s) \/ Insert(s) \/ Launch(s) \/ LaunchFails(s)
         PROVE  StoppedOnce'
  <2>1. CASE Begin(s)
    BY <2>1, <1>inv, <1>sets DEF Begin, conns, server
  <2>2. CASE Clear(s) \/ Bind(s)
    BY <2>2, <1>inv, <1>sets DEF Clear, Bind, conns
  <2>3. CASE Insert(s)
    BY <2>3, <1>inv, <1>sets DEF Insert, StopOld, conns
  <2>4. CASE Launch(s) \/ LaunchFails(s)
    <3>1. /\ pc[s] = "launch" /\ UNCHANGED <<registered, thread, victim>>
          /\ \/ pc' = [pc EXCEPT ![s] = "over"] /\ after' = after
             \/ pc' = [pc EXCEPT ![s] = "take"] /\ after' = [after EXCEPT ![s] = "over"]
      BY <2>4 DEF Launch, LaunchFails, conns, server
    <3> QED
      BY SMTT(30), <3>1, <1>inv, <1>sets
  <2> QED
    BY <1>open, <2>1, <2>2, <2>3, <2>4
<1>session. ASSUME Exit \/ FinishExit \/ Dispose \/ FinishDispose PROVE StoppedOnce'
  BY SMTT(30), <1>session, <1>inv, <1>sets DEF Exit, FinishExit, Dispose, FinishDispose, conns, server
<1>still. CASE UNCHANGED vars
  BY <1>still, <1>conn DEF vars, conns, server, threads
<1> QED
  BY <1>hook, <1>serve, <1>stop, <1>open, <1>session, <1>still, <1>sets, NextCases

\* What a step does to the connections of each server: it leaves them, or starts
\* one more thread, or ends one.
LEMMA SlotsStep == ChannelInv /\ [Next]_vars => SlotsAreExact'
<1> SUFFICES ASSUME ChannelInv, [Next]_vars, NEW z \in Servers
             PROVE  /\ inflight'[z] = Cardinality(Running(z)')
                    /\ Cardinality(Served(z)') <= MaxInflight
  BY DEF SlotsAreExact, Running, Served
<1> DEFINE Exact == /\ inflight'[z] = Cardinality(Running(z)')
                    /\ Cardinality(Served(z)') <= MaxInflight
<1>inv. TypeOK /\ PeersKnown
  BY DEF ChannelInv
<1>count. /\ IsFiniteSet(Running(z)) /\ IsFiniteSet(Served(z))
          /\ inflight[z] = Cardinality(Running(z))
          /\ Cardinality(Running(z)) \in Nat /\ Cardinality(Served(z)) \in Nat
          /\ Cardinality(Served(z)) <= Cardinality(Running(z))
          /\ Cardinality(Served(z)) <= MaxInflight /\ MaxInflight \in Nat
  BY CountFacts, ChannelAssumption DEF ChannelInv
<1>same. ASSUME Running(z)' = Running(z), inflight'[z] = inflight[z],
                Served(z)' \in SUBSET Served(z)
         PROVE  Exact
  <2>1. Cardinality(Served(z)') <= Cardinality(Served(z)) /\ Cardinality(Served(z)') \in Nat
    BY <1>same, <1>count, FS_Subset, FS_CardinalityType
  <2> QED
    BY <2>1, <1>same, <1>count
<1>quiet. ASSUME UNCHANGED <<inflight, thread, peer>> PROVE Exact
  BY <1>quiet, <1>same DEF Running, Served
<1>inert. ASSUME inflight' = inflight,
                 \A c \in Conns : \/ thread'[c] = thread[c] /\ peer'[c] = peer[c]
                                  \/ /\ thread[c] \in {"none", "queued"}
                                     /\ thread'[c] \in {"queued", "over"}
          PROVE  Exact
  <2>1. Running(z)' = Running(z) /\ Served(z)' = Served(z)
    BY <1>inert DEF Running, Served
  <2> QED
    BY <2>1, <1>inert, <1>same
<1>works. ASSUME inflight' = inflight, peer' = peer, NEW c \in Conns,
                 thread[c] \in {"serving", "refusing"},
                 thread' = [thread EXCEPT ![c] = "closing"]
          PROVE  Exact
  <2>1. Running(z)' = Running(z) /\ Served(z)' \in SUBSET Served(z)
    BY <1>works, <1>inv DEF Running, Served, TypeOK
  <2> QED
    BY <2>1, <1>works, <1>same
<1>hook. ASSUME NEW h \in Hooks,
                \/ \E k \in Kinds : Fire(h, k)
                \/ Connect(h) \/ ConnectFails(h) \/ Read(h) \/ Killed(h)
                \/ \E r \in {"allow", "deny", "ack", "eof"} : Answer(h, r)
         PROVE  Exact
  <2>1. CASE Connect(h)
    <3>1. thread[h] = "none" /\ h \in Conns
      BY <2>1 DEF Connect, Conns, ChannelInv, HooksInOrder, InOrder
    <3> QED
      BY <2>1, <3>1, <1>inert, <1>inv DEF Connect, Enqueue, TypeOK
  <2>2. ASSUME NEW r \in {"allow", "deny", "ack", "eof"}, Answer(h, r) PROVE Exact
    BY <2>2, <1>works DEF Answer, Conns
  <2> QED
    BY <1>hook, <2>1, <2>2, <1>quiet DEF Fire, ConnectFails, Read, Killed, conns
<1>ends. ASSUME NEW s \in Servers, AcceptEnds(s) \/ NothingToRead(s) PROVE Exact
  <2>1. CASE AcceptEnds(s)
    BY <2>1, <1>inert DEF AcceptEnds, Queued
  <2>2. CASE NothingToRead(s)
    BY <2>2, <1>works DEF NothingToRead, Conns
  <2> QED
    BY <1>ends, <2>1, <2>2
<1>dispatch. ASSUME NEW s \in Servers, NEW c \in Conns, Dispatch(s, c) PROVE Exact
  <2>1. /\ thread[c] = "queued" /\ peer[c] = s /\ peer' = peer
        /\ inflight' = [inflight EXCEPT ![s] = inflight[s] + 1]
        /\ thread' = [thread EXCEPT
             ![c] = IF inflight[s] >= MaxInflight THEN "refusing" ELSE "serving"]
    BY <1>dispatch DEF Dispatch, Queued
  <2>2. CASE z # s
    <3>1. Running(z)' = Running(z) /\ Served(z)' = Served(z)
      BY <2>1, <2>2, <1>inv DEF Running, Served, TypeOK
    <3> QED
      BY <3>1, <2>1, <2>2, <1>same, <1>inv DEF TypeOK
  <2>3. CASE z = s
    <3>1. c \notin Running(z) /\ Running(z)' = Running(z) \cup {c} /\ c \notin Served(z)
      BY <2>1, <2>3, <1>inv DEF Running, Served, TypeOK
    <3>2. Cardinality(Running(z)') = Cardinality(Running(z)) + 1
      BY <3>1, <1>count, FS_AddElement
    <3>3. inflight'[z] = inflight[z] + 1
      BY <2>1, <2>3, <1>inv DEF TypeOK
    <3>4. CASE inflight[z] >= MaxInflight
      <4>1. Served(z)' = Served(z)
        BY <2>1, <2>3, <3>4, <1>inv DEF Served, TypeOK
      <4> QED
        BY <3>2, <3>3, <4>1, <1>count
    <3>5. CASE ~(inflight[z] >= MaxInflight)
      <4>1. Served(z)' = Served(z) \cup {c}
        BY <2>1, <2>3, <3>5, <1>inv DEF Served, TypeOK
      <4>2. Cardinality(Served(z)') = Cardinality(Served(z)) + 1
        BY <4>1, <3>1, <1>count, FS_AddElement
      <4> QED
        BY <3>2, <3>3, <3>5, <4>2, <1>count
    <3> QED
      BY <3>4, <3>5
  <2> QED
    BY <2>2, <2>3
<1>conn. ASSUME NEW c \in Conns, Refuse(c) \/ Release(c) PROVE Exact
  <2>1. CASE Refuse(c)
    BY <2>1, <1>works DEF Refuse
  <2>2. CASE Release(c)
    <3>1. /\ thread[c] = "closing" /\ peer' = peer /\ peer[c] \in Servers
          /\ inflight' = [inflight EXCEPT ![peer[c]] = inflight[peer[c]] - 1]
          /\ thread' = [thread EXCEPT ![c] = "over"]
      BY <2>2, <1>inv DEF Release, PeersKnown
    <3>2. Served(z)' = Served(z)
      BY <3>1, <1>inv DEF Served, TypeOK
    <3>3. CASE z # peer[c]
      <4>1. Running(z)' = Running(z)
        BY <3>1, <3>3, <1>inv DEF Running, TypeOK
      <4> QED
        BY <3>1, <3>2, <3>3, <4>1, <1>same, <1>inv DEF TypeOK
    <3>4. CASE z = peer[c]
      <4>1. c \in Running(z) /\ Running(z)' = Running(z) \ {c}
        BY <3>1, <3>4, <1>inv DEF Running, TypeOK
      <4>2. Cardinality(Running(z)') = Cardinality(Running(z)) - 1
        BY <4>1, <1>count, FS_RemoveElement
      <4>3. inflight'[z] = inflight[z] - 1
        BY <3>1, <3>4, <1>inv DEF TypeOK
      <4> QED
        BY <4>2, <4>3, <3>2, <1>count
    <3> QED
      BY <3>3, <3>4
  <2> QED
    BY <1>conn, <2>1, <2>2
<1>stop. ASSUME NEW t \in Threads, SetFlag(t) \/ WakeOwner(t) \/ Join(t) \/ Unlink(t) \/ TakeOut(t)
         PROVE  Exact
  <2>1. CASE WakeOwner(t)
    <3>1. victim[t] \in Conns /\ thread[victim[t]] = "none"
      BY <2>1, <1>inv DEF WakeOwner, ChannelInv, StoppedOnce, Stopping, TypeOK, Conns
    <3> QED
      BY <2>1, <3>1, <1>inert, <1>quiet, <1>inv DEF WakeOwner, Enqueue, TypeOK
  <2> QED
    BY <1>stop, <2>1, <1>quiet DEF SetFlag, Join, Unlink, TakeOut, conns, server
<1>open. ASSUME NEW s \in Servers,
                Begin(s) \/ Clear(s) \/ Bind(s) \/ Insert(s) \/ Launch(s) \/ LaunchFails(s)
         PROVE  Exact
  BY <1>open, <1>quiet DEF Begin, Clear, Bind, Insert, Launch, LaunchFails, conns
<1>session. CASE Exit \/ FinishExit \/ Dispose \/ FinishDispose
  BY <1>session, <1>quiet DEF Exit, FinishExit, Dispose, FinishDispose, conns
<1>still. CASE UNCHANGED vars
  BY <1>still, <1>quiet DEF vars, conns
<1> QED
  BY <1>hook, <1>ends, <1>dispatch, <1>conn, <1>stop, <1>open, <1>session, <1>still, NextCases

\* A hook prints in two steps only, and each prints what its event needs.
LEMMA FailClosedStep == ChannelInv /\ [Next]_vars => FailClosed'
<1> DEFINE Closed(h) == client[h] = "done" /\ kind[h] = "PreToolUse" =>
                          /\ output[h] \in {"allow", "deny"}
                          /\ output[h] = "allow" => reply[h] = "allow"
<1> SUFFICES ASSUME ChannelInv, [Next]_vars, NEW g \in Hooks PROVE Closed(g)'
  BY DEF FailClosed
<1>inv. TypeOK /\ InOrder(g) /\ InOrder(g)' /\ Closed(g)
  BY HooksStep DEF ChannelInv, HooksInOrder, FailClosed
<1> USE DEF TypeOK
<1>quiet. ASSUME UNCHANGED <<client, kind, output>> PROVE Closed(g)'
  BY <1>quiet, <1>inv DEF InOrder
<1>hook. ASSUME NEW h \in Hooks,
                \/ \E k \in Kinds : Fire(h, k)
                \/ Connect(h) \/ ConnectFails(h) \/ Read(h) \/ Killed(h)
                \/ \E r \in {"allow", "deny", "ack", "eof"} : Answer(h, r)
         PROVE  Closed(g)'
  <2>1. ASSUME NEW k \in Kinds, Fire(h, k) PROVE Closed(g)'
    BY <2>1, <1>inv DEF Fire
  <2>2. CASE Connect(h)
    BY <2>2, <1>inv DEF Connect
  <2>3. CASE ConnectFails(h)
    BY <2>3, <1>inv DEF ConnectFails, FailureOutput
  <2>4. CASE Read(h)
    <3>1. CASE g # h
      BY <2>4, <3>1, <1>inv DEF Read
    <3>2. CASE g = h
      BY <2>4, <3>2, <1>inv DEF Read, Printed, FailureOutput, InOrder
    <3> QED
      BY <3>1, <3>2
  <2>5. CASE Killed(h)
    BY <2>5, <1>inv DEF Killed
  <2>6. ASSUME NEW r \in {"allow", "deny", "ack", "eof"}, Answer(h, r) PROVE Closed(g)'
    BY <2>6, <1>quiet DEF Answer
  <2> QED
    BY <1>hook, <2>1, <2>2, <2>3, <2>4, <2>5, <2>6
<1>conn. ASSUME NEW c \in Conns,
                \/ c \in Servers /\ (AcceptEnds(c) \/ NothingToRead(c))
                \/ Refuse(c) \/ Release(c)
                \/ \E s \in Servers : Dispatch(s, c)
         PROVE  Closed(g)'
  BY <1>conn, <1>quiet DEF AcceptEnds, NothingToRead, Refuse, Release, Dispatch, hooks
<1>stop. ASSUME NEW t \in Threads, SetFlag(t) \/ WakeOwner(t) \/ Join(t) \/ Unlink(t) \/ TakeOut(t)
         PROVE  Closed(g)'
  BY <1>stop, <1>quiet DEF SetFlag, WakeOwner, Join, Unlink, TakeOut, hooks
<1>open. ASSUME NEW s \in Servers,
                Begin(s) \/ Clear(s) \/ Bind(s) \/ Insert(s) \/ Launch(s) \/ LaunchFails(s)
         PROVE  Closed(g)'
  BY <1>open, <1>quiet DEF Begin, Clear, Bind, Insert, Launch, LaunchFails, hooks
<1>session. CASE Exit \/ FinishExit \/ Dispose \/ FinishDispose
  BY <1>session, <1>quiet DEF Exit, FinishExit, Dispose, FinishDispose, hooks
<1>still. CASE UNCHANGED vars
  BY <1>still, <1>quiet DEF vars, hooks
<1>sets. Servers \subseteq Conns
  BY DEF Conns
<1> QED
  BY <1>hook, <1>conn, <1>stop, <1>open, <1>session, <1>still, <1>sets, NextCases

LEMMA ChannelInit == Init => ChannelInv
<1> SUFFICES ASSUME Init PROVE ChannelInv
  OBVIOUS
<1>1. TypeOK
  <2>1. PICK k \in Sessions : session = [kind |-> k, alive |-> k = "shell", disposed |-> FALSE]
    BY DEF Init
  <2>2. session \in [kind : Sessions, alive : BOOLEAN, disposed : BOOLEAN]
    BY <2>1
  <2>3. attempt \in [Hooks -> 0..Attempts]
    BY ChannelAssumption DEF Init
  <2> QED
    BY <2>2, <2>3 DEF Init, TypeOK, Stopping
<1>2. HooksInOrder /\ FailClosed
  BY ChannelAssumption DEF Init, HooksInOrder, InOrder, FailClosed, Conns
<1>3. StoppedOnce /\ PeersKnown
  BY ChannelAssumption DEF Init, StoppedOnce, PeersKnown, Stopping, Conns, Threads
<1>4. SlotsAreExact
  <2> SUFFICES ASSUME NEW z \in Servers
               PROVE  /\ inflight[z] = Cardinality(Running(z))
                      /\ Cardinality(Served(z)) <= MaxInflight
    BY DEF SlotsAreExact, Running, Served
  <2>1. Running(z) = {} /\ Served(z) = {}
    BY DEF Init, Running, Served
  <2> QED
    BY <2>1, FS_EmptySet, ChannelAssumption DEF Init
<1> QED
  BY <1>1, <1>2, <1>3, <1>4 DEF ChannelInv

-----------------------------------------------------------------------------
\* The strengthened invariant holds in every reachable state.
THEOREM ChannelInvariant == Spec => []ChannelInv
<1>1. ChannelInv /\ [Next]_vars => ChannelInv'
  BY TypeStep, HooksStep, StoppedStep, PeersStep, SlotsStep, FailClosedStep DEF ChannelInv
<1> QED
  BY <1>1, ChannelInit, PTL DEF Spec

\* Every variable of the channel keeps its type.
THEOREM ChannelTypeCorrect == Spec => []TypeOK
BY ChannelInvariant, PTL DEF ChannelInv

\* A PreToolUse hook that ends by itself has printed a decision, and "allow" only if
\* a handler answered so, however servers are opened and torn down meanwhile.
THEOREM HookFailsClosed == Spec => []FailClosed
BY ChannelInvariant, PTL DEF ChannelInv

\* The slots of a server are counted exactly, and never more than MaxInflight
\* connections are served.
THEOREM SlotsStayExact == Spec => []SlotsAreExact
BY ChannelInvariant, PTL DEF ChannelInv

-----------------------------------------------------------------------------
(* While the openings and teardowns of the session do not overlap.           *)

Accepting == {s \in Servers : acceptor[s] = "accepting"}

\* What is registered is what the path names and what accepts.
Settled ==
  /\ path = registered
  /\ Accepting = {registered} \ {NoServer}

\* A thread that opens a server works alone; the other two only stop servers.
OneWorks ==
  /\ \A s \in Servers, t \in Threads :
       pc[s] \notin {"idle", "over"} /\ t # s => pc[t] \in {"idle", "over"}
  /\ \A t \in {"reaper", "disposer"} :
       pc[t] \in Stopping \cup {"idle", "take", "finish", "over"} /\ after[t] \in {"finish", "over"}

\* The server a thread is stopping is still the one the path names, the only one
\* that may accept, and it will see the flag.
StopsOwner(t) ==
  /\ registered = NoServer /\ path = victim[t]
  /\ Accepting \subseteq {victim[t]} /\ acceptor[victim[t]] # "unborn"
  /\ pc[t] \in {"wake", "join"} => shutdown[victim[t]]
  /\ pc[t] = "join" =>
       \/ acceptor[victim[t]] = "ended"
       \/ \E c \in Conns : thread[c] = "queued" /\ peer[c] = victim[t]
  /\ pc[t] = "unlink" => Accepting = {}

\* Where the openings are.
OpensAlone ==
  /\ (\A t \in Threads : pc[t] \notin Stopping \cup {"bind", "insert"}) => Settled
  /\ \A t \in Threads : pc[t] \in Stopping => StopsOwner(t)
  /\ \A s \in Servers :
       /\ pc[s] \in {"clear", "bind", "insert"} => registered = NoServer
       /\ pc[s] = "bind" => path = NoServer /\ Accepting = {}
       /\ pc[s] = "insert" => path = s /\ Accepting = {s}
       /\ NotYet(s) \/ s = registered => ~shutdown[s]

\* A dead or disposed session has no server, or it is about to lose it.
DeadHasNone ==
  /\ session.kind = "agent" /\ ~session.alive /\ registered # NoServer =>
       pc["reaper"] = "take" \/ \E s \in Servers : pc[s] \in {"launch", "take"}
  /\ session.disposed => registered = NoServer /\ \A s \in Servers : pc[s] \in {"idle", "over"}
  /\ \A t \in {"reaper", "disposer"} : pc[t] \in Stopping \cup {"finish"} => registered = NoServer

SerialInv == OneWorks /\ OpensAlone /\ DeadHasNone

LEMMA OneWorksStep ==
  ChannelInv /\ SerialInv /\ ~Overlap /\ [Next]_vars => OneWorks'
<1> SUFFICES ASSUME ChannelInv, SerialInv, ~Overlap, [Next]_vars PROVE OneWorks'
  OBVIOUS
<1>inv. TypeOK /\ OneWorks
  BY DEF ChannelInv, SerialInv
<1>sets. /\ Servers \subseteq Threads /\ "reaper" \in Threads \ Servers
         /\ "disposer" \in Threads \ Servers
  BY ChannelAssumption DEF Threads
<1> USE DEF OneWorks, TypeOK, Stopping
<1>quiet. ASSUME UNCHANGED <<pc, after>> PROVE OneWorks'
  BY <1>quiet, <1>inv
<1>hook. ASSUME NEW h \in Hooks,
                \/ \E k \in Kinds : Fire(h, k)
                \/ Connect(h) \/ ConnectFails(h) \/ Read(h) \/ Killed(h)
                \/ \E r \in {"allow", "deny", "ack", "eof"} : Answer(h, r)
         PROVE  OneWorks'
  BY <1>hook, <1>quiet DEF Fire, Connect, ConnectFails, Read, Killed, Answer, threads
<1>conn. ASSUME NEW c \in Conns,
                \/ c \in Servers /\ (AcceptEnds(c) \/ NothingToRead(c))
                \/ Refuse(c) \/ Release(c)
                \/ \E s \in Servers : Dispatch(s, c)
         PROVE  OneWorks'
  BY <1>conn, <1>quiet DEF AcceptEnds, NothingToRead, Refuse, Release, Dispatch, threads
<1>goes. ASSUME NEW t \in Threads, pc[t] \notin {"idle", "over"}, after' = after,
                NEW step \in Stopping \cup {after[t]}, pc' = [pc EXCEPT ![t] = step]
         PROVE  OneWorks'
  BY <1>goes, <1>inv, <1>sets
<1>stop. ASSUME NEW t \in Threads, SetFlag(t) \/ WakeOwner(t) \/ Join(t) \/ Unlink(t) \/ TakeOut(t)
         PROVE  OneWorks'
  <2>1. CASE SetFlag(t)
    BY <2>1, <1>goes DEF SetFlag
  <2>2. CASE WakeOwner(t)
    BY <2>2, <1>goes DEF WakeOwner
  <2>3. CASE Join(t)
    BY <2>3, <1>goes DEF Join
  <2>4. CASE Unlink(t)
    BY <2>4, <1>goes DEF Unlink
  <2>5. CASE TakeOut(t)
    BY <2>5, <1>goes DEF TakeOut, StopOld
  <2> QED
    BY <1>stop, <2>1, <2>2, <2>3, <2>4, <2>5
<1>open. ASSUME NEW s \in Servers,
                Begin(s) \/ Clear(s) \/ Bind(s) \/ Insert(s) \/ Launch(s) \/ LaunchFails(s)
         PROVE  OneWorks'
  <2>1. /\ pc[s] \notin {"idle", "over"} \/ \A t \in Threads : pc[t] \in {"idle", "over"}
        /\ \A t \in Threads \ {s} : pc'[t] = pc[t] /\ after'[t] = after[t]
    <3>1. CASE Begin(s)
      <4>1. \A t \in Threads : pc[t] \in {"idle", "over"}
        BY <3>1 DEF Begin, Working
      <4> QED
        BY <3>1, <4>1, <1>inv DEF Begin
    <3>2. CASE Clear(s) \/ Bind(s)
      BY <3>2, <1>inv DEF Clear, Bind
    <3>3. CASE Insert(s)
      BY <3>3, <1>inv DEF Insert, StopOld
    <3>4. CASE Launch(s)
      <4>1. pc[s] = "launch" /\ pc' = [pc EXCEPT ![s] = "over"] /\ after' = after
        BY <3>4 DEF Launch
      <4> QED
        BY <4>1, <1>inv
    <3>5. CASE LaunchFails(s)
      BY <3>5, <1>inv DEF LaunchFails
    <3> QED
      BY <1>open, <3>1, <3>2, <3>3, <3>4, <3>5
  <2> QED
    BY <2>1, <1>inv, <1>sets
<1>session. ASSUME Exit \/ FinishExit \/ Dispose \/ FinishDispose PROVE OneWorks'
  <2>1. CASE Exit
    BY SMTT(30), <2>1, <1>inv, <1>sets DEF Exit, Working
  <2>2. CASE Dispose
    BY <2>2, <1>inv, <1>sets DEF Dispose, Working
  <2>3. CASE FinishExit \/ FinishDispose
    BY <2>3, <1>inv, <1>sets DEF FinishExit, FinishDispose
  <2> QED
    BY <1>session, <2>1, <2>2, <2>3
<1>still. CASE UNCHANGED vars
  BY <1>still, <1>quiet DEF vars, threads
<1>names. Servers \subseteq Conns
  BY DEF Conns
<1> QED
  BY <1>hook, <1>conn, <1>stop, <1>open, <1>session, <1>still, <1>names, NextCases

LEMMA DeadStep ==
  ChannelInv /\ SerialInv /\ ~Overlap /\ [Next]_vars => DeadHasNone'
<1> SUFFICES ASSUME ChannelInv, SerialInv, ~Overlap, [Next]_vars PROVE DeadHasNone'
  OBVIOUS
<1>inv. TypeOK /\ OneWorks /\ DeadHasNone
  BY DEF ChannelInv, SerialInv
<1>sets. /\ Servers \subseteq Threads /\ "reaper" \in Threads \ Servers
         /\ "disposer" \in Threads \ Servers
         /\ session.alive \in BOOLEAN /\ session.disposed \in BOOLEAN
  BY ChannelAssumption, <1>inv DEF Threads, TypeOK
<1> USE DEF OneWorks, DeadHasNone, Stopping
<1>quiet. ASSUME UNCHANGED <<pc, registered, session>> PROVE DeadHasNone'
  BY <1>quiet, <1>inv
<1>hook. ASSUME NEW h \in Hooks,
                \/ \E k \in Kinds : Fire(h, k)
                \/ Connect(h) \/ ConnectFails(h) \/ Read(h) \/ Killed(h)
                \/ \E r \in {"allow", "deny", "ack", "eof"} : Answer(h, r)
         PROVE  DeadHasNone'
  BY <1>hook, <1>quiet DEF Fire, Connect, ConnectFails, Read, Killed, Answer, threads, server
<1>conn. ASSUME NEW c \in Conns,
                \/ c \in Servers /\ (AcceptEnds(c) \/ NothingToRead(c))
                \/ Refuse(c) \/ Release(c)
                \/ \E s \in Servers : Dispatch(s, c)
         PROVE  DeadHasNone'
  BY <1>conn, <1>quiet
  DEF AcceptEnds, NothingToRead, Refuse, Release, Dispatch, threads, server
<1>pc. pc \in [Threads -> {"flag", "wake", "join", "unlink", "idle", "take", "clear", "bind",
                          "insert", "launch", "finish", "over"}]
  BY <1>inv DEF TypeOK
<1>stop. ASSUME NEW t \in Threads, SetFlag(t) \/ WakeOwner(t) \/ Join(t) \/ Unlink(t) \/ TakeOut(t)
         PROVE  DeadHasNone'
  <2>1. CASE SetFlag(t)
    BY <2>1, <1>inv, <1>sets, <1>pc DEF SetFlag
  <2>2. CASE WakeOwner(t)
    BY <2>2, <1>inv, <1>sets, <1>pc DEF WakeOwner, server
  <2>3. CASE Join(t)
    BY <2>3, <1>inv, <1>sets, <1>pc DEF Join, server
  <2>4. CASE Unlink(t)
    <3>1. t \in {"reaper", "disposer"} \/ t \in Servers
      BY DEF Threads
    <3> QED
      BY <2>4, <3>1, <1>inv, <1>sets, <1>pc DEF Unlink
  <2>5. CASE TakeOut(t)
    <3>1. registered' = NoServer /\ session' = session
          /\ pc[t] = "take" /\ \A u \in Threads \ {t} : pc'[u] = pc[u]
      BY <2>5, <1>pc DEF TakeOut, StopOld
    <3> QED
      BY <3>1, <1>inv, <1>sets, <1>pc
  <2> QED
    BY <1>stop, <2>1, <2>2, <2>3, <2>4, <2>5
<1>open. ASSUME NEW s \in Servers,
                Begin(s) \/ Clear(s) \/ Bind(s) \/ Insert(s) \/ Launch(s) \/ LaunchFails(s)
         PROVE  DeadHasNone'
  <2>1. CASE Begin(s)
    BY <2>1, <1>inv, <1>sets, <1>pc DEF Begin, server
  <2>2. CASE Clear(s) \/ Bind(s)
    BY <2>2, <1>inv, <1>sets, <1>pc DEF Clear, Bind
  <2>3. CASE Insert(s)
    <3>1. registered = NoServer
      BY <2>3 DEF Insert, SerialInv, OpensAlone
    <3>2. pc[s] = "insert" /\ pc' = [pc EXCEPT ![s] = "launch"] /\ session' = session
      BY ZenonT(40), <2>3, <3>1, <1>inv, <1>sets DEF Insert, StopOld, TypeOK
    <3> QED
      BY <3>2, <1>inv, <1>sets, <1>pc
  <2>4. CASE Launch(s)
    <3>1. /\ pc[s] = "launch" /\ pc' = [pc EXCEPT ![s] = "over"] /\ registered' = registered
          /\ session'.kind = session.kind /\ session'.disposed = session.disposed
          /\ session.kind = "agent" => session'.alive
          /\ session.alive => session'.alive
      BY <2>4, <1>inv DEF Launch, server, TypeOK
    <3> QED
      BY <3>1, <1>inv, <1>sets, <1>pc
  <2>5. CASE LaunchFails(s)
    BY <2>5, <1>inv, <1>sets, <1>pc DEF LaunchFails, server
  <2> QED
    BY <1>open, <2>1, <2>2, <2>3, <2>4, <2>5
<1>session. ASSUME Exit \/ FinishExit \/ Dispose \/ FinishDispose PROVE DeadHasNone'
  <2>1. CASE Exit
    <3>1. session'.disposed = session.disposed /\ session'.kind = session.kind
      BY <2>1, <1>inv DEF Exit, TypeOK
    <3> QED
      BY <2>1, <3>1, <1>inv, <1>sets, <1>pc DEF Exit, server
  <2>2. CASE FinishExit
    <3>1. session'.alive = session.alive /\ session'.kind = session.kind
      BY <2>2, <1>inv DEF FinishExit, TypeOK
    <3> QED
      BY <2>2, <3>1, <1>inv, <1>sets, <1>pc DEF FinishExit, server
  <2>3. CASE Dispose
    BY <2>3, <1>inv, <1>sets, <1>pc DEF Dispose, server
  <2>4. CASE FinishDispose
    <3>1. session'.alive = session.alive /\ session'.kind = session.kind
      BY <2>4, <1>inv DEF FinishDispose, TypeOK
    <3> QED
      BY <2>4, <3>1, <1>inv, <1>sets, <1>pc DEF FinishDispose, server
  <2> QED
    BY <1>session, <2>1, <2>2, <2>3, <2>4
<1>still. CASE UNCHANGED vars
  BY <1>still, <1>quiet DEF vars, threads, server
<1>names. Servers \subseteq Conns
  BY DEF Conns
<1> QED
  BY <1>hook, <1>conn, <1>stop, <1>open, <1>session, <1>still, <1>names, NextCases

LEMMA OpensStep ==
  ChannelInv /\ SerialInv /\ ~Overlap /\ [Next]_vars => OpensAlone'
<1> SUFFICES ASSUME ChannelInv, SerialInv, ~Overlap, [Next]_vars PROVE OpensAlone'
  OBVIOUS
<1>inv. TypeOK /\ StoppedOnce /\ OneWorks /\ OpensAlone /\ DeadHasNone
  BY DEF ChannelInv, SerialInv
<1>sets. /\ Servers \subseteq Threads /\ NoServer \notin Servers
         /\ "reaper" \in Threads \ Servers /\ "disposer" \in Threads \ Servers
         /\ Servers \subseteq Conns /\ \A h \in Hooks : h \in Conns /\ h \notin Servers
         /\ Threads = Servers \cup {"reaper", "disposer"}
  BY ChannelAssumption DEF Threads, Conns
<1>type. /\ pc \in [Threads -> {"flag", "wake", "join", "unlink", "idle", "take", "clear",
                                "bind", "insert", "launch", "finish", "over"}]
         /\ after \in [Threads -> {"clear", "launch", "finish", "over"}]
         /\ victim \in [Threads -> Servers \cup {NoServer}]
         /\ acceptor \in [Servers -> {"unborn", "accepting", "ended"}]
         /\ shutdown \in [Servers -> BOOLEAN]
         /\ path \in Servers \cup {NoServer} /\ registered \in Servers \cup {NoServer}
         /\ thread \in [Conns -> {"none", "queued", "serving", "refusing", "closing", "over"}]
         /\ peer \in [Conns -> Servers \cup {NoServer}]
  BY <1>inv DEF TypeOK, Stopping
<1>one. ASSUME NEW t \in Threads, pc[t] \in Stopping, NEW u \in Threads, pc[u] \in Stopping
        PROVE  t = u
  <2>1. path = victim[t] /\ path = victim[u]
    BY <1>one, <1>inv DEF OpensAlone, StopsOwner
  <2>2. victim[t] # NoServer
    BY <1>one, <1>inv DEF StoppedOnce
  <2> QED
    BY <2>1, <2>2, <1>inv DEF StoppedOnce
<1> USE DEF OpensAlone, Settled, StopsOwner, NotYet, Stopping, Accepting
<1>frame. ASSUME UNCHANGED <<path, registered, acceptor, shutdown, pc, after, victim>>,
                 \A c \in Conns, v \in Servers :
                   shutdown[v] /\ thread[c] = "queued" /\ peer[c] = v
                     => thread'[c] = "queued" /\ peer'[c] = v
          PROVE  OpensAlone'
  <2>1. \A t \in Threads : pc[t] \in Stopping => victim[t] \in Servers
    BY <1>inv, <1>type DEF StoppedOnce
  <2> QED
    BY <2>1, <1>frame, <1>inv, <1>type
<1>hook. ASSUME NEW h \in Hooks,
                \/ \E k \in Kinds : Fire(h, k)
                \/ Connect(h) \/ ConnectFails(h) \/ Read(h) \/ Killed(h)
                \/ \E r \in {"allow", "deny", "ack", "eof"} : Answer(h, r)
         PROVE  OpensAlone'
  <2>1. CASE Connect(h)
    <3>1. thread[h] = "none"
      BY <2>1 DEF Connect, ChannelInv, HooksInOrder, InOrder
    <3> QED
      BY <2>1, <3>1, <1>frame, <1>type, <1>sets DEF Connect, Enqueue, server, threads
  <2>2. ASSUME NEW r \in {"allow", "deny", "ack", "eof"}, Answer(h, r) PROVE OpensAlone'
    BY <2>2, <1>frame, <1>type, <1>sets DEF Answer, server, threads
  <2> QED
    BY <1>hook, <2>1, <2>2, <1>frame
    DEF Fire, ConnectFails, Read, Killed, conns, server, threads
<1>ends. ASSUME NEW s \in Servers, AcceptEnds(s) PROVE OpensAlone'
  <2>1. s \in Accepting /\ shutdown[s] /\ UNCHANGED <<path, registered, shutdown, pc, after, victim>>
        /\ acceptor' = [acceptor EXCEPT ![s] = "ended"]
    BY <1>ends DEF AcceptEnds, threads
  <2>2. s # registered /\ ~NotYet(s)
    BY <2>1, <1>inv
  <2>3. PICK t \in Threads : pc[t] \in Stopping \cup {"bind", "insert"}
    BY <2>1, <2>2, <1>inv
  <2>4. pc[t] \in Stopping
    BY <2>1, <2>2, <2>3, <1>inv, <1>sets DEF OneWorks
  <2>5. Accepting' = {} /\ acceptor'[s] = "ended" /\ s = victim[t]
    BY <2>1, <2>4, <1>inv, <1>type
  <2>6. \A u \in Threads : pc[u] \in Stopping => u = t
    BY <2>4, <1>one
  <2> QED
    BY <2>1, <2>2, <2>4, <2>5, <2>6, <1>inv, <1>type, <1>sets
<1>serve. ASSUME NEW c \in Conns,
                \/ c \in Servers /\ NothingToRead(c)
                \/ Refuse(c) \/ Release(c)
                \/ \E s \in Servers : Dispatch(s, c)
         PROVE  OpensAlone'
  <2>1. CASE (c \in Servers /\ NothingToRead(c)) \/ Refuse(c) \/ Release(c)
    BY <2>1, <1>frame, <1>type DEF NothingToRead, Refuse, Release, server, threads
  <2>2. ASSUME NEW s \in Servers, Dispatch(s, c) PROVE OpensAlone'
    BY <2>2, <1>frame, <1>type DEF Dispatch, Queued, server, threads
  <2> QED
    BY <1>serve, <2>1, <2>2
<1>stop. ASSUME NEW t \in Threads, SetFlag(t) \/ WakeOwner(t) \/ Join(t) \/ Unlink(t)
         PROVE  OpensAlone'
  <2>1. pc[t] \in Stopping
    BY <1>stop DEF SetFlag, WakeOwner, Join, Unlink
  <2>2. victim[t] \in Servers /\ registered = NoServer /\ ~NotYet(victim[t])
        /\ \A u \in Threads : pc[u] \in Stopping => u = t
    BY <2>1, <1>inv, <1>type, <1>one DEF StoppedOnce
  <2>3. StopsOwner(t) /\ \A s \in Servers : pc[s] \notin {"bind", "insert"}
    BY <2>1, <2>2, <1>inv, <1>sets, <1>type DEF OneWorks
  <2>4. CASE SetFlag(t)
    BY <2>1, <2>2, <2>3, <2>4, <1>inv, <1>type, <1>sets DEF SetFlag, conns
  <2>5. CASE WakeOwner(t)
    <3>1. CASE Reachable
      <4>1. thread'[victim[t]] = "queued" /\ peer'[victim[t]] = victim[t]
        BY <2>2, <2>3, <2>5, <3>1, <1>type, <1>sets DEF WakeOwner, Enqueue
      <4> QED
        BY <2>1, <2>2, <2>3, <2>5, <4>1, <1>inv, <1>type, <1>sets DEF WakeOwner, server
    <3>2. CASE ~Reachable
      <4>1. acceptor[victim[t]] = "ended"
        BY <2>2, <2>3, <3>2, <1>type, <1>sets DEF Reachable
      <4> QED
        BY <2>1, <2>2, <2>3, <2>5, <4>1, <1>inv, <1>type, <1>sets DEF WakeOwner, server
    <3> QED
      BY <3>1, <3>2
  <2>6. CASE Join(t)
    BY <2>1, <2>2, <2>3, <2>6, <1>inv, <1>type, <1>sets DEF Join, server, conns
  <2>7. CASE Unlink(t)
    BY <2>1, <2>2, <2>3, <2>7, <1>inv, <1>type, <1>sets DEF Unlink, conns, OneWorks
  <2> QED
    BY <1>stop, <2>4, <2>5, <2>6, <2>7
<1>take. ASSUME NEW t \in Threads, TakeOut(t) PROVE OpensAlone'
  <2>1. CASE registered = NoServer
    BY <1>take, <2>1, <1>inv, <1>type, <1>sets DEF TakeOut, StopOld, conns, OneWorks
  <2>2. CASE registered # NoServer
    <3>1. Settled /\ registered \in Servers
          /\ \A u \in Threads : pc[u] \notin Stopping \cup {"bind", "insert"}
      BY <2>2, <1>inv, <1>type, <1>sets DEF OneWorks
    <3>2. /\ pc' = [pc EXCEPT ![t] = "flag"] /\ victim' = [victim EXCEPT ![t] = registered]
          /\ registered' = NoServer /\ pc[t] = "take"
          /\ UNCHANGED <<path, acceptor, shutdown, after, thread, peer>>
      BY <1>take, <2>2 DEF TakeOut, StopOld, conns
    <3>3. \A s \in Servers : pc[s] \notin {"clear", "bind", "insert"}
      BY <2>2, <1>inv
    <3> QED
      BY <3>1, <3>2, <3>3, <1>inv, <1>type, <1>sets
  <2> QED
    BY <2>1, <2>2
<1>open. ASSUME NEW s \in Servers,
                Begin(s) \/ Clear(s) \/ Bind(s) \/ Insert(s) \/ Launch(s) \/ LaunchFails(s)
         PROVE  OpensAlone'
  <2>1. \A t \in Threads \ {s} : pc[t] \in {"idle", "over"}
    <3>1. CASE Begin(s)
      BY <3>1 DEF Begin, Working
    <3>2. CASE ~Begin(s)
      BY <1>open, <3>2, <1>inv DEF OneWorks, Clear, Bind, Insert, Launch, LaunchFails
    <3> QED
      BY <3>1, <3>2
  <2>2. pc[s] \in {"idle", "clear", "bind", "insert", "launch"}
    BY <1>open DEF Begin, Clear, Bind, Insert, Launch, LaunchFails
  <2>3. CASE Begin(s)
    <3>1. Settled
      BY <2>1, <2>3, <1>inv DEF Begin
    <3>2. session.kind # "shell" => registered = NoServer
      <4>1. session.kind \in {"agent", "shell"}
        BY <1>inv, ChannelAssumption DEF TypeOK
      <4> QED
        BY <2>1, <2>3, <4>1, <1>inv, <1>sets DEF Begin, DeadHasNone
    <3>3. /\ UNCHANGED <<path, registered, acceptor, shutdown, victim, thread, peer>>
          /\ \/ registered = NoServer /\ pc' = [pc EXCEPT ![s] = "clear"]
             \/ pc' = [pc EXCEPT ![s] = "take"] /\ after'[s] = "clear"
          /\ pc[s] = "idle" /\ \A t \in Threads \ {s} : after'[t] = after[t]
      BY <2>3, <3>2, <1>type, <1>sets DEF Begin, server, conns
    <3> QED
      BY <2>1, <3>1, <3>3, <1>inv, <1>type, <1>sets
  <2>4. CASE Clear(s)
    BY <2>1, <2>4, <1>inv, <1>type, <1>sets DEF Clear, conns
  <2>5. CASE Bind(s)
    <3>1. path = NoServer /\ registered = NoServer /\ Accepting = {}
      BY <2>5, <1>inv DEF Bind
    <3> QED
      BY <2>1, <2>5, <3>1, <1>inv, <1>type, <1>sets DEF Bind, conns
  <2>6. CASE Insert(s)
    <3>1. path = s /\ registered = NoServer /\ Accepting = {s} /\ ~shutdown[s]
      BY <2>6, <1>inv DEF Insert
    <3>2. /\ registered' = s /\ pc' = [pc EXCEPT ![s] = "launch"]
          /\ UNCHANGED <<path, acceptor, shutdown, thread, peer>>
          /\ \A t \in Threads \ {s} : after'[t] = after[t] /\ victim'[t] = victim[t]
      BY <2>6, <3>1, <1>type, <1>sets DEF Insert, StopOld, conns
    <3> QED
      BY <2>1, <3>1, <3>2, <1>inv, <1>type, <1>sets
  <2>7. CASE Launch(s) \/ LaunchFails(s)
    <3>1. /\ pc[s] = "launch" /\ UNCHANGED <<path, registered, acceptor, shutdown, victim, thread, peer>>
          /\ \/ pc' = [pc EXCEPT ![s] = "over"] /\ after' = after
             \/ pc' = [pc EXCEPT ![s] = "take"] /\ after' = [after EXCEPT ![s] = "over"]
      BY <2>7 DEF Launch, LaunchFails, server, conns
    <3> QED
      BY <2>1, <3>1, <1>inv, <1>type, <1>sets
  <2> QED
    BY <1>open, <2>3, <2>4, <2>5, <2>6, <2>7
<1>session. ASSUME Exit \/ FinishExit \/ Dispose \/ FinishDispose PROVE OpensAlone'
  <2>1. /\ UNCHANGED <<path, registered, acceptor, shutdown, victim, thread, peer>>
        /\ \A s \in Servers : pc'[s] = pc[s] /\ after'[s] = after[s]
        /\ \A t \in {"reaper", "disposer"} :
             \/ pc'[t] = pc[t]
             \/ pc[t] \in {"idle", "finish"} /\ pc'[t] \in {"idle", "take", "over"}
    BY <1>session, <1>type, <1>sets DEF Exit, FinishExit, Dispose, FinishDispose, server, conns
  <2> QED
    BY <2>1, <1>inv, <1>type, <1>sets
<1>still. CASE UNCHANGED vars
  BY <1>still, <1>frame DEF vars, conns, server, threads
<1> QED
  BY <1>hook, <1>ends, <1>serve, <1>stop, <1>take, <1>open, <1>session, <1>still,
     <1>sets, NextCases

LEMMA SerialInit == Init => SerialInv
<1> SUFFICES ASSUME Init PROVE SerialInv
  OBVIOUS
<1>1. OneWorks
  BY ChannelAssumption DEF Init, OneWorks, Threads
<1>2. OpensAlone
  BY ChannelAssumption DEF Init, OpensAlone, Settled, Accepting, Stopping, Threads
<1>3. DeadHasNone
  BY DEF Init, DeadHasNone, Threads
<1> QED
  BY <1>1, <1>2, <1>3 DEF SerialInv

-----------------------------------------------------------------------------
\* The strengthened invariant of openings and teardowns that do not overlap.
THEOREM SerialInvariant == ~Overlap => (Spec => []SerialInv)
<1> SUFFICES ASSUME ~Overlap PROVE Spec => []SerialInv
  OBVIOUS
<1>1. ChannelInv /\ SerialInv /\ [Next]_vars => SerialInv'
  BY OneWorksStep, DeadStep, OpensStep DEF SerialInv
<1> QED
  BY <1>1, SerialInit, ChannelInvariant, PTL DEF Spec

\* While they do not overlap, every stop finds at the path the server it joins.
THEOREM StopWakesOwner == ~Overlap => (Spec => []WakeReachesOwner)
<1> SUFFICES ASSUME ~Overlap PROVE Spec => []WakeReachesOwner
  OBVIOUS
<1>1. SerialInv => WakeReachesOwner
  BY DEF SerialInv, OpensAlone, StopsOwner, Stopping, WakeReachesOwner, Queued
<1> QED
  BY <1>1, SerialInvariant, PTL

\* And once they are over, the registered server is the one the socket reaches.
THEOREM RegisteredIsReachable == ~Overlap => (Spec => []ServerIsReachable)
<1> SUFFICES ASSUME ~Overlap PROVE Spec => []ServerIsReachable
  OBVIOUS
<1>1. SerialInv => ServerIsReachable
  BY DEF SerialInv, OpensAlone, Settled, Accepting, Stopping, ServerIsReachable, Working
<1> QED
  BY <1>1, SerialInvariant, PTL

=============================================================================
