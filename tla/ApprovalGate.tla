----------------------------- MODULE ApprovalGate -----------------------------
(***************************************************************************)
(* The approval gate of TYBA: `ApprovalsManager` (src-tauri/src/approvals/  *)
(* mod.rs) with everything that runs against it concurrently:               *)
(*                                                                          *)
(*   - one thread per hook connection, inside `on_pre_tool_use`             *)
(*     (agent/session.rs), which blocks until somebody answers it;          *)
(*   - the application's main thread, which executes the Tauri commands     *)
(*     `resolve_approval` and `dispose_session`, one at a time;             *)
(*   - one PTY emitter thread per agent, which runs `session_exited` when   *)
(*     the agent's process ends (lib.rs).                                   *)
(*                                                                          *)
(* The three fields of the manager are guarded by three mutexes that        *)
(* `resolve_inner` and `expire_session_inner` take one after the other, so  *)
(* every critical section is an action of its own.                          *)
(***************************************************************************)
EXTENDS Integers, FiniteSets

CONSTANTS
  Sessions,     \* agent sessions
  Commands,     \* normalised tool uses, as the inbox shows them
  Hooks,        \* hook connections; each is served by a thread of its own
  Risk,         \* [Commands -> RiskLevels]: `ToolAction::classify`
  Refused,      \* commands `is_refused_by_core` refuses (a push to the trunk)
  MaxUiRequests,\* bound: `request_approval` calls of the frontend
  MaxResumes    \* bound: times one session is resumed

RiskLevels == {"green", "yellow", "red"}
Decisions  == {"approved", "approved_always", "denied"}
Approvals  == {"approved", "approved_always"}

ASSUME RiskAssumption == Risk \in [Commands -> RiskLevels]
\* A refused push is a push, and any push is red (approvals/mod.rs:737).
ASSUME RefusedAssumption ==
  Refused \subseteq Commands /\ \A c \in Refused : Risk[c] = "red"
ASSUME BoundsAssumption == MaxUiRequests \in Nat /\ MaxResumes \in Nat

VARIABLES
  status,     \* SessionManager: status shown for a session, "none" if disposed
  server,     \* HookServerRegistry: sessions that accept hook connections
  reaper,     \* progress of each session's PTY emitter thread
  resumes,    \* how often a session id was resumed
  pending,    \* ApprovalsManager.pending
  waiters,    \* ApprovalsManager.waiters: <<request id, waiting hook thread>>
  allowlist,  \* ApprovalsManager.session_allowlist
  nextId,     \* ApprovalsManager.next_id
  uiRequests, \* requests created by the frontend so far
  origin,     \* the session a hook connection belongs to
  command,    \* the command it asks about
  pc,         \* where the hook thread is
  reqId,      \* the request it waits for, 0 before there is one
  answer,     \* what its channel received, "none" before
  verdict,    \* the HookAction it answers with, "none" before
  ui,         \* the main thread's command in progress
  approved,   \* history: request ids a human approved
  standing    \* history: <<session, resumes, command>> a human always-approved

gateVars    == <<pending, waiters, allowlist, nextId, uiRequests>>
sessionVars == <<status, server, reaper, resumes>>
hookVars    == <<origin, command, pc, reqId, answer, verdict>>
history     == <<approved, standing>>
vars        == <<gateVars, sessionVars, hookVars, ui, history>>

Request == [id : Nat \ {0}, session : Sessions, command : Commands]

UiStates ==
  [pc : {"idle"}]
    \cup [pc : {"remember", "send"}, request : Request, decision : Decisions]
    \cup [pc : {"shutdown", "forget", "expire", "dispose"}, session : Sessions]

HookSteps   == {"new", "working", "classify", "await", "request", "blocked",
                "settle", "replied"}
ReaperSteps == {"idle", "watch", "shutdown", "forget", "expire", "mark"}
Statuses    == {"none", "running", "awaiting", "exited"}

Init ==
  /\ status = [s \in Sessions |-> "running"]
  /\ server = Sessions
  /\ reaper = [s \in Sessions |-> "watch"]
  /\ resumes = [s \in Sessions |-> 0]
  /\ pending = {} /\ waiters = {} /\ nextId = 0 /\ uiRequests = 0
  /\ allowlist = [s \in Sessions |-> {}]
  /\ origin \in [Hooks -> Sessions]
  /\ command \in [Hooks -> Commands]
  /\ pc = [h \in Hooks |-> "new"]
  /\ reqId = [h \in Hooks |-> 0]
  /\ answer = [h \in Hooks |-> "none"]
  /\ verdict = [h \in Hooks |-> "none"]
  /\ ui = [pc |-> "idle"]
  /\ approved = {} /\ standing = {}

-----------------------------------------------------------------------------
(* Critical sections shared by several threads.                            *)

\* `SessionManager::set_status`: a disposed session is left alone, every
\* other status is overwritten.
SetStatus(s, new) ==
  status' = IF status[s] = "none" THEN status ELSE [status EXCEPT ![s] = new]

\* Mutant: the allowlist is not keyed by session.
IsSessionAllowedAnySession(s, c) == \E t \in Sessions : c \in allowlist[t]

\* `is_session_allowed`
IsSessionAllowed(s, c) == c \in allowlist[s]

\* Mutant: the request is remembered in place of its command.
RememberWholeRequest(r) ==
  allowlist' = [allowlist EXCEPT ![r.session] = @ \cup {r}]

\* `remember_session_allow`: a red command is never remembered.
RememberSessionAllow(r) ==
  allowlist' = IF Risk[r.command] = "red" THEN allowlist
               ELSE [allowlist EXCEPT ![r.session] = @ \cup {r.command}]

\* Mutant: the check of the core is dropped.
PushRequestUnchecked(s, c, hooks) ==
  /\ nextId' = nextId + 1
  /\ pending' = pending \cup {[id |-> nextId + 1, session |-> s, command |-> c]}
  /\ waiters' = waiters \cup {<<nextId + 1, h>> : h \in hooks}

\* `request_inner`: id, push and waiter under the lock of `pending`.
PushRequest(s, c, hooks) ==
  /\ c \notin Refused
  /\ nextId' = nextId + 1
  /\ pending' = pending \cup {[id |-> nextId + 1, session |-> s, command |-> c]}
  /\ waiters' = waiters \cup {<<nextId + 1, h>> : h \in hooks}

\* `expire_session_inner`, second half: `pending` and `waiters` held together.
Expired(s) == {r \in pending : r.session = s}
ExpiredWaiters(s) == {w \in waiters : \E r \in Expired(s) : r.id = w[1]}
Denied(s) == [h \in Hooks |-> IF \E w \in ExpiredWaiters(s) : w[2] = h
                              THEN "denied" ELSE answer[h]]

\* Mutants: the waiters are forgotten; the inbox is not emptied; neither is.
ExpireInboxOnly(s) ==
  pending' = pending \ Expired(s) /\ UNCHANGED <<waiters, answer>>
ExpireWaitersOnly(s) ==
  UNCHANGED pending /\ waiters' = waiters \ ExpiredWaiters(s) /\ answer' = Denied(s)
ExpireWithoutDraining(s) ==
  UNCHANGED <<pending, waiters>> /\ answer' = Denied(s)

ExpirePending(s) ==
  /\ pending' = pending \ Expired(s)
  /\ waiters' = waiters \ ExpiredWaiters(s)
  /\ answer' = Denied(s)

\* `expire_session_inner`, first half: the allowlist lock alone.
ForgetAllowed(s) == allowlist' = [allowlist EXCEPT ![s] = {}]

-----------------------------------------------------------------------------
(* The hook thread: `handle_event` and `on_pre_tool_use`.                   *)

\* The server of the session dispatches the connection to a new thread. Only
\* PreToolUse reports work; PermissionRequest goes straight to the gate.
Accept(h) ==
  /\ pc[h] = "new"
  /\ origin[h] \in server
  /\ \E step \in {"working", "classify"} : pc' = [pc EXCEPT ![h] = step]
  /\ UNCHANGED <<gateVars, sessionVars, origin, command, reqId, answer, verdict,
                 ui, history>>

ReportWorking(h) ==
  /\ pc[h] = "working"
  /\ SetStatus(origin[h], "running")
  /\ pc' = [pc EXCEPT ![h] = "classify"]
  /\ UNCHANGED <<gateVars, server, reaper, resumes, origin, command, reqId,
                 answer, verdict, ui, history>>

\* Green, or remembered for this session: allowed without asking.
AllowedUnasked(h) ==
  \/ Risk[command[h]] = "green"
  \/ /\ Risk[command[h]] # "red"
     /\ IsSessionAllowed(origin[h], command[h])

Classify(h) ==
  /\ pc[h] = "classify"
  /\ IF AllowedUnasked(h)
     THEN /\ pc' = [pc EXCEPT ![h] = "replied"]
          /\ verdict' = [verdict EXCEPT ![h] = "allow"]
     ELSE /\ pc' = [pc EXCEPT ![h] = "await"]
          /\ UNCHANGED verdict
  /\ UNCHANGED <<gateVars, sessionVars, origin, command, reqId, answer, ui,
                 history>>

ReportAwaiting(h) ==
  /\ pc[h] = "await"
  /\ SetStatus(origin[h], "awaiting")
  /\ pc' = [pc EXCEPT ![h] = "request"]
  /\ UNCHANGED <<gateVars, server, reaper, resumes, origin, command, reqId,
                 answer, verdict, ui, history>>

\* `request_blocking` up to the wait.
Ask(h) ==
  /\ pc[h] = "request"
  /\ PushRequest(origin[h], command[h], {h})
  /\ reqId' = [reqId EXCEPT ![h] = nextId + 1]
  /\ pc' = [pc EXCEPT ![h] = "blocked"]
  /\ UNCHANGED <<allowlist, uiRequests, sessionVars, origin, command, answer,
                 verdict, ui, history>>

\* The core refuses the command: nobody is asked.
AskRefused(h) ==
  /\ pc[h] = "request"
  /\ command[h] \in Refused
  /\ verdict' = [verdict EXCEPT ![h] = "deny"]
  /\ pc' = [pc EXCEPT ![h] = "settle"]
  /\ UNCHANGED <<gateVars, sessionVars, origin, command, reqId, answer, ui,
                 history>>

\* `rx.recv()` returns.
Wake(h) ==
  /\ pc[h] = "blocked"
  /\ answer[h] # "none"
  /\ verdict' = [verdict EXCEPT
                   ![h] = IF answer[h] \in Approvals THEN "allow" ELSE "deny"]
  /\ pc' = [pc EXCEPT ![h] = "settle"]
  /\ UNCHANGED <<gateVars, sessionVars, origin, command, reqId, answer, ui,
                 history>>

\* Back to running, whatever happened to the session meanwhile; then reply.
Settle(h) ==
  /\ pc[h] = "settle"
  /\ SetStatus(origin[h], "running")
  /\ pc' = [pc EXCEPT ![h] = "replied"]
  /\ UNCHANGED <<gateVars, server, reaper, resumes, origin, command, reqId,
                 answer, verdict, ui, history>>

HookStep(h) ==
  \/ ReportWorking(h) \/ Classify(h) \/ ReportAwaiting(h)
  \/ Ask(h) \/ AskRefused(h) \/ Wake(h) \/ Settle(h)

-----------------------------------------------------------------------------
(* The main thread: the commands of the frontend.                           *)

\* `request_approval`: a request of the frontend, with nobody waiting.
UiRequest(s, c) ==
  /\ ui.pc = "idle"
  /\ uiRequests < MaxUiRequests
  /\ PushRequest(s, c, {})
  /\ uiRequests' = uiRequests + 1
  /\ UNCHANGED <<allowlist, sessionVars, hookVars, ui, history>>

\* `resolve_inner`, first lock: the request leaves the inbox.
Resolve(r, decision) ==
  /\ ui.pc = "idle"
  /\ r \in pending
  /\ pending' = pending \ {r}
  /\ ui' = [pc |-> IF decision = "approved_always" THEN "remember" ELSE "send",
            request |-> r, decision |-> decision]
  /\ approved' = IF decision \in Approvals THEN approved \cup {r.id} ELSE approved
  /\ standing' = IF decision = "approved_always"
                 THEN standing \cup {<<r.session, resumes[r.session], r.command>>}
                 ELSE standing
  /\ UNCHANGED <<waiters, allowlist, nextId, uiRequests, sessionVars, hookVars>>

\* `resolve_inner`, second lock.
ResolveRemember ==
  /\ ui.pc = "remember"
  /\ RememberSessionAllow(ui.request)
  /\ ui' = [ui EXCEPT !.pc = "send"]
  /\ UNCHANGED <<pending, waiters, nextId, uiRequests, sessionVars, hookVars,
                 history>>

\* `resolve_inner`, third lock: the thread that waits, if any, is answered.
ResolveSend ==
  LET mine == {w \in waiters : w[1] = ui.request.id}
  IN /\ ui.pc = "send"
     /\ waiters' = waiters \ mine
     /\ answer' = [h \in Hooks |-> IF \E w \in mine : w[2] = h
                                   THEN ui.decision ELSE answer[h]]
     /\ ui' = [pc |-> "idle"]
     /\ UNCHANGED <<pending, allowlist, nextId, uiRequests, sessionVars, origin,
                    command, pc, reqId, verdict, history>>

\* `dispose_session`: `teardown_agent_session`, then the session itself.
Dispose(s) ==
  /\ ui.pc = "idle"
  /\ status[s] # "none"
  /\ ui' = [pc |-> "shutdown", session |-> s]
  /\ UNCHANGED <<gateVars, sessionVars, hookVars, history>>

DisposeShutdown ==
  /\ ui.pc = "shutdown"
  /\ server' = server \ {ui.session}
  /\ ui' = [ui EXCEPT !.pc = "forget"]
  /\ UNCHANGED <<gateVars, status, reaper, resumes, hookVars, history>>

DisposeForget ==
  /\ ui.pc = "forget"
  /\ ForgetAllowed(ui.session)
  /\ ui' = [ui EXCEPT !.pc = "expire"]
  /\ UNCHANGED <<pending, waiters, nextId, uiRequests, sessionVars, hookVars,
                 history>>

DisposeExpire ==
  /\ ui.pc = "expire"
  /\ ExpirePending(ui.session)
  /\ ui' = [ui EXCEPT !.pc = "dispose"]
  /\ UNCHANGED <<allowlist, nextId, uiRequests, sessionVars, origin, command,
                 pc, reqId, verdict, history>>

DisposeSession ==
  /\ ui.pc = "dispose"
  /\ status' = [status EXCEPT ![ui.session] = "none"]
  /\ ui' = [pc |-> "idle"]
  /\ UNCHANGED <<gateVars, server, reaper, resumes, hookVars, history>>

UiStep ==
  \/ ResolveRemember \/ ResolveSend
  \/ DisposeShutdown \/ DisposeForget \/ DisposeExpire \/ DisposeSession

-----------------------------------------------------------------------------
(* The PTY emitter thread of a session: `session_exited`.                   *)

\* The agent's process ended. A session already disposed needs no teardown.
AgentExit(s) ==
  /\ reaper[s] = "watch"
  /\ reaper' = [reaper EXCEPT ![s] = IF status[s] = "none" THEN "idle"
                                     ELSE "shutdown"]
  /\ UNCHANGED <<gateVars, status, server, resumes, hookVars, ui, history>>

ReaperShutdown(s) ==
  /\ reaper[s] = "shutdown"
  /\ server' = server \ {s}
  /\ reaper' = [reaper EXCEPT ![s] = "forget"]
  /\ UNCHANGED <<gateVars, status, resumes, hookVars, ui, history>>

ReaperForget(s) ==
  /\ reaper[s] = "forget"
  /\ ForgetAllowed(s)
  /\ reaper' = [reaper EXCEPT ![s] = "expire"]
  /\ UNCHANGED <<pending, waiters, nextId, uiRequests, status, server, resumes,
                 hookVars, ui, history>>

ReaperExpire(s) ==
  /\ reaper[s] = "expire"
  /\ ExpirePending(s)
  /\ reaper' = [reaper EXCEPT ![s] = "mark"]
  /\ UNCHANGED <<allowlist, nextId, uiRequests, status, server, resumes, origin,
                 command, pc, reqId, verdict, ui, history>>

ReaperMark(s) ==
  /\ reaper[s] = "mark"
  /\ SetStatus(s, "exited")
  /\ reaper' = [reaper EXCEPT ![s] = "idle"]
  /\ UNCHANGED <<gateVars, server, resumes, hookVars, ui, history>>

ReaperStep(s) ==
  ReaperShutdown(s) \/ ReaperForget(s) \/ ReaperExpire(s) \/ ReaperMark(s)

\* `resume_agent_session`: the conversation goes on under the same session id.
\* The frontend offers it for a session it sees as exited (agentResume.ts).
Resume(s) ==
  /\ status[s] = "exited"
  /\ resumes[s] < MaxResumes
  /\ server' = server \cup {s}
  /\ reaper' = [reaper EXCEPT ![s] = "watch"]
  /\ status' = [status EXCEPT ![s] = "running"]
  /\ resumes' = [resumes EXCEPT ![s] = @ + 1]
  /\ UNCHANGED <<gateVars, hookVars, ui, history>>

-----------------------------------------------------------------------------
Next ==
  \/ \E h \in Hooks : Accept(h) \/ HookStep(h)
  \/ \E s \in Sessions, c \in Commands : UiRequest(s, c)
  \/ \E r \in pending, d \in Decisions : Resolve(r, d)
  \/ \E s \in Sessions : Dispose(s) \/ AgentExit(s) \/ ReaperStep(s) \/ Resume(s)
  \/ UiStep

Spec == Init /\ [][Next]_vars

\* A thread that has started a handler or a command keeps running it. Nobody
\* is obliged to open a connection, answer a request or end an agent.
Fairness ==
  /\ \A h \in Hooks : WF_vars(HookStep(h))
  /\ WF_vars(UiStep)
  /\ \A s \in Sessions : WF_vars(ReaperStep(s))

FairSpec == Spec /\ Fairness

-----------------------------------------------------------------------------
(* Properties.                                                             *)

\* Type invariant: every field holds a value the program can store in it.
TypeOK ==
  /\ status \in [Sessions -> Statuses]
  /\ server \subseteq Sessions
  /\ reaper \in [Sessions -> ReaperSteps]
  /\ resumes \in [Sessions -> Nat]
  /\ pending \subseteq Request
  /\ waiters \subseteq (Nat \ {0}) \X Hooks
  /\ allowlist \in [Sessions -> SUBSET Commands]
  /\ nextId \in Nat /\ uiRequests \in Nat
  /\ origin \in [Hooks -> Sessions]
  /\ command \in [Hooks -> Commands]
  /\ pc \in [Hooks -> HookSteps]
  /\ reqId \in [Hooks -> Nat]
  /\ answer \in [Hooks -> Decisions \cup {"none"}]
  /\ verdict \in [Hooks -> {"none", "allow", "deny"}]
  /\ ui \in UiStates
  /\ approved \subseteq Nat \ {0}
  /\ standing \subseteq Sessions \X Nat \X Commands

\* Nothing but a green command goes through without a human: an allowed tool
\* use was approved in its own right, or it is not red and the human said
\* "always" to that very command in that very session (`on_pre_tool_use`
\* against `resolve_inner`, whichever way their locks interleave).
ConsentRequired ==
  \A h \in Hooks : verdict[h] = "allow" =>
    \/ Risk[command[h]] = "green"
    \/ reqId[h] \in approved
    \/ /\ Risk[command[h]] # "red"
       /\ \E n \in 0..resumes[origin[h]] :
            <<origin[h], n, command[h]>> \in standing

\* A command the core refuses is never allowed, whatever was approved before
\* (`is_refused_by_core` runs only on the way to the inbox, after the allowlist
\* was consulted).
RefusedNeverAllowed ==
  \A h \in Hooks : command[h] \in Refused => verdict[h] # "allow"

\* Whoever holds the request of hook thread h: the inbox, or the main thread
\* between taking it out of `pending` and answering it.
InInbox(h) ==
  \E r \in pending : r.id = reqId[h] /\ r.session = origin[h]
                                     /\ r.command = command[h]
BeingResolved(h) ==
  /\ ui.pc \in {"remember", "send"}
  /\ ui.request.id = reqId[h]

\* No lost wake-up: a blocked thread without an answer still has its channel
\* registered, and its request is where somebody can still answer it. Between
\* `pending.remove` and `waiters.remove` an expiry of the session must not make
\* either half disappear.
BlockedIsReachable ==
  \A h \in Hooks : pc[h] = "blocked" /\ answer[h] = "none" =>
    /\ <<reqId[h], h>> \in waiters
    /\ InInbox(h) \/ BeingResolved(h)

\* The inbox is honest: a request it still shows has not been answered, neither
\* by a decision nor by the expiry of its session.
InboxIsOpen ==
  \A r \in pending, h \in Hooks :
    reqId[h] = r.id => pc[h] = "blocked" /\ answer[h] = "none"

\* A hook thread is answered at most once: a resolution under way and an expiry
\* of the same session never both reach its channel.
AnsweredOnce ==
  [][\A h \in Hooks : answer[h] # "none" => answer'[h] = answer[h]]_vars

\* When a session is torn down, every hook thread that was blocked for it
\* replies to its agent; the one whose request is being resolved at that moment
\* included (`expire_session_inner` skips it, `resolve_inner` must reach it).
TeardownReleasesBlocked ==
  \A h \in Hooks :
    (pc[h] = "blocked" /\ reaper[origin[h]] = "shutdown") ~> (pc[h] = "replied")

(* Strengthening: what every critical section relies on, the lemmas of the  *)
(* proofs in ApprovalGateProofs.                                            *)

Asked == {"blocked", "settle", "replied"}

\* A registered channel belongs to a thread that waits for exactly that request.
WaitersMatch ==
  \A w \in waiters :
    reqId[w[2]] = w[1] /\ pc[w[2]] = "blocked" /\ answer[w[2]] = "none"

\* A thread has a request, an answer or a verdict only once it got that far.
HooksInOrder ==
  \A h \in Hooks :
    /\ pc[h] \notin Asked => reqId[h] = 0 /\ answer[h] = "none"
    /\ pc[h] \notin {"settle", "replied"} => verdict[h] = "none"
    /\ pc[h] = "blocked" => command[h] \notin Refused

\* Ids are never reused, and a request is in one place only.
IdsAreUnique ==
  /\ \A r \in pending : r.id <= nextId
  /\ \A h \in Hooks : reqId[h] <= nextId
  /\ \A q, r \in pending : q.id = r.id => q = r
  /\ ui.pc \in {"remember", "send"} =>
       ui.request.id <= nextId /\ \A r \in pending : r.id # ui.request.id

\* Every standing permission goes back to an "always" of the same session.
Standing(s, c) == \E n \in 0..resumes[s] : <<s, n, c>> \in standing

DecisionsAreHuman ==
  /\ \A s \in Sessions, c \in Commands :
       c \in allowlist[s] => Risk[c] # "red" /\ Standing(s, c)
  /\ ui.pc = "remember" => Standing(ui.request.session, ui.request.command)
  /\ ui.pc \in {"remember", "send"} /\ ui.decision \in Approvals =>
       ui.request.id \in approved
  /\ \A h \in Hooks : answer[h] \in Approvals => reqId[h] \in approved

GateInv ==
  /\ TypeOK /\ WaitersMatch /\ HooksInOrder /\ IdsAreUnique /\ DecisionsAreHuman
  /\ ConsentRequired /\ RefusedNeverAllowed /\ BlockedIsReachable /\ InboxIsOpen

(* What the documentation says and the interleavings of the code refute.    *)

\* "Always" holds while the session lives (docs-site/en/security/risk-
\* classification.mdx:122; the test `allowlist_morre_com_a_sessao`): once its
\* teardown is over, a session has no standing permission left.
AllowlistDiesWithSession ==
  \A s \in Sessions : reaper[s] = "idle" => allowlist[s] = {}
=============================================================================
