-------------------------- MODULE ApprovalGateProofs --------------------------
(* Theorems about ApprovalGate, for any sessions, commands and hooks.       *)
EXTENDS ApprovalGate, TLAPS

\* The state machine of the gate never leaves its types: the base of every
\* other proof about `ApprovalsManager` and the threads around it.
LEMMA TypeStep == TypeOK /\ [Next]_vars => TypeOK'
<1> SUFFICES ASSUME TypeOK, [Next]_vars PROVE TypeOK'
  OBVIOUS
<1> USE DEF TypeOK
<1>stutter. CASE UNCHANGED vars
  BY <1>stutter DEF vars, gateVars, sessionVars, hookVars, history
<1>hook. ASSUME NEW h \in Hooks, Accept(h) \/ HookStep(h) PROVE TypeOK'
  <2> USE DEF gateVars, sessionVars, hookVars, history, HookSteps, Statuses
  <2>1. CASE Accept(h)
    BY <2>1 DEF Accept
  <2>2. CASE ReportWorking(h)
    BY <2>2 DEF ReportWorking, SetStatus
  <2>6. CASE ReportAwaiting(h)
    BY <2>6 DEF ReportAwaiting, SetStatus
  <2>7. CASE Settle(h)
    BY <2>7 DEF Settle, SetStatus
  <2>3. CASE Classify(h)
    BY <2>3 DEF Classify
  <2>4. CASE Ask(h)
    BY <2>4 DEF Ask, PushRequest, Request
  <2>5. CASE AskRefused(h) \/ Wake(h)
    BY <2>5 DEF AskRefused, Wake
  <2> QED
    BY <1>hook, <2>1, <2>2, <2>3, <2>4, <2>5, <2>6, <2>7 DEF HookStep
<1>ui. ASSUME NEW s \in Sessions, NEW c \in Commands, UiRequest(s, c)
       PROVE TypeOK'
  BY <1>ui DEF UiRequest, PushRequest, Request, sessionVars, hookVars, history
<1>resolve. ASSUME NEW r \in pending, NEW d \in Decisions, Resolve(r, d)
            PROVE TypeOK'
  <2> USE <1>resolve DEF Resolve
  <2>1. r \in Request
    OBVIOUS
  <2>2. ui' \in UiStates
    BY <2>1 DEF UiStates
  <2>3. /\ r.id \in Nat \ {0}
        /\ <<r.session, resumes[r.session], r.command>> \in
             Sessions \X Nat \X Commands
    BY <2>1 DEF Request
  <2>4. approved' \subseteq Nat \ {0} /\ standing' \subseteq Sessions \X Nat \X Commands
    BY <2>3
  <2> QED
    BY <2>2, <2>4 DEF sessionVars, hookVars
<1>session. ASSUME NEW s \in Sessions,
                   Dispose(s) \/ AgentExit(s) \/ ReaperStep(s) \/ Resume(s)
            PROVE TypeOK'
  <2> USE DEF gateVars, sessionVars, hookVars, history, Statuses, ReaperSteps
  <2>1. CASE Dispose(s)
    BY <2>1 DEF Dispose, UiStates
  <2>2. CASE AgentExit(s)
    BY <2>2 DEF AgentExit
  <2>6. CASE Resume(s)
    BY <2>6 DEF Resume
  <2>3. CASE ReaperShutdown(s) \/ ReaperForget(s)
    BY ZenonT(40), <2>3 DEF ReaperShutdown, ReaperForget, ForgetAllowed
  <2>4. CASE ReaperExpire(s)
    BY <2>4 DEF ReaperExpire, ExpirePending, Denied, Decisions
  <2>5. CASE ReaperMark(s)
    BY <2>5 DEF ReaperMark, SetStatus
  <2> QED
    BY <1>session, <2>1, <2>2, <2>3, <2>4, <2>5, <2>6 DEF ReaperStep
<1>main. ASSUME UiStep PROVE TypeOK'
  <2> USE DEF gateVars, sessionVars, hookVars, history, UiStates
  <2>1. CASE ResolveRemember
    BY <2>1 DEF ResolveRemember, RememberSessionAllow, Request
  <2>2. CASE ResolveSend
    BY <2>2 DEF ResolveSend
  <2>3. CASE DisposeShutdown
    BY <2>3 DEF DisposeShutdown
  <2>4. CASE DisposeForget
    BY <2>4 DEF DisposeForget, ForgetAllowed
  <2>5. CASE DisposeExpire
    BY <2>5 DEF DisposeExpire, ExpirePending, Denied, Decisions
  <2>6. CASE DisposeSession
    BY <2>6 DEF DisposeSession, Statuses
  <2> QED
    BY <1>main, <2>1, <2>2, <2>3, <2>4, <2>5, <2>6 DEF UiStep
<1> QED
  BY <1>stutter, <1>hook, <1>ui, <1>resolve, <1>session, <1>main DEF Next

\* A registered channel stays with the thread that waits for it: `request_inner`
\* creates the pair, and whoever answers it removes it in the same lock.
LEMMA WaitersMatchStep ==
  TypeOK /\ WaitersMatch /\ HooksInOrder /\ [Next]_vars => WaitersMatch'
<1> SUFFICES ASSUME TypeOK /\ WaitersMatch /\ HooksInOrder, [Next]_vars
             PROVE WaitersMatch'
  OBVIOUS
<1> USE DEF TypeOK, WaitersMatch, HooksInOrder, Asked,
            gateVars, sessionVars, hookVars, history
<1>stutter. CASE UNCHANGED vars
  BY <1>stutter DEF vars
<1>hook. ASSUME NEW h \in Hooks, Accept(h) \/ HookStep(h)
         PROVE WaitersMatch'
  <2>1. CASE Accept(h)
    BY <2>1 DEF Accept
  <2>2. CASE ReportWorking(h)
    BY <2>2 DEF ReportWorking, SetStatus
  <2>3. CASE Classify(h)
    BY <2>3 DEF Classify, AllowedUnasked, IsSessionAllowed
  <2>4. CASE ReportAwaiting(h)
    BY <2>4 DEF ReportAwaiting, SetStatus
  <2>5. CASE Ask(h)
    BY <2>5 DEF Ask, PushRequest
  <2>6. CASE AskRefused(h)
    BY <2>6 DEF AskRefused
  <2>7. CASE Wake(h)
    BY <2>7 DEF Wake
  <2>8. CASE Settle(h)
    BY <2>8 DEF Settle, SetStatus
  <2> QED
    BY <1>hook, <2>1, <2>2, <2>3, <2>4, <2>5, <2>6, <2>7, <2>8 DEF HookStep
<1>request. ASSUME NEW s \in Sessions, NEW c \in Commands, UiRequest(s, c)
            PROVE WaitersMatch'
  BY <1>request DEF UiRequest, PushRequest
<1>resolve. ASSUME NEW r \in pending, NEW d \in Decisions, Resolve(r, d)
            PROVE WaitersMatch'
  BY <1>resolve DEF Resolve
<1>session. ASSUME NEW s \in Sessions,
                   Dispose(s) \/ AgentExit(s) \/ ReaperStep(s) \/ Resume(s)
            PROVE WaitersMatch'
  <2>1. CASE ReaperExpire(s)
    BY <2>1 DEF ReaperExpire, ExpirePending, Expired, ExpiredWaiters, Denied
  <2>quiet. CASE \/ Dispose(s) \/ AgentExit(s) \/ ReaperShutdown(s)
                 \/ ReaperForget(s) \/ ReaperMark(s) \/ Resume(s)
    BY <2>quiet DEF Dispose, AgentExit, ReaperShutdown, ReaperForget,
       ForgetAllowed, ReaperMark, SetStatus, Resume
  <2> QED
    BY <1>session, <2>1, <2>quiet DEF ReaperStep
<1>main. ASSUME UiStep
         PROVE WaitersMatch'
  <2>1. CASE ResolveSend
    BY <2>1 DEF ResolveSend
  <2>2. CASE DisposeExpire
    BY <2>2 DEF DisposeExpire, ExpirePending, Expired, ExpiredWaiters, Denied
  <2>quiet. CASE \/ ResolveRemember \/ DisposeShutdown \/ DisposeForget
                 \/ DisposeSession
    BY <2>quiet DEF ResolveRemember, RememberSessionAllow, DisposeShutdown,
       DisposeForget, ForgetAllowed, DisposeSession
  <2> QED
    BY <1>main, <2>1, <2>2, <2>quiet DEF UiStep
<1> QED
  BY <1>stutter, <1>hook, <1>request, <1>resolve, <1>session, <1>main DEF Next

\* `on_pre_tool_use` is sequential: no request, answer or verdict before its time.
LEMMA HooksInOrderStep ==
  TypeOK /\ HooksInOrder /\ WaitersMatch /\ [Next]_vars => HooksInOrder'
<1> SUFFICES ASSUME TypeOK /\ HooksInOrder /\ WaitersMatch, [Next]_vars
             PROVE HooksInOrder'
  OBVIOUS
<1> USE DEF TypeOK, HooksInOrder, WaitersMatch, Asked,
            gateVars, sessionVars, hookVars, history
<1>stutter. CASE UNCHANGED vars
  BY <1>stutter DEF vars
<1>hook. ASSUME NEW h \in Hooks, Accept(h) \/ HookStep(h)
         PROVE HooksInOrder'
  <2>1. CASE Accept(h)
    BY <2>1 DEF Accept
  <2>2. CASE ReportWorking(h)
    BY <2>2 DEF ReportWorking, SetStatus
  <2>3. CASE Classify(h)
    BY <2>3 DEF Classify, AllowedUnasked, IsSessionAllowed
  <2>4. CASE ReportAwaiting(h)
    BY <2>4 DEF ReportAwaiting, SetStatus
  <2>5. CASE Ask(h)
    BY <2>5 DEF Ask, PushRequest
  <2>6. CASE AskRefused(h)
    BY <2>6 DEF AskRefused
  <2>7. CASE Wake(h)
    BY <2>7 DEF Wake
  <2>8. CASE Settle(h)
    BY <2>8 DEF Settle, SetStatus
  <2> QED
    BY <1>hook, <2>1, <2>2, <2>3, <2>4, <2>5, <2>6, <2>7, <2>8 DEF HookStep
<1>request. ASSUME NEW s \in Sessions, NEW c \in Commands, UiRequest(s, c)
            PROVE HooksInOrder'
  BY <1>request DEF UiRequest, PushRequest
<1>resolve. ASSUME NEW r \in pending, NEW d \in Decisions, Resolve(r, d)
            PROVE HooksInOrder'
  BY <1>resolve DEF Resolve
<1>session. ASSUME NEW s \in Sessions,
                   Dispose(s) \/ AgentExit(s) \/ ReaperStep(s) \/ Resume(s)
            PROVE HooksInOrder'
  <2>1. CASE ReaperExpire(s)
    BY <2>1 DEF ReaperExpire, ExpirePending, Expired, ExpiredWaiters, Denied
  <2>quiet. CASE \/ Dispose(s) \/ AgentExit(s) \/ ReaperShutdown(s)
                 \/ ReaperForget(s) \/ ReaperMark(s) \/ Resume(s)
    BY <2>quiet DEF Dispose, AgentExit, ReaperShutdown, ReaperForget,
       ForgetAllowed, ReaperMark, SetStatus, Resume
  <2> QED
    BY <1>session, <2>1, <2>quiet DEF ReaperStep
<1>main. ASSUME UiStep
         PROVE HooksInOrder'
  <2>1. CASE ResolveSend
    BY <2>1 DEF ResolveSend
  <2>2. CASE DisposeExpire
    BY <2>2 DEF DisposeExpire, ExpirePending, Expired, ExpiredWaiters, Denied
  <2>quiet. CASE \/ ResolveRemember \/ DisposeShutdown \/ DisposeForget
                 \/ DisposeSession
    BY <2>quiet DEF ResolveRemember, RememberSessionAllow, DisposeShutdown,
       DisposeForget, ForgetAllowed, DisposeSession
  <2> QED
    BY <1>main, <2>1, <2>2, <2>quiet DEF UiStep
<1> QED
  BY <1>stutter, <1>hook, <1>request, <1>resolve, <1>session, <1>main DEF Next

\* `next_id` is taken under the lock of `pending`, so ids are never shared, and
\* `resolve_inner` moves a request out of the inbox for good.
LEMMA IdsAreUniqueStep ==
  TypeOK /\ IdsAreUnique /\ [Next]_vars => IdsAreUnique'
<1> SUFFICES ASSUME TypeOK /\ IdsAreUnique, [Next]_vars
             PROVE IdsAreUnique'
  OBVIOUS
<1> USE DEF TypeOK, IdsAreUnique, Request,
            gateVars, sessionVars, hookVars, history
<1>stutter. CASE UNCHANGED vars
  BY <1>stutter DEF vars
<1>hook. ASSUME NEW h \in Hooks, Accept(h) \/ HookStep(h)
         PROVE IdsAreUnique'
  <2>1. CASE Ask(h)
    <3> DEFINE new == [id |-> nextId + 1, session |-> origin[h], command |-> command[h]]
    <3>1. /\ nextId' = nextId + 1 /\ pending' = pending \cup {new} /\ ui' = ui
          /\ reqId' = [reqId EXCEPT ![h] = nextId + 1]
      BY <2>1 DEF Ask, PushRequest
    <3>2. new.id = nextId + 1 /\ \A r \in pending : r.id \in Nat /\ r.id # new.id
      OBVIOUS
    <3> HIDE DEF new
    <3>3. \A r \in pending' : r.id <= nextId'
      BY <3>1, <3>2
    <3>4. \A q, r \in pending' : q.id = r.id => q = r
      BY <3>1, <3>2
    <3>5. \A g \in Hooks : reqId'[g] <= nextId'
      BY <3>1
    <3>6. ui.pc \in {"remember", "send"} => ui.request.id \in Nat
      BY DEF UiStates
    <3>7. ui'.pc \in {"remember", "send"} =>
            ui'.request.id <= nextId' /\ \A r \in pending' : r.id # ui'.request.id
      BY <3>1, <3>2, <3>6
    <3> QED
      BY <3>3, <3>4, <3>5, <3>7
  <2>quiet. CASE \/ Accept(h) \/ ReportWorking(h) \/ Classify(h)
                 \/ ReportAwaiting(h) \/ AskRefused(h) \/ Wake(h) \/ Settle(h)
    BY <2>quiet DEF Accept, ReportWorking, SetStatus, Classify,
       AllowedUnasked, IsSessionAllowed, ReportAwaiting, AskRefused, Wake,
       Settle
  <2> QED
    BY <1>hook, <2>1, <2>quiet DEF HookStep
<1>request. ASSUME NEW s \in Sessions, NEW c \in Commands, UiRequest(s, c)
            PROVE IdsAreUnique'
  BY <1>request DEF UiRequest, PushRequest
<1>resolve. ASSUME NEW r \in pending, NEW d \in Decisions, Resolve(r, d)
            PROVE IdsAreUnique'
  BY <1>resolve DEF Resolve
<1>session. ASSUME NEW s \in Sessions,
                   Dispose(s) \/ AgentExit(s) \/ ReaperStep(s) \/ Resume(s)
            PROVE IdsAreUnique'
  <2>1. CASE Dispose(s)
    BY <2>1 DEF Dispose
  <2>2. CASE ReaperExpire(s)
    BY <2>2 DEF ReaperExpire, ExpirePending, Expired, ExpiredWaiters, Denied
  <2>quiet. CASE \/ AgentExit(s) \/ ReaperShutdown(s) \/ ReaperForget(s)
                 \/ ReaperMark(s) \/ Resume(s)
    BY <2>quiet DEF AgentExit, ReaperShutdown, ReaperForget, ForgetAllowed,
       ReaperMark, SetStatus, Resume
  <2> QED
    BY <1>session, <2>1, <2>2, <2>quiet DEF ReaperStep
<1>main. ASSUME UiStep
         PROVE IdsAreUnique'
  <2>1. CASE ResolveRemember
    BY <2>1 DEF ResolveRemember, RememberSessionAllow
  <2>2. CASE ResolveSend
    BY <2>2 DEF ResolveSend
  <2>3. CASE DisposeShutdown
    BY <2>3 DEF DisposeShutdown
  <2>4. CASE DisposeForget
    BY <2>4 DEF DisposeForget, ForgetAllowed
  <2>5. CASE DisposeExpire
    BY <2>5 DEF DisposeExpire, ExpirePending, Expired, ExpiredWaiters, Denied
  <2>6. CASE DisposeSession
    BY <2>6 DEF DisposeSession
  <2> QED
    BY <1>main, <2>1, <2>2, <2>3, <2>4, <2>5, <2>6 DEF UiStep
<1> QED
  BY <1>stutter, <1>hook, <1>request, <1>resolve, <1>session, <1>main DEF Next

\* Every entry of the allowlist and every positive answer goes back to a human
\* decision, although `resolve_inner` gives the lock up between its three parts.
LEMMA DecisionsStep ==
  TypeOK /\ HooksInOrder /\ WaitersMatch /\ DecisionsAreHuman /\ [Next]_vars => DecisionsAreHuman'
<1> SUFFICES ASSUME TypeOK /\ HooksInOrder /\ WaitersMatch /\ DecisionsAreHuman, [Next]_vars
             PROVE DecisionsAreHuman'
  OBVIOUS
<1> USE DEF TypeOK, HooksInOrder, WaitersMatch, DecisionsAreHuman, Standing,
            Approvals, Asked,
            gateVars, sessionVars, hookVars, history
<1>stutter. CASE UNCHANGED vars
  BY <1>stutter DEF vars
<1>hook. ASSUME NEW h \in Hooks, Accept(h) \/ HookStep(h)
         PROVE DecisionsAreHuman'
  <2>1. CASE Ask(h)
    BY <2>1 DEF Ask, PushRequest
  <2>quiet. CASE \/ Accept(h) \/ ReportWorking(h) \/ Classify(h)
                 \/ ReportAwaiting(h) \/ AskRefused(h) \/ Wake(h) \/ Settle(h)
    BY <2>quiet DEF Accept, ReportWorking, SetStatus, Classify,
       AllowedUnasked, IsSessionAllowed, ReportAwaiting, AskRefused, Wake,
       Settle
  <2> QED
    BY <1>hook, <2>1, <2>quiet DEF HookStep
<1>request. ASSUME NEW s \in Sessions, NEW c \in Commands, UiRequest(s, c)
            PROVE DecisionsAreHuman'
  BY <1>request DEF UiRequest, PushRequest
<1>resolve. ASSUME NEW r \in pending, NEW d \in Decisions, Resolve(r, d)
            PROVE DecisionsAreHuman'
  <2>1. r \in Request /\ resumes[r.session] \in Nat
    BY DEF Request
  <2>2. /\ ui'.request = r /\ ui'.decision = d
        /\ ui'.pc = IF d = "approved_always" THEN "remember" ELSE "send"
        /\ approved \subseteq approved' /\ standing \subseteq standing'
        /\ resumes' = resumes /\ allowlist' = allowlist
        /\ answer' = answer /\ reqId' = reqId
    BY <1>resolve DEF Resolve
  <2>3. \A s \in Sessions, c \in Commands : Standing(s, c) => Standing(s, c)'
    BY <2>2
  <2>4. d = "approved_always" => Standing(r.session, r.command)'
    BY <1>resolve, <2>1, <2>2 DEF Resolve
  <2>5. d \in Approvals => r.id \in approved'
    BY <1>resolve DEF Resolve
  <2> HIDE DEF Standing
  <2> QED
    BY <2>2, <2>3, <2>4, <2>5
<1>session. ASSUME NEW s \in Sessions,
                   Dispose(s) \/ AgentExit(s) \/ ReaperStep(s) \/ Resume(s)
            PROVE DecisionsAreHuman'
  <2>1. CASE Dispose(s)
    BY <2>1 DEF Dispose
  <2>2. CASE ReaperForget(s)
    BY <2>2 DEF ReaperForget, ForgetAllowed
  <2>3. CASE ReaperExpire(s)
    BY <2>3 DEF ReaperExpire, ExpirePending, Expired, ExpiredWaiters, Denied
  <2>4. CASE Resume(s)
    <3>1. resumes' = [resumes EXCEPT ![s] = resumes[s] + 1]
      BY <2>4 DEF Resume
    <3>2. UNCHANGED <<allowlist, ui, answer, reqId, approved, standing>>
      BY <2>4 DEF Resume
    <3>3. \A t \in Sessions : resumes[t] \in Nat /\ 0..resumes[t] \subseteq 0..resumes'[t]
      BY <3>1
    <3>4. \A t \in Sessions, c \in Commands : Standing(t, c) => Standing(t, c)'
      BY <3>2, <3>3
    <3>5. ui.pc = "remember" =>
            ui.request.session \in Sessions /\ ui.request.command \in Commands
      BY DEF UiStates, Request
    <3> HIDE DEF Standing
    <3> QED
      BY <3>2, <3>4, <3>5
  <2>quiet. CASE AgentExit(s) \/ ReaperShutdown(s) \/ ReaperMark(s)
    BY <2>quiet DEF AgentExit, ReaperShutdown, ReaperMark, SetStatus
  <2> QED
    BY <1>session, <2>1, <2>2, <2>3, <2>4, <2>quiet DEF ReaperStep
<1>main. ASSUME UiStep
         PROVE DecisionsAreHuman'
  <2>1. CASE ResolveRemember
    <3>1. /\ ui.request \in Request /\ ui'.pc = "send"
          /\ ui'.request = ui.request /\ ui'.decision = ui.decision
      BY <2>1 DEF ResolveRemember, UiStates
    <3>2. UNCHANGED <<resumes, standing, approved, answer, reqId>>
      BY <2>1 DEF ResolveRemember
    <3>3. \A t \in Sessions, c \in Commands : Standing(t, c) <=> Standing(t, c)'
      BY <3>2
    <3>4. Standing(ui.request.session, ui.request.command)
      BY <2>1 DEF ResolveRemember
    <3> HIDE DEF Standing
    <3>5. \A t \in Sessions, c \in Commands :
            c \in allowlist'[t] => Risk[c] # "red" /\ Standing(t, c)'
      BY <2>1, <3>1, <3>3, <3>4 DEF ResolveRemember, RememberSessionAllow,
         Request
    <3> QED
      BY <2>1, <3>1, <3>2, <3>5 DEF ResolveRemember
  <2>2. CASE ResolveSend
    <3>1. ui'.pc = "idle"
      BY <2>2 DEF ResolveSend
    <3>2. UNCHANGED <<allowlist, resumes, standing, approved, reqId>>
      BY <2>2 DEF ResolveSend
    <3>3. ASSUME NEW h \in Hooks, answer'[h] \in Approvals
          PROVE reqId[h] \in approved
      <4>1. CASE answer'[h] = answer[h]
        BY <3>3, <4>1
      <4>2. CASE \E w \in waiters : w[1] = ui.request.id /\ w[2] = h
        <5>1. reqId[h] = ui.request.id
          BY <4>2
        <5>2. answer'[h] = ui.decision
          BY <2>2, <4>2 DEF ResolveSend
        <5> QED
          BY <2>2, <3>3, <5>1, <5>2 DEF ResolveSend
      <4> QED
        BY <2>2, <4>1, <4>2 DEF ResolveSend
    <3>4. \A t \in Sessions, c \in Commands :
            c \in allowlist'[t] => Risk[c] # "red" /\ Standing(t, c)'
      BY <3>2
    <3> QED
      BY <3>1, <3>2, <3>3, <3>4
  <2>3. CASE DisposeShutdown
    <3>1. ui'.pc = "forget" /\ UNCHANGED <<allowlist, resumes, standing, approved, answer, reqId>>
      BY <2>3 DEF DisposeShutdown, UiStates
    <3> QED
      BY <3>1
  <2>4. CASE DisposeForget
    BY <2>4 DEF DisposeForget, ForgetAllowed
  <2>5. CASE DisposeExpire
    BY <2>5 DEF DisposeExpire, ExpirePending, Expired, ExpiredWaiters, Denied
  <2>6. CASE DisposeSession
    BY <2>6 DEF DisposeSession
  <2> QED
    BY <1>main, <2>1, <2>2, <2>3, <2>4, <2>5, <2>6 DEF UiStep
<1> QED
  BY <1>stutter, <1>hook, <1>request, <1>resolve, <1>session, <1>main DEF Next

\* Neither a verdict nor the consent behind it is lost in a step.
LEMMA ConsentStep ==
  TypeOK /\ HooksInOrder /\ DecisionsAreHuman /\ ConsentRequired /\ [Next]_vars => ConsentRequired'
<1> SUFFICES ASSUME TypeOK /\ HooksInOrder /\ DecisionsAreHuman /\ ConsentRequired, [Next]_vars
             PROVE ConsentRequired'
  OBVIOUS
<1> USE DEF TypeOK, ConsentRequired, HooksInOrder, DecisionsAreHuman, Standing,
            Approvals,
            gateVars, sessionVars, hookVars, history
<1>stutter. CASE UNCHANGED vars
  BY <1>stutter DEF vars
<1>hook. ASSUME NEW h \in Hooks, Accept(h) \/ HookStep(h)
         PROVE ConsentRequired'
  <2>1. CASE Classify(h)
    <3> DEFINE c == command[h]
    <3>1. AllowedUnasked(h) =>
            Risk[c] = "green" \/ (Risk[c] # "red" /\ Standing(origin[h], c))
      BY DEF AllowedUnasked, IsSessionAllowed
    <3>2. verdict' = IF AllowedUnasked(h) THEN [verdict EXCEPT ![h] = "allow"] ELSE verdict
      BY <2>1 DEF Classify
    <3>3. UNCHANGED <<command, origin, reqId, resumes, approved, standing>>
      BY <2>1 DEF Classify
    <3> HIDE DEF c, AllowedUnasked
    <3> QED
      BY <3>1, <3>2, <3>3 DEF c
  <2>2. CASE Ask(h)
    <3>1. verdict[h] = "none"
      BY <2>2 DEF Ask
    <3>2. reqId' = [reqId EXCEPT ![h] = nextId + 1]
      BY <2>2 DEF Ask
    <3>3. UNCHANGED <<verdict, command, origin, resumes, approved, standing>>
      BY <2>2 DEF Ask
    <3> QED
      BY <3>1, <3>2, <3>3
  <2>3. CASE AskRefused(h)
    BY <2>3 DEF AskRefused
  <2>4. CASE Wake(h)
    BY <2>4 DEF Wake
  <2>quiet. CASE Accept(h) \/ ReportWorking(h) \/ ReportAwaiting(h) \/ Settle(h)
    BY <2>quiet DEF Accept, ReportWorking, SetStatus, ReportAwaiting, Settle
  <2> QED
    BY <1>hook, <2>1, <2>2, <2>3, <2>4, <2>quiet DEF HookStep
<1>request. ASSUME NEW s \in Sessions, NEW c \in Commands, UiRequest(s, c)
            PROVE ConsentRequired'
  BY <1>request DEF UiRequest, PushRequest
<1>resolve. ASSUME NEW r \in pending, NEW d \in Decisions, Resolve(r, d)
            PROVE ConsentRequired'
  BY <1>resolve DEF Resolve
<1>session. ASSUME NEW s \in Sessions,
                   Dispose(s) \/ AgentExit(s) \/ ReaperStep(s) \/ Resume(s)
            PROVE ConsentRequired'
  <2>1. CASE Resume(s)
    BY <2>1 DEF Resume
  <2>quiet. CASE \/ Dispose(s) \/ AgentExit(s) \/ ReaperShutdown(s)
                 \/ ReaperForget(s) \/ ReaperExpire(s) \/ ReaperMark(s)
    BY <2>quiet DEF Dispose, AgentExit, ReaperShutdown, ReaperForget,
       ForgetAllowed, ReaperExpire, ExpirePending, Expired, ExpiredWaiters,
       Denied, ReaperMark, SetStatus
  <2> QED
    BY <1>session, <2>1, <2>quiet DEF ReaperStep
<1>main. ASSUME UiStep
         PROVE ConsentRequired'
  <2>quiet. CASE \/ ResolveRemember \/ ResolveSend \/ DisposeShutdown
                 \/ DisposeForget \/ DisposeExpire \/ DisposeSession
    BY <2>quiet DEF ResolveRemember, RememberSessionAllow, ResolveSend,
       DisposeShutdown, DisposeForget, ForgetAllowed, DisposeExpire,
       ExpirePending, Expired, ExpiredWaiters, Denied, DisposeSession
  <2> QED
    BY <1>main, <2>quiet DEF UiStep
<1> QED
  BY <1>stutter, <1>hook, <1>request, <1>resolve, <1>session, <1>main DEF Next

\* `request_inner` refuses before it asks, and a refused command is red.
LEMMA RefusedStep ==
  TypeOK /\ HooksInOrder /\ RefusedNeverAllowed /\ [Next]_vars => RefusedNeverAllowed'
<1> SUFFICES ASSUME TypeOK /\ HooksInOrder /\ RefusedNeverAllowed, [Next]_vars
             PROVE RefusedNeverAllowed'
  OBVIOUS
<1> USE DEF TypeOK, RefusedNeverAllowed, HooksInOrder, Approvals,
            gateVars, sessionVars, hookVars, history
<1>stutter. CASE UNCHANGED vars
  BY <1>stutter DEF vars
<1>hook. ASSUME NEW h \in Hooks, Accept(h) \/ HookStep(h)
         PROVE RefusedNeverAllowed'
  <2>1. CASE Classify(h)
    BY <2>1, RefusedAssumption DEF Classify, AllowedUnasked
  <2>2. CASE AskRefused(h)
    BY <2>2 DEF AskRefused
  <2>3. CASE Wake(h)
    BY <2>3 DEF Wake
  <2>quiet. CASE \/ Accept(h) \/ ReportWorking(h) \/ ReportAwaiting(h) \/ Ask(h)
                 \/ Settle(h)
    BY <2>quiet DEF Accept, ReportWorking, SetStatus, ReportAwaiting, Ask,
       PushRequest, Settle
  <2> QED
    BY <1>hook, <2>1, <2>2, <2>3, <2>quiet DEF HookStep
<1>request. ASSUME NEW s \in Sessions, NEW c \in Commands, UiRequest(s, c)
            PROVE RefusedNeverAllowed'
  BY <1>request DEF UiRequest, PushRequest
<1>resolve. ASSUME NEW r \in pending, NEW d \in Decisions, Resolve(r, d)
            PROVE RefusedNeverAllowed'
  BY <1>resolve DEF Resolve
<1>session. ASSUME NEW s \in Sessions,
                   Dispose(s) \/ AgentExit(s) \/ ReaperStep(s) \/ Resume(s)
            PROVE RefusedNeverAllowed'
  <2>quiet. CASE \/ Dispose(s) \/ AgentExit(s) \/ ReaperShutdown(s)
                 \/ ReaperForget(s) \/ ReaperExpire(s) \/ ReaperMark(s)
                 \/ Resume(s)
    BY <2>quiet DEF Dispose, AgentExit, ReaperShutdown, ReaperForget,
       ForgetAllowed, ReaperExpire, ExpirePending, Expired, ExpiredWaiters,
       Denied, ReaperMark, SetStatus, Resume
  <2> QED
    BY <1>session, <2>quiet DEF ReaperStep
<1>main. ASSUME UiStep
         PROVE RefusedNeverAllowed'
  <2>quiet. CASE \/ ResolveRemember \/ ResolveSend \/ DisposeShutdown
                 \/ DisposeForget \/ DisposeExpire \/ DisposeSession
    BY <2>quiet DEF ResolveRemember, RememberSessionAllow, ResolveSend,
       DisposeShutdown, DisposeForget, ForgetAllowed, DisposeExpire,
       ExpirePending, Expired, ExpiredWaiters, Denied, DisposeSession
  <2> QED
    BY <1>main, <2>quiet DEF UiStep
<1> QED
  BY <1>stutter, <1>hook, <1>request, <1>resolve, <1>session, <1>main DEF Next

\* The inbox and the map of waiters are emptied in agreement.
LEMMA ReachableStep ==
  TypeOK /\ BlockedIsReachable /\ [Next]_vars => BlockedIsReachable'
<1> SUFFICES ASSUME TypeOK /\ BlockedIsReachable, [Next]_vars
             PROVE BlockedIsReachable'
  OBVIOUS
<1> USE DEF TypeOK, BlockedIsReachable, InInbox, BeingResolved, Request,
            gateVars, sessionVars, hookVars, history
<1>stutter. CASE UNCHANGED vars
  BY <1>stutter DEF vars
<1>hook. ASSUME NEW h \in Hooks, Accept(h) \/ HookStep(h)
         PROVE BlockedIsReachable'
  <2>1. CASE Accept(h)
    BY <2>1 DEF Accept
  <2>2. CASE ReportWorking(h)
    BY <2>2 DEF ReportWorking, SetStatus
  <2>3. CASE Classify(h)
    BY <2>3 DEF Classify, AllowedUnasked, IsSessionAllowed
  <2>4. CASE ReportAwaiting(h)
    BY <2>4 DEF ReportAwaiting, SetStatus
  <2>5. CASE Ask(h)
    <3> DEFINE new == [id |-> nextId + 1, session |-> origin[h], command |-> command[h]]
    <3>1. /\ pending' = pending \cup {new} /\ waiters' = waiters \cup {<<nextId + 1, h>>}
          /\ reqId' = [reqId EXCEPT ![h] = nextId + 1]
          /\ pc' = [pc EXCEPT ![h] = "blocked"]
      BY <2>5 DEF Ask, PushRequest
    <3>2. UNCHANGED <<origin, command, answer, ui>>
      BY <2>5 DEF Ask
    <3>3. /\ new \in pending' /\ new.id = reqId'[h]
          /\ new.session = origin'[h] /\ new.command = command'[h]
      BY <3>1, <3>2
    <3>4. <<reqId'[h], h>> \in waiters'
      BY <3>1
    <3>5. ASSUME NEW g \in Hooks, g # h, pc'[g] = "blocked", answer'[g] = "none"
          PROVE <<reqId'[g], g>> \in waiters' /\ (InInbox(g)' \/ BeingResolved(g)')
      BY <3>1, <3>2, <3>5
    <3> QED
      BY <3>3, <3>4, <3>5
  <2>6. CASE AskRefused(h)
    BY <2>6 DEF AskRefused
  <2>7. CASE Wake(h)
    BY <2>7 DEF Wake
  <2>8. CASE Settle(h)
    BY <2>8 DEF Settle, SetStatus
  <2> QED
    BY <1>hook, <2>1, <2>2, <2>3, <2>4, <2>5, <2>6, <2>7, <2>8 DEF HookStep
<1>request. ASSUME NEW s \in Sessions, NEW c \in Commands, UiRequest(s, c)
            PROVE BlockedIsReachable'
  BY <1>request DEF UiRequest, PushRequest
<1>resolve. ASSUME NEW r \in pending, NEW d \in Decisions, Resolve(r, d)
            PROVE BlockedIsReachable'
  BY <1>resolve DEF Resolve
<1>session. ASSUME NEW s \in Sessions,
                   Dispose(s) \/ AgentExit(s) \/ ReaperStep(s) \/ Resume(s)
            PROVE BlockedIsReachable'
  <2>1. CASE Dispose(s)
    BY <2>1 DEF Dispose
  <2>2. CASE ReaperExpire(s)
    BY <2>2 DEF ReaperExpire, ExpirePending, Expired, ExpiredWaiters, Denied
  <2>quiet. CASE \/ AgentExit(s) \/ ReaperShutdown(s) \/ ReaperForget(s)
                 \/ ReaperMark(s) \/ Resume(s)
    BY <2>quiet DEF AgentExit, ReaperShutdown, ReaperForget, ForgetAllowed,
       ReaperMark, SetStatus, Resume
  <2> QED
    BY <1>session, <2>1, <2>2, <2>quiet DEF ReaperStep
<1>main. ASSUME UiStep
         PROVE BlockedIsReachable'
  <2>1. CASE ResolveRemember
    BY <2>1 DEF ResolveRemember, RememberSessionAllow
  <2>2. CASE ResolveSend
    <3>1. /\ UNCHANGED <<pending, origin, command, pc, reqId>> /\ ui.pc = "send"
          /\ waiters' = {w \in waiters : w[1] # ui.request.id}
      BY <2>2 DEF ResolveSend
    <3>2. ui.decision \in Decisions /\ ui.decision # "none"
      BY <3>1 DEF UiStates, Decisions
    <3>3. ASSUME NEW h \in Hooks, pc[h] = "blocked", answer'[h] = "none"
          PROVE /\ answer[h] = "none" /\ <<reqId[h], h>> \in waiters
                /\ reqId[h] # ui.request.id
      <4>1. \A w \in waiters : w[1] = ui.request.id => w[2] # h
        BY <2>2, <3>2, <3>3 DEF ResolveSend
      <4>2. answer[h] = "none"
        BY <2>2, <3>3, <4>1 DEF ResolveSend
      <4> QED
        BY <3>3, <4>1, <4>2
    <3> QED
      BY <3>1, <3>3
  <2>3. CASE DisposeShutdown
    BY <2>3 DEF DisposeShutdown
  <2>4. CASE DisposeForget
    BY <2>4 DEF DisposeForget, ForgetAllowed
  <2>5. CASE DisposeExpire
    BY <2>5 DEF DisposeExpire, ExpirePending, Expired, ExpiredWaiters, Denied
  <2>6. CASE DisposeSession
    BY <2>6 DEF DisposeSession
  <2> QED
    BY <1>main, <2>1, <2>2, <2>3, <2>4, <2>5, <2>6 DEF UiStep
<1> QED
  BY <1>stutter, <1>hook, <1>request, <1>resolve, <1>session, <1>main DEF Next

\* What is answered has left the inbox before it is answered.
LEMMA InboxStep ==
  TypeOK /\ HooksInOrder /\ IdsAreUnique /\ WaitersMatch /\ InboxIsOpen /\ [Next]_vars => InboxIsOpen'
<1> SUFFICES ASSUME TypeOK /\ HooksInOrder /\ IdsAreUnique /\ WaitersMatch /\ InboxIsOpen, [Next]_vars
             PROVE InboxIsOpen'
  OBVIOUS
<1> USE DEF TypeOK, InboxIsOpen, HooksInOrder, IdsAreUnique, WaitersMatch, Asked,
            Request,
            gateVars, sessionVars, hookVars, history
<1>stutter. CASE UNCHANGED vars
  BY <1>stutter DEF vars
<1>hook. ASSUME NEW h \in Hooks, Accept(h) \/ HookStep(h)
         PROVE InboxIsOpen'
  <2>1. CASE Accept(h)
    BY <2>1 DEF Accept
  <2>2. CASE ReportWorking(h)
    BY <2>2 DEF ReportWorking, SetStatus
  <2>3. CASE Classify(h)
    BY <2>3 DEF Classify, AllowedUnasked, IsSessionAllowed
  <2>4. CASE ReportAwaiting(h)
    BY <2>4 DEF ReportAwaiting, SetStatus
  <2>5. CASE Ask(h)
    BY <2>5 DEF Ask, PushRequest
  <2>6. CASE AskRefused(h)
    BY <2>6 DEF AskRefused
  <2>7. CASE Wake(h)
    BY <2>7 DEF Wake
  <2>8. CASE Settle(h)
    BY <2>8 DEF Settle, SetStatus
  <2> QED
    BY <1>hook, <2>1, <2>2, <2>3, <2>4, <2>5, <2>6, <2>7, <2>8 DEF HookStep
<1>request. ASSUME NEW s \in Sessions, NEW c \in Commands, UiRequest(s, c)
            PROVE InboxIsOpen'
  BY <1>request DEF UiRequest, PushRequest
<1>resolve. ASSUME NEW r \in pending, NEW d \in Decisions, Resolve(r, d)
            PROVE InboxIsOpen'
  BY <1>resolve DEF Resolve
<1>session. ASSUME NEW s \in Sessions,
                   Dispose(s) \/ AgentExit(s) \/ ReaperStep(s) \/ Resume(s)
            PROVE InboxIsOpen'
  <2>1. CASE ReaperExpire(s)
    BY <2>1 DEF ReaperExpire, ExpirePending, Expired, ExpiredWaiters, Denied
  <2>quiet. CASE \/ Dispose(s) \/ AgentExit(s) \/ ReaperShutdown(s)
                 \/ ReaperForget(s) \/ ReaperMark(s) \/ Resume(s)
    BY <2>quiet DEF Dispose, AgentExit, ReaperShutdown, ReaperForget,
       ForgetAllowed, ReaperMark, SetStatus, Resume
  <2> QED
    BY <1>session, <2>1, <2>quiet DEF ReaperStep
<1>main. ASSUME UiStep
         PROVE InboxIsOpen'
  <2>1. CASE ResolveSend
    BY <2>1 DEF ResolveSend
  <2>2. CASE DisposeExpire
    BY <2>2 DEF DisposeExpire, ExpirePending, Expired, ExpiredWaiters, Denied
  <2>quiet. CASE \/ ResolveRemember \/ DisposeShutdown \/ DisposeForget
                 \/ DisposeSession
    BY <2>quiet DEF ResolveRemember, RememberSessionAllow, DisposeShutdown,
       DisposeForget, ForgetAllowed, DisposeSession
  <2> QED
    BY <1>main, <2>1, <2>2, <2>quiet DEF UiStep
<1> QED
  BY <1>stutter, <1>hook, <1>request, <1>resolve, <1>session, <1>main DEF Next

-----------------------------------------------------------------------------
\* The inductive invariant holds before anything runs.
LEMMA GateInit == Init => GateInv
<1> SUFFICES ASSUME Init PROVE GateInv
  OBVIOUS
<1> USE DEF Init
<1>1. TypeOK
  BY BoundsAssumption DEF TypeOK, Statuses, ReaperSteps, HookSteps, Decisions,
     UiStates
<1>2. WaitersMatch /\ HooksInOrder /\ IdsAreUnique
  BY DEF WaitersMatch, HooksInOrder, IdsAreUnique, Asked
<1>3. DecisionsAreHuman
  BY DEF DecisionsAreHuman, Approvals
<1>4. ConsentRequired /\ RefusedNeverAllowed /\ BlockedIsReachable /\ InboxIsOpen
  BY DEF ConsentRequired, RefusedNeverAllowed, BlockedIsReachable, InboxIsOpen
<1> QED
  BY <1>1, <1>2, <1>3, <1>4 DEF GateInv

\* And every step of every thread keeps it.
LEMMA GateStep == GateInv /\ [Next]_vars => GateInv'
BY TypeStep, WaitersMatchStep, HooksInOrderStep, IdsAreUniqueStep,
   DecisionsStep,
   ConsentStep, RefusedStep, ReachableStep, InboxStep DEF GateInv

\* The inductive invariant of the gate, for any number of sessions, commands,
\* hook threads, resumptions and requests of the frontend.
THEOREM GateInvariant == Spec => []GateInv
BY GateInit, GateStep, PTL DEF Spec

\* The gate stays within its types: the fields of `ApprovalsManager` and the
\* positions of the threads around it.
THEOREM TypeCorrect == Spec => []TypeOK
<1>1. GateInv => TypeOK
  BY DEF GateInv
<1> QED
  BY <1>1, GateInvariant, PTL

\* No agent of any session runs a command that is not green without a human
\* decision for that command in that session (`on_pre_tool_use`).
THEOREM Consent == Spec => []ConsentRequired
<1>1. GateInv => ConsentRequired
  BY DEF GateInv
<1> QED
  BY <1>1, GateInvariant, PTL

\* A push to the trunk never goes through (`is_refused_by_core`).
THEOREM RefusedStaysRefused == Spec => []RefusedNeverAllowed
<1>1. GateInv => RefusedNeverAllowed
  BY DEF GateInv
<1> QED
  BY <1>1, GateInvariant, PTL

\* No lost wake-up: whoever waits in `request_blocking` can still be answered.
THEOREM NoLostWakeUp == Spec => []BlockedIsReachable
<1>1. GateInv => BlockedIsReachable
  BY DEF GateInv
<1> QED
  BY <1>1, GateInvariant, PTL

\* The inbox shows only requests that nobody answered yet (`resolve_inner`,
\* `expire_session_inner`).
THEOREM InboxIsHonest == Spec => []InboxIsOpen
<1>1. GateInv => InboxIsOpen
  BY DEF GateInv
<1> QED
  BY <1>1, GateInvariant, PTL

\* A resolution and an expiry never both answer a hook thread: the first lock
\* of each takes the request out of the reach of the other.
LEMMA AnswerStep ==
  TypeOK /\ WaitersMatch /\ HooksInOrder /\ [Next]_vars =>
    [\A h \in Hooks : answer[h] # "none" => answer'[h] = answer[h]]_vars
<1> SUFFICES ASSUME TypeOK, WaitersMatch, HooksInOrder, Next
             PROVE \A h \in Hooks : answer[h] # "none" => answer'[h] = answer[h]
  OBVIOUS
<1> USE DEF TypeOK, WaitersMatch, gateVars, sessionVars, hookVars, history
<1>hook. ASSUME NEW h \in Hooks, Accept(h) \/ HookStep(h) PROVE answer' = answer
  BY <1>hook DEF HookStep, Accept, ReportWorking, Classify, ReportAwaiting, Ask,
     AskRefused, Wake, Settle
<1>request. ASSUME NEW s \in Sessions, NEW c \in Commands, UiRequest(s, c)
            PROVE answer' = answer
  BY <1>request DEF UiRequest
<1>resolve. ASSUME NEW r \in pending, NEW d \in Decisions, Resolve(r, d)
            PROVE answer' = answer
  BY <1>resolve DEF Resolve
<1>expire. ASSUME NEW s \in Sessions, ExpirePending(s)
           PROVE \A h \in Hooks : answer[h] # "none" => answer'[h] = answer[h]
  BY <1>expire DEF ExpirePending, ExpiredWaiters, Denied
<1>session. ASSUME NEW s \in Sessions,
                   Dispose(s) \/ AgentExit(s) \/ ReaperStep(s) \/ Resume(s)
            PROVE ExpirePending(s) \/ answer' = answer
  BY <1>session DEF Dispose, AgentExit, ReaperStep, ReaperShutdown,
     ReaperForget,
     ReaperExpire, ReaperMark, Resume
<1>main. ASSUME UiStep
         PROVE ResolveSend \/ answer' = answer
                 \/ (ui.session \in Sessions /\ ExpirePending(ui.session))
  <2>1. ui.pc = "expire" => ui.session \in Sessions
    BY DEF UiStates
  <2> QED
    BY <1>main, <2>1 DEF UiStep, ResolveRemember, DisposeShutdown,
       DisposeForget,
       DisposeExpire, DisposeSession
<1>send. ASSUME ResolveSend
         PROVE \A h \in Hooks : answer[h] # "none" => answer'[h] = answer[h]
  BY <1>send DEF ResolveSend
<1> QED
  BY <1>hook, <1>request, <1>resolve, <1>expire, <1>session, <1>main, <1>send
     DEF Next

\* The answer a hook thread received is final.
THEOREM AnsweredAtMostOnce == Spec => AnsweredOnce
<1>1. GateInv => TypeOK /\ WaitersMatch /\ HooksInOrder
  BY DEF GateInv
<1> QED
  BY <1>1, GateInvariant, AnswerStep, PTL DEF Spec, AnsweredOnce
=============================================================================
