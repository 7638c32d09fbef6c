---------------------------- MODULE ServingProofs ----------------------------
(***************************************************************************)
(* Proofs about module Serving: its types, what a challenge promises its   *)
(* client, what it is told of its call, how it agrees on a revision, that  *)
(* a header obtains no more than is allowed, what a surface holds, and     *)
(* that what the client saw of an entry leads back to it.  Each invariant  *)
(* below is inductive together with those before it; Spec needs no         *)
(* fairness for them.                                                      *)
(***************************************************************************)
EXTENDS Serving, OperatorProofs

\* A client that was challenged is at its answer, or has what it was missing.
Met ==
    /\ setting \in Settings
    /\ challenges \in {0, 1}
    /\ challenges = 1 =>
         \/ stage = "answered" /\ answer = "challenge"
         \/ Missing(setting.deployment, setting.header, scopes) = {}
    /\ stage = "answered" /\ answer = "challenge" =>
         Missing(setting.deployment, setting.header, scopes)
             \subseteq OfferedScopes(setting.deployment)

-----------------------------------------------------------------------------
(* Lemmas about HeaderPolicy.                                              *)

\* A mode has a place in the order.
LEMMA RankIsNat ==
  ASSUME NEW mode \in ToSet(Modes)
  PROVE  Rank(mode) \in Nat
  <1>1. PICK i \in DOMAIN Modes : Modes[i] = mode
    BY DEF ToSet
  <1>2. Rank(mode) \in DOMAIN Modes
    BY <1>1 DEF Rank
  <1>3. DOMAIN Modes \subseteq Nat
    BY DEF Modes
  <1>4. QED
    BY <1>2, <1>3

\* Every scope is a mode's.
LEMMA ScopesAreModes == Scopes \subseteq ToSet(Modes)
  <1>1. ToSet(Modes) = {Modes[i] : i \in DOMAIN Modes}
    BY DEF ToSet
  <1>2. DOMAIN Modes = {1, 2, 3, 4}
    BY DEF Modes
  <1>3. Modes[2] = "env-only" /\ Modes[3] = "override-known" /\ Modes[4] = "define-new"
    BY DEF Modes
  <1>4. QED
    BY <1>1, <1>2, <1>3 DEF Scopes

\* Where scopes are what is missing, the deployment offers all of them: the ceiling
\* was looked at before.
LEMMA MissingIsOffered ==
  ASSUME NEW s \in Settings, NEW have, CheckHeader(s.deployment, s.header, have) = "scopes"
  PROVE  Missing(s.deployment, s.header, have) \subseteq OfferedScopes(s.deployment)
  <1> DEFINE d == s.deployment
  <1>1. ~AsksTooMuch(d, s.header)
    BY DEF CheckHeader
  <1>2. ASSUME NEW m \in Missing(d, s.header, have)
        PROVE  m \in OfferedScopes(d)
    <2>1. m \in Demands(d, s.header) /\ m \in Scopes
      BY <1>2 DEF Missing, Demands
    <2>2. ~(Rank(m) > Rank(d.mode))
      BY <1>1, <2>1 DEF AsksTooMuch
    <2>3. Rank(m) \in Nat /\ Rank(d.mode) \in Nat
      BY <2>1, RankIsNat, ScopesAreModes, SettingsAssumption DEF SettingsAssumption
    <2>4. QED
      BY <2>1, <2>2, <2>3 DEF OfferedScopes
  <1>3. QED
    BY <1>2

\* Whoever has what was missing is missing nothing.
LEMMA StepUpSuffices ==
  ASSUME NEW d, NEW header, NEW have
  PROVE  Missing(d, header, have \cup Missing(d, header, have)) = {}
  BY DEF Missing

-----------------------------------------------------------------------------
\* Met, which makes StepUpHelps inductive, holds at first
LEMMA InitMet == Init => Met
  BY DEF Init, Met

\* Only Challenge and StepUp touch what Met speaks of, besides the request's stage.
LEMMA NextMet == Met /\ [Next]_vars => Met'
  <1> SUFFICES ASSUME Met, [Next]_vars
               PROVE  Met'
    OBVIOUS
  <1> DEFINE Frame == UNCHANGED <<setting, scopes, challenges>>
             Answers == stage' # "answered" \/ answer' # "challenge"
  <1>1. CASE Challenge
    <2>1. CheckHeader(setting.deployment, setting.header, scopes) = "scopes"
      <3>1. Verdict = "scopes"
        BY <1>1 DEF Challenge
      <3>2. \A d, servs, h : CheckResolved(d, servs, h) # "scopes"
        BY DEF CheckResolved
      <3>3. QED
        BY <3>1, <3>2 DEF Verdict
    <2>2. Missing(setting.deployment, setting.header, scopes) # {}
      BY <2>1 DEF CheckHeader
    <2>3. challenges = 0
      BY <1>1, <2>2 DEF Met, Challenge
    <2>4. /\ UNCHANGED <<setting, scopes>>
          /\ challenges' = challenges + 1
          /\ stage' = "answered" /\ answer' = "challenge"
      BY <1>1 DEF Challenge, client, Respond
    <2>5. Missing(setting.deployment, setting.header, scopes)
              \subseteq OfferedScopes(setting.deployment)
      BY <2>1, MissingIsOffered DEF Met
    <2>6. QED
      BY <2>3, <2>4, <2>5 DEF Met
  <1>2. CASE StepUp
    <2>1. /\ UNCHANGED <<setting, challenges>>
          /\ scopes' = scopes \cup Missing(setting.deployment, setting.header, scopes)
          /\ stage' = "client"
      BY <1>2 DEF StepUp
    <2>2. Missing(setting.deployment, setting.header, scopes)' = {}
      BY <2>1, StepUpSuffices
    <2>3. QED
      BY <2>1, <2>2 DEF Met
  <1>3. CASE Frame /\ Answers /\ ~(stage = "answered" /\ answer = "challenge")
    BY <1>3 DEF Met
  <1>4. CASE Frame /\ UNCHANGED <<stage, answer>>
    BY <1>4 DEF Met
  <1>5. CASE Send \/ Authorize \/ Unauthorized \/ BadHeader \/ Refuse \/ Admit
             \/ ServeItself \/ SurfaceBegins \/ SurfaceDone
    <2>1. Frame /\ ~(stage = "answered" /\ answer = "challenge")
      BY <1>5 DEF Send, Authorize, Unauthorized, BadHeader, Refuse, Admit, ServeItself,
                  SurfaceBegins, SurfaceDone, client
    <2>2. Answers
      BY <1>5 DEF Send, Authorize, Unauthorized, BadHeader, Refuse, Admit, ServeItself,
                  SurfaceBegins, SurfaceDone, Respond
    <2>3. QED
      BY <2>1, <2>2, <1>3
  <1>6. ASSUME NEW b \in Backends, Gathers(b) \/ TimeoutExpires(b)
        PROVE  Met'
    <2>1. UNCHANGED <<setting, client, request>>
      BY <1>6 DEF Gathers, Reach, Start, Started, ListRefused, StartFails, ListFails,
                  ListAnswered, ListAbsent, Fail, NextList, TimeoutExpires
    <2>2. QED
      BY <2>1, <1>4 DEF client, request
  <1>7. CASE \/ \E b \in Backends : Dispatches(BackendDies(b))
             \/ \E a \in setting.asks : Ask(a)
             \/ Dispatches(Calls(Ids))
    <2>1. UNCHANGED <<setting, client, request>>
      BY <1>7 DEF Dispatches, Ask
    <2>2. QED
      BY <2>1, <1>4 DEF client, request
  <1>8. CASE UNCHANGED vars
    BY <1>8, <1>4 DEF vars, client, request
  <1>9. QED
    BY <1>1, <1>2, <1>5, <1>6, <1>7, <1>8 DEF Next, Admission

\* A challenge names scopes the deployment offers, and a client that comes back with
\* them is not challenged again.
THEOREM StepUpHelpsHolds == Spec => []StepUpHelps
  <1>1. Met => StepUpHelps
    BY DEF Met, StepUpHelps
  <1>2. QED
    BY <1>1, InitMet, NextMet, PTL DEF Spec

-----------------------------------------------------------------------------
(* What the client is told of its call.                                    *)

\* A call that has not been routed has no target, one that has keeps it, and an
\* error is kept with what the backend has said.
Untouched == target = {} /\ heard = "nothing" /\ failure.is = {} /\ gone = FALSE
Refused == told.is \cap Refusals # {}
Known ==
    /\ call \in {"none", "posted"} \/ (call = "answered" /\ Refused) => Untouched
    /\ call \in {"waiting", "starting"} =>
         target # {} /\ heard = "nothing" /\ failure.is = {} /\ gone = FALSE
    /\ call = "calling" => target # {} /\ heard = "nothing" /\ failure.is = {}
    /\ call = "failed" =>
         /\ target # {}
         /\ \/ heard \in {"missing", "refusal"} /\ failure.is = {"protocol"}
            \/ heard = "nothing" /\ failure.is = {"closed", "connection lost"}
            \/ heard = "nothing" /\ failure.is = {"broken pipe"}
    /\ gone \in BOOLEAN /\ failure = [is |-> failure.is, code |-> failure.code]
    /\ call \in {"none", "posted", "waiting", "starting", "calling", "failed", "answered"}
    /\ ToldRight

\* Known holds at first
LEMMA InitKnown == Init => Known
  <1> SUFFICES ASSUME Init PROVE Known
    OBVIOUS
  <1>1. /\ call = "none" /\ target = {} /\ heard = "nothing" /\ gone = FALSE
        /\ failure = [is |-> {}, code |-> "none"]
    BY DEF Init, DispatchInit, Nothing, Error
  <1>2. QED
    BY <1>1 DEF Known, Untouched, ToldRight

\* Everybody else leaves the call alone.
LEMMA NextKnown == Known /\ [Next]_vars => Known'
  <1> SUFFICES ASSUME Known, [Next]_vars PROVE Known'
    OBVIOUS
  <1>1. CASE UNCHANGED dispatch
    BY <1>1, ZenonT(60) DEF dispatch, Known, Untouched, Refused, ToldRight
  <1>2. \/ UNCHANGED dispatch
        \/ \E b \in Backends : BackendDies(b)
        \/ \E a \in setting.asks : Post(a)
        \/ Calls(Ids)
    BY DEF Next, vars, Send, Authorize, StepUp, Admission, Unauthorized, BadHeader, Challenge,
           Refuse, Admit, ServeItself, SurfaceBegins, SurfaceDone, Gathers, Reach, Start,
           Started, ListRefused, StartFails, ListFails, ListAnswered, ListAbsent, Fail,
           NextList, TimeoutExpires, Dispatches, Ask
  <1> USE DEF Known, Untouched, Refused, ToldRight, Answer, Error, Nothing
  <1>3. ASSUME NEW b \in Backends, BackendDies(b) PROVE Known'
    BY <1>3 DEF BackendDies
  <1>4. ASSUME NEW a \in setting.asks, Post(a) PROVE Known'
    BY <1>4 DEF Post
  <1>5. CASE GateRefuses
    <2>1. Gate(ask) \in Refusals
      BY <1>5 DEF GateRefuses, Gate, Refusals
    <2>2. QED
      BY <1>5, <2>1 DEF GateRefuses
  <1>6. CASE Repost
    BY <1>6 DEF Repost
  <1>7. CASE NotRouted(Ids)
    BY <1>7 DEF NotRouted, RoutingError, RoutingErrors, Refusals
  <1>8. CASE Routed(Ids)
    BY <1>8 DEF Routed
  <1>9. CASE PoolRefuses \/ CallStartFails
    <2>1. Sent(MarkUnavailable(Error({"not served"}))).is = {"not served", "unavailable"}
      BY DEF Sent, MarkUnavailable
    <2>2. call' = "answered" /\ told'.is = {"not served", "unavailable"}
      BY <1>9, <2>1 DEF PoolRefuses, CallStartFails, NotServed
    <2>3. target # {} /\ heard = "nothing" /\ failure.is = {} /\ gone = FALSE
      BY <1>9 DEF PoolRefuses, CallStartFails, CallLetsGo
    <2>4. UNCHANGED <<target, heard, failure, gone>>
      BY <1>9 DEF PoolRefuses, CallStartFails, CallLetsGo
    <2>5. QED
      BY <2>2, <2>3, <2>4 DEF RoutingErrors, Refusals
  <1>10. CASE CallReaches \/ CallStarts \/ CallStarted
    BY <1>10 DEF CallReaches, CallStarts, CallStarted, CallLetsGo
  <1>11. CASE CallReturns
    BY <1>11 DEF CallReturns, RoutingErrors, Refusals
  <1>12. ASSUME NEW how \in {"missing", "refusal"}, CallRefused(how) PROVE Known'
    BY <1>12 DEF CallRefused, Normalize
  <1>13. ASSUME NEW how \in {"closed", "broken pipe"}, CallBreaks(how) PROVE Known'
    BY <1>13 DEF CallBreaks, Normalize
  <1>14. CASE Classified
    <2>1. /\ call' = "answered" /\ told' = Sent(MarkUnavailable(Classify(failure, gone)))
          /\ UNCHANGED <<target, heard, failure, gone>> /\ call = "failed"
      BY <1>14 DEF Classified
    <2> DEFINE marks == IF Retryable(failure, gone) THEN failure.is \cup {"retryable"}
                        ELSE failure.is
               all == IF "protocol" \in marks THEN marks ELSE marks \cup {"unavailable"}
               again == gone \/ "connection lost" \in failure.is
               refused == heard \in {"missing", "refusal"}
    <2>2. Classify(failure, gone) = [is |-> marks, code |-> failure.code]
      BY DEF Classify
    <2> HIDE DEF marks
    <2>3. MarkUnavailable([is |-> marks, code |-> failure.code])
            = [is |-> all, code |-> failure.code]
      BY DEF MarkUnavailable
    <2> HIDE DEF all
    <2>4. Sent([is |-> all, code |-> failure.code]).is = all
      BY DEF Sent
    <2>5. told'.is = all
      BY <2>1, <2>2, <2>3, <2>4
    <2>6. /\ failure.is # {} /\ target # {}
          /\ \/ heard \in {"missing", "refusal"} /\ failure.is = {"protocol"}
             \/ heard = "nothing" /\ failure.is = {"closed", "connection lost"}
             \/ heard = "nothing" /\ failure.is = {"broken pipe"}
      BY <2>1
    <2> HIDE DEF Known, Untouched, Refused, ToldRight, Answer, Error, Nothing
    <2>7. /\ all \cap Refusals = {} /\ all \cap RoutingErrors = {}
          /\ "retryable" \in all <=> again
          /\ "unavailable" \in all <=> heard = "nothing"
          /\ "protocol" \in all <=> refused
      <3>1. all \subseteq {"protocol", "closed", "connection lost", "broken pipe",
                           "retryable", "unavailable"}
        BY <2>6 DEF marks, all
      <3>2. "retryable" \in all <=> again
        BY <2>6 DEF marks, all, Retryable
      <3>3. "protocol" \in all <=> "protocol" \in failure.is
        BY DEF marks, all
      <3>4. "unavailable" \in all <=> "protocol" \notin failure.is
        BY <2>6 DEF marks, all
      <3>5. "protocol" \in failure.is <=> refused
        BY <2>6
      <3>6. "protocol" \notin failure.is <=> heard = "nothing"
        BY <2>6
      <3>7. all \cap Refusals = {} /\ all \cap RoutingErrors = {}
        BY <3>1 DEF Refusals, RoutingErrors
      <3>8. QED
        BY <3>2, <3>3, <3>4, <3>5, <3>6, <3>7
    <2>8. ToldRight'
      BY <2>1, <2>5, <2>6, <2>7 DEF ToldRight
    <2>9. ~Refused' /\ call' = "answered"
      BY <2>1, <2>5, <2>7 DEF Refused
    <2>10. gone' \in BOOLEAN /\ failure' = [is |-> failure'.is, code |-> failure'.code]
      BY <2>1 DEF Known
    <2>11. QED
      BY <2>8, <2>9, <2>10 DEF Known
  <1> HIDE DEF Known, Untouched, Refused, ToldRight, Answer, Error, Nothing
  <1>15. QED
    BY <1>1, <1>2, <1>3, <1>4, <1>5, <1>6, <1>7, <1>8, <1>9, <1>10, <1>11, <1>12, <1>13, <1>14
       DEF Calls

\* What a client is told of its call is what happened, whatever the deployment, the
\* requests and the backends are.
THEOREM ToldRightHolds == Spec => []ToldRight
  <1>1. Known => ToldRight
    BY DEF Known
  <1>2. QED
    BY <1>1, InitKnown, NextKnown, PTL DEF Spec

-----------------------------------------------------------------------------
(* Who changes what.                                                       *)

\* The request has been let in, and was not refused.
Past ==
    \/ stage \in {"admitted", "listing"}
    \/ stage = "answered" /\ answer \in {"served", "surface", "names clash"}

\* Nothing but the admission of a request and the end of its listing changes what is
\* kept of the client and the request.
LEMMA RequestSteps ==
  [Next]_vars =>
    /\ UNCHANGED setting
    /\ \/ UNCHANGED <<client, request>>
       \/ /\ UNCHANGED <<backends, dispatch>>
          /\ \/ Send \/ Authorize \/ StepUp \/ Unauthorized \/ BadHeader \/ Challenge \/ Refuse
             \/ Admit \/ ServeItself \/ SurfaceBegins \/ SurfaceDone
  <1> SUFFICES ASSUME [Next]_vars
               PROVE  /\ UNCHANGED setting
                      /\ \/ UNCHANGED <<client, request>>
                         \/ /\ UNCHANGED <<backends, dispatch>>
                            /\ \/ Send \/ Authorize \/ StepUp \/ Unauthorized \/ BadHeader
                               \/ Challenge \/ Refuse \/ Admit \/ ServeItself \/ SurfaceBegins
                               \/ SurfaceDone
    OBVIOUS
  <1>1. CASE \/ Send \/ Authorize \/ StepUp \/ Unauthorized \/ BadHeader \/ Challenge \/ Refuse
             \/ Admit \/ ServeItself \/ SurfaceBegins \/ SurfaceDone
    BY <1>1 DEF Send, Authorize, StepUp, Unauthorized, BadHeader, Challenge, Refuse, Admit,
                ServeItself, SurfaceBegins, SurfaceDone
  <1>2. ASSUME NEW b \in Backends, Gathers(b) \/ TimeoutExpires(b)
        PROVE  UNCHANGED <<setting, client, request>>
    BY <1>2 DEF Gathers, Reach, Start, Started, ListRefused, StartFails, ListFails,
                ListAnswered, ListAbsent, Fail, NextList, TimeoutExpires
  <1>3. CASE \/ \E b \in Backends : Dispatches(BackendDies(b))
             \/ \E a \in setting.asks : Ask(a)
             \/ Dispatches(Calls(Ids))
    BY <1>3 DEF Dispatches, Ask
  <1>4. CASE UNCHANGED vars
    BY <1>4, SMTT(30) DEF vars
  <1>5. QED
    BY <1>1, <1>2, <1>3, <1>4 DEF Next, Admission

\* A call is only changed by its own steps, by an exit of a process, and by being posted.
LEMMA DispatchSteps ==
  [Next]_vars =>
    \/ UNCHANGED dispatch
    \/ /\ UNCHANGED <<client, request, gathering>>
       /\ \/ \E b \in Backends : BackendDies(b)
          \/ \E a \in setting.asks : stage \in {"admitted", "listing"} /\ Post(a)
          \/ Calls(Ids)
  BY DEF Next, vars, Send, Authorize, StepUp, Admission, Unauthorized, BadHeader, Challenge,
         Refuse, Admit, ServeItself, SurfaceBegins, SurfaceDone, Gathers, Reach, Start,
         Started, ListRefused, StartFails, ListFails, ListAnswered, ListAbsent, Fail,
         NextList, TimeoutExpires, Dispatches, Ask

\* A request that was let in stays so, with the servers it was let in with.
LEMMA PastStays == Past /\ [Next]_vars => Past' /\ UNCHANGED servers
  <1> SUFFICES ASSUME Past, [Next]_vars PROVE Past' /\ UNCHANGED servers
    OBVIOUS
  <1>1. CASE UNCHANGED <<client, request>>
    BY <1>1 DEF Past, request
  <1>2. CASE \/ Send \/ Authorize \/ StepUp \/ Unauthorized \/ BadHeader \/ Challenge \/ Refuse
             \/ Admit \/ ServeItself \/ SurfaceBegins \/ SurfaceDone
    BY <1>2 DEF Past, Send, Authorize, StepUp, Unauthorized, BadHeader, Challenge, Refuse, Admit,
                ServeItself, SurfaceBegins, SurfaceDone, Respond
  <1>3. QED
    BY <1>1, <1>2, RequestSteps

-----------------------------------------------------------------------------
(* Agreeing on a revision.                                                 *)

\* What is known of a client's request that was refused n times before.
Attempt(a, n) ==
    /\ a \in AskType
    /\ n = 0 /\ a.knew = "handshake" => a.method = "initialize"
    /\ n # 0 => a.method = "call" /\ a.header = a.body /\ a.header # NoVersion
    /\ n = 1 => a.header = Latest \/ a.knew # "handshake"
    /\ n = 2 => a.header = Latest /\ a.knew # "handshake"
Attempts ==
    /\ refusals \in 0..2
    /\ call = "none" => refusals = 0 /\ told.is = {}
    /\ call \notin {"none", "answered"} => told.is = {}
    /\ call # "none" => Past
    /\ call = "posted" => Attempt(ask, refusals)
    /\ Refused =>
         /\ call = "answered" /\ Gate(ask) # "pass" /\ told.is = {Gate(ask)}
         /\ refusals # 0 /\ Attempt(ask, refusals - 1)
    /\ call \notin {"none", "posted"} /\ ~Refused => Gate(ask) = "pass" /\ Attempt(ask, refusals)

\* What the gate can say, and of which methods.
LEMMA GateAnswers ==
  /\ \A a : Gate(a) \in Refusals \cup {"pass"}
  /\ \A a : Gate(a) = "unsupported version" =>
       a.method = "call" \/ a.method \notin {"call", "initialize", "removed"}
  BY DEF Gate, Refusals

\* The revision that refusals name is spoken here.
LEMMA LatestIsSpoken == Supported(Latest) /\ Latest # NoVersion /\ Latest \in Revisions
  <1>1. 1 \in DOMAIN SupportedVersions
    <2>1. Len(SupportedVersions) \in Nat /\ Len(SupportedVersions) # 0
          /\ DOMAIN SupportedVersions = 1..Len(SupportedVersions)
      BY VersionsAssumption, EmptySeq DEF VersionsAssumption
    <2>2. QED
      BY <2>1
  <1>2. Latest \in ToSet(SupportedVersions) /\ Latest \in Revisions
    BY <1>1, VersionsAssumption DEF VersionsAssumption, Latest, ToSet
  <1>3. QED
    BY <1>2, VersionsAssumption DEF VersionsAssumption, Supported

\* The third attempt gets through.
LEMMA ThirdPasses ==
  ASSUME NEW a, Attempt(a, 2)
  PROVE  Gate(a) = "pass"
  <1>1. a.method = "call" /\ a.header = Latest /\ a.body = Latest
    BY DEF Attempt
  <1>2. QED
    BY <1>1, LatestIsSpoken DEF Gate, Requested

\* What a client that was refused once sends next.
LEMMA SecondAttempt ==
  ASSUME NEW a \in AskType, a.method = "call", a.header = a.body, a.header # NoVersion,
         a.header = Latest \/ a.knew # "handshake"
  PROVE  Attempt(a, 1)
  BY DEF Attempt

\* Following an answer leads to the next attempt.
LEMMA FollowsOnce ==
  ASSUME NEW a, Attempt(a, 0), Gate(a) \notin {"pass", "method removed"}, told.is = {Gate(a)}
  PROVE  Attempt(Follow(a), 1)
  <1> DEFINE named == [a EXCEPT !.header = a.speaks, !.body = a.speaks]
             called == [a EXCEPT !.method = "call", !.speaks = Latest, !.header = Latest,
                                 !.body = Latest]
  <1>1. a \in AskType /\ a.speaks \in Revisions /\ a.speaks # NoVersion
    BY VersionsAssumption DEF VersionsAssumption, Attempt, AskType
  <1>2. CASE Gate(a) = "header mismatch"
    <2>1. Follow(a) = named
      BY <1>2 DEF Follow
    <2>2. a.method = "call" /\ a.knew # "handshake"
      BY <1>1, <1>2 DEF Gate, AskType, Attempt
    <2>3. /\ named \in AskType /\ named.method = a.method /\ named.knew = a.knew
          /\ named.header = a.speaks /\ named.body = a.speaks
      BY <1>1 DEF AskType
    <2> HIDE DEF named
    <2>4. Attempt(named, 1)
      BY <2>2, <2>3, <1>1, SecondAttempt
    <2>5. QED
      BY <2>1, <2>4
  <1>3. CASE Gate(a) # "header mismatch"
    <2>1. Follow(a) = called
      BY <1>3 DEF Follow
    <2>2. /\ called \in AskType /\ called.method = "call" /\ called.knew = a.knew
          /\ called.header = Latest /\ called.body = Latest
      BY <1>1, LatestIsSpoken DEF AskType
    <2> HIDE DEF called
    <2>3. Attempt(called, 1)
      BY <2>2, LatestIsSpoken, SecondAttempt
    <2>4. QED
      BY <2>1, <2>3
  <1>4. QED
    BY <1>2, <1>3

\* The second time there is only one thing left that can be wrong: the revision.
LEMMA FollowsTwice ==
  ASSUME NEW a, Attempt(a, 1), Gate(a) # "pass", told.is = {Gate(a)}
  PROVE  Attempt(Follow(a), 2)
  <1> DEFINE called == [a EXCEPT !.method = "call", !.speaks = Latest, !.header = Latest,
                                 !.body = Latest]
  <1>1. /\ a \in AskType /\ a.method = "call" /\ a.header = a.body /\ a.header # NoVersion
        /\ a.header = Latest \/ a.knew # "handshake"
    BY DEF Attempt
  <1>2. Gate(a) = "unsupported version" /\ ~Supported(a.header)
    BY <1>1 DEF Gate, Requested
  <1>3. a.knew # "handshake"
    BY <1>1, <1>2, LatestIsSpoken
  <1>4. Follow(a) = called
    BY <1>2 DEF Follow
  <1>5. /\ called \in AskType /\ called.method = "call" /\ called.knew = a.knew
        /\ called.header = Latest /\ called.body = Latest
    BY <1>1, LatestIsSpoken DEF AskType
  <1> HIDE DEF called
  <1>6. QED
    BY <1>3, <1>4, <1>5, LatestIsSpoken DEF Attempt

\* Attempts holds at first
LEMMA InitAttempts == Init => Attempts
  <1> SUFFICES ASSUME Init PROVE Attempts
    OBVIOUS
  <1>1. call = "none" /\ refusals = 0 /\ told.is = {}
    BY DEF Init, DispatchInit, Nothing, Error
  <1>2. QED
    BY <1>1 DEF Attempts, Refused

\* and each step keeps it: a refusal says which field was wrong, and the client
\* follows it.
LEMMA NextAttempts == Met /\ Known /\ Attempts /\ [Next]_vars => Attempts'
  <1> SUFFICES ASSUME Met, Known, Attempts, [Next]_vars PROVE Attempts'
    OBVIOUS
  <1>1. Known' /\ (Past => Past')
    BY NextKnown, PastStays
  <1>2. CASE UNCHANGED dispatch
    BY <1>1, <1>2 DEF dispatch, Attempts, Refused
  <1>3. ASSUME NEW b \in Backends, BackendDies(b) PROVE Attempts'
    BY <1>1, <1>3 DEF BackendDies, Attempts, Refused
  <1>4. ASSUME NEW a \in setting.asks, stage \in {"admitted", "listing"}, Post(a) PROVE Attempts'
    <2>1. a \in FirstAsks
      BY <1>4, AsksAssumption DEF Met
    <2>2. /\ call = "none" /\ call' = "posted" /\ ask' = a
          /\ UNCHANGED <<told, refusals>>
      BY <1>4 DEF Post
    <2>3. Attempt(a, 0)
      BY <2>1 DEF FirstAsks, Attempt
    <2>4. Past'
      BY <1>1, <1>4 DEF Past
    <2>5. QED
      BY <2>2, <2>3, <2>4 DEF Attempts, Refused
  <1>5. CASE GateRefuses
    <2>1. /\ call = "posted" /\ call' = "answered" /\ Gate(ask) # "pass"
          /\ told'.is = {Gate(ask)} /\ refusals' = refusals + 1 /\ ask' = ask
      BY <1>5 DEF GateRefuses, Answer, Error
    <2>2. Attempt(ask, refusals) /\ refusals \in 0..2 /\ Past'
      BY <1>1, <2>1 DEF Attempts
    <2>3. refusals # 2
      BY <2>1, <2>2, ThirdPasses
    <2>4. Gate(ask) \in Refusals
      BY <2>1, GateAnswers
    <2>5. refusals' \in 0..2 /\ refusals' # 0 /\ refusals' - 1 = refusals
      BY <2>1, <2>2, <2>3
    <2>6. Refused' /\ Gate(ask') # "pass" /\ told'.is = {Gate(ask')}
      BY <2>1, <2>4 DEF Refused
    <2>7. Attempt(ask, refusals' - 1)
      BY <2>2, <2>5
    <2>8. QED
      BY <2>1, <2>2, <2>5, <2>6, <2>7 DEF Attempts
  <1>6. CASE Repost
    <2>1. /\ told.is \cap (Refusals \ {"method removed"}) # {}
          /\ ask' = Follow(ask) /\ call' = "posted" /\ told'.is = {} /\ refusals' = refusals
      BY <1>6 DEF Repost, Nothing, Error
    <2>2. Refused
      BY <2>1 DEF Refused
    <2>3. /\ Gate(ask) # "pass" /\ told.is = {Gate(ask)} /\ refusals # 0 /\ call # "none"
          /\ Attempt(ask, refusals - 1) /\ refusals \in 0..2
      BY <2>2 DEF Attempts
    <2>4. Gate(ask) # "method removed"
      BY <2>1, <2>3
    <2>5. \/ refusals = 1 /\ refusals - 1 = 0
          \/ refusals = 2 /\ refusals - 1 = 1
      BY <2>3
    <2>6. Attempt(ask', refusals)
      BY <2>1, <2>3, <2>4, <2>5, FollowsOnce, FollowsTwice
    <2>7. ~Refused' /\ Past'
      BY <1>1, <2>1, <2>3 DEF Refused, Attempts
    <2>8. QED
      BY <2>1, <2>3, <2>6, <2>7 DEF Attempts
  <1>7. CASE \/ NotRouted(Ids) \/ Routed(Ids) \/ PoolRefuses \/ CallReaches \/ CallStarts
             \/ CallStarted \/ CallStartFails \/ CallReturns \/ Classified
             \/ \E how \in {"missing", "refusal"} : CallRefused(how)
             \/ \E how \in {"closed", "broken pipe"} : CallBreaks(how)
    <2>1. UNCHANGED <<ask, refusals>> /\ call' \notin {"none", "posted"}
          /\ call \notin {"none", "answered"}
      BY <1>7 DEF NotRouted, Routed, PoolRefuses, CallReaches, CallStarts, CallStarted,
                  CallStartFails, CallLetsGo, CallReturns, Classified, CallRefused, CallBreaks,
                  NotServed, Answer
    <2>2. call = "posted" => Gate(ask) = "pass"
      BY <1>7 DEF NotRouted, Routed, PoolRefuses, CallReaches, CallStarts, CallStarted,
                  CallStartFails, CallLetsGo, CallReturns, Classified, CallRefused, CallBreaks
    <2>3. told.is = {} /\ ~Refused
      BY <2>1 DEF Attempts, Refused
    <2>4. Gate(ask) = "pass" /\ Attempt(ask, refusals)
      BY <2>1, <2>2, <2>3 DEF Attempts
    <2>5. call' # "answered" => UNCHANGED told
      BY <1>7 DEF NotRouted, Routed, PoolRefuses, CallReaches, CallStarts, CallStarted,
                  CallStartFails, CallLetsGo, CallReturns, Classified, CallRefused, CallBreaks,
                  NotServed, Answer
    <2>6. ~Refused'
      <3>1. CASE NotRouted(Ids)
        BY <3>1 DEF NotRouted, Answer, RoutingError, Refused, Refusals
      <3>2. CASE ~NotRouted(Ids)
        <4>1. call = "posted" => target' # {}
          BY <1>7, <3>2 DEF Routed, PoolRefuses, CallReaches, CallStarts, CallStarted,
                  CallStartFails, CallLetsGo, CallReturns, Classified, CallRefused, CallBreaks
        <4>2. call # "posted" => UNCHANGED target /\ target # {}
          <5>1. call # "posted" => UNCHANGED target
            BY <1>7, <3>2 DEF Routed, PoolRefuses, CallReaches, CallStarts, CallStarted,
                  CallStartFails, CallLetsGo, CallReturns, Classified, CallRefused, CallBreaks
          <5>2. QED
            BY <5>1, <2>1 DEF Known
        <4>3. target' # {}
          BY <4>1, <4>2
        <4>4. call' = "answered" => ~Refused'
          BY <1>1, <4>3 DEF Known, Untouched
        <4>5. QED
          BY <4>4, <2>3, <2>5 DEF Refused
      <3>3. QED
        BY <3>1, <3>2
    <2>7. QED
      BY <1>1, <2>1, <2>3, <2>4, <2>5, <2>6 DEF Attempts
  <1>8. QED
    BY <1>2, <1>3, <1>4, <1>5, <1>6, <1>7, DispatchSteps DEF Calls

\* So these invariants always hold.
LEMMA AttemptsAlways == Spec => [](Met /\ Known /\ Attempts)
  BY InitMet, NextMet, InitKnown, NextKnown, InitAttempts, NextAttempts, PTL DEF Spec

\* What a request that the gate has let through looks like.
LEMMA Negotiated ==
  ASSUME Known, Attempts, target # {} \/ told.is \cap RoutingErrors # {}
  PROVE  /\ ask.method = "call" /\ Supported(ask.header) /\ Versions(ask) = {ask.header}
         /\ ask.knew = "handshake" => refusals = 1
         /\ ask \in AskType /\ call # "none"
  <1>1. ~Refused
    <2>1. SUFFICES ASSUME Refused PROVE FALSE
      OBVIOUS
    <2>2. target = {} /\ told.is = {Gate(ask)} /\ Gate(ask) # "pass"
      BY <2>1 DEF Attempts, Known, Untouched
    <2>3. Gate(ask) \in Refusals
      BY <2>2, GateAnswers
    <2>4. QED
      BY <2>2, <2>3 DEF Refusals, RoutingErrors
  <1>2. call \notin {"none", "posted"}
    BY DEF Known, Untouched, Attempts
  <1>3. Gate(ask) = "pass" /\ Attempt(ask, refusals) /\ refusals \in 0..2
    BY <1>1, <1>2 DEF Attempts
  <1>4. /\ ask.method \notin {"initialize", "removed"} /\ ask.header # NoVersion
        /\ ask.body \in {NoVersion, ask.header} /\ Supported(Requested(ask))
    BY <1>3 DEF Gate
  <1>5. ask \in AskType /\ ask.method = "call"
    BY <1>3, <1>4 DEF Attempt, AskType
  <1>6. Supported(ask.header) /\ Versions(ask) = {ask.header}
    BY <1>4 DEF Requested, Versions
  <1>7. ask.knew = "handshake" => refusals = 1
    <2>1. refusals # 0 => refusals = 1 \/ refusals = 2
      BY <1>3
    <2>2. QED
      BY <2>1, <1>3, <1>5 DEF Attempt
  <1>8. QED
    BY <1>2, <1>5, <1>6, <1>7

\* Whatever revisions clients name and speak: a refusal is right, nothing that should
\* be refused gets through, and nobody is refused three times.
THEOREM NegotiatesHolds == Spec => []Negotiates
  <1>1. ASSUME Known, Attempts PROVE Negotiates
    <2>1. refusals <= 2
      BY <1>1 DEF Attempts
    <2>2. ASSUME told.is = {"unsupported version"}
          PROVE  /\ ask.method = "call"
                 /\ \E v \in Versions(ask) : Versions(ask) = {v} /\ ~Supported(v)
      <3>1. Refused
        BY <2>2 DEF Refused, Refusals
      <3>2. Gate(ask) = "unsupported version" /\ Attempt(ask, refusals - 1)
        BY <2>2, <3>1, <1>1 DEF Attempts
      <3>3. ask.method = "call"
        BY <3>2, GateAnswers DEF Attempt, AskType
      <3>4. /\ ask.header # NoVersion /\ ask.body \in {NoVersion, ask.header}
            /\ ~Supported(Requested(ask))
        BY <3>2 DEF Gate
      <3>5. Versions(ask) = {ask.header} /\ ~Supported(ask.header)
        BY <3>4 DEF Versions, Requested
      <3>6. QED
        BY <3>3, <3>5
    <2>3. QED
      BY <2>1, <2>2, <1>1, Negotiated DEF Negotiates
  <1>2. QED
    BY <1>1, AttemptsAlways, PTL

-----------------------------------------------------------------------------
(* Where a call was led.                                                   *)

\* The servers of a request that has been let in do not change under its calls.
RoutedRight ==
    /\ target # {} => \E r \in Routes(Ids, ask) : target = {r.backend} /\ own = r.own
    /\ told.is \cap RoutingErrors # {} => Routes(Ids, ask) = {}

\* RoutedRight holds at first
LEMMA InitRoutedRight == Init => RoutedRight
  <1> SUFFICES ASSUME Init PROVE RoutedRight
    OBVIOUS
  <1>1. target = {} /\ told.is = {}
    BY DEF Init, DispatchInit, Nothing, Error
  <1>2. QED
    BY <1>1 DEF RoutedRight

\* No routing error is told of a call that was led somewhere.
LEMMA ToldOnce ==
  ASSUME Known, Attempts, target # {}
  PROVE  told.is \cap RoutingErrors = {} /\ ~Refused /\ call \notin {"none", "posted"}
  <1>1. call \notin {"none", "posted"}
    BY DEF Known, Untouched
  <1>2. ~Refused
    BY DEF Attempts, Known, Untouched
  <1>3. CASE call = "answered"
    BY <1>1, <1>2, <1>3 DEF Known, ToldRight, Refused
  <1>4. CASE call # "answered"
    BY <1>1, <1>2, <1>4 DEF Attempts
  <1>5. QED
    BY <1>1, <1>2, <1>3, <1>4

\* and each step keeps it.
LEMMA NextRoutedRight == Met /\ Known /\ Attempts /\ RoutedRight /\ [Next]_vars => RoutedRight'
  <1> SUFFICES ASSUME Met, Known, Attempts, RoutedRight, [Next]_vars PROVE RoutedRight'
    OBVIOUS
  <1> DEFINE Leads == \E r \in Routes(Ids, ask) : target = {r.backend} /\ own = r.own
  <1>1. Known' /\ Attempts'
    BY NextKnown, NextAttempts
  <1>2. call # "none" => UNCHANGED Ids
    BY PastStays DEF Attempts, Ids
  <1>3. CASE UNCHANGED dispatch
    <2>1. CASE call = "none"
      <3>1. target' = {} /\ told'.is = {}
        BY <1>3, <2>1 DEF Known, Untouched, Attempts, dispatch
      <3>2. QED
        BY <3>1 DEF RoutedRight
    <2>2. CASE call # "none"
      <3>1. UNCHANGED <<Ids, ask, target, own, told>>
        BY <1>2, <1>3, <2>2 DEF dispatch
      <3>2. QED
        BY <3>1 DEF RoutedRight, Routes, RoutingErrors
    <2>3. QED
      BY <2>1, <2>2
  <1>4. CASE /\ UNCHANGED request
             /\ \/ \E b \in Backends : BackendDies(b)
                \/ \E a \in setting.asks : Post(a)
                \/ Calls(Ids)
    <2>1. UNCHANGED Ids
      BY <1>4 DEF request, Ids
    <2>2. ASSUME target' # {} PROVE Leads'
      <3>1. CASE Routed(Ids)
        BY <2>1, <3>1 DEF Routed, Routes
      <3>2. CASE ~Routed(Ids)
        <4>1. UNCHANGED target
          BY <1>4, <3>2 DEF Calls, BackendDies, Post, GateRefuses, Repost, NotRouted, PoolRefuses,
             CallReaches, CallStarts, CallStarted, CallStartFails, CallLetsGo, CallReturns,
             CallRefused, CallBreaks, Classified
        <4>2. call \notin {"none", "posted"} /\ ~Refused
          BY <2>2, <4>1, ToldOnce
        <4>3. ~Repost /\ \A a \in setting.asks : ~Post(a)
          BY <4>2 DEF Repost, Refused, Post
        <4>4. UNCHANGED <<ask, own>>
          BY <1>4, <3>2, <4>3 DEF Calls, BackendDies, GateRefuses, NotRouted, PoolRefuses,
             CallReaches, CallStarts, CallStarted, CallStartFails, CallLetsGo, CallReturns,
             CallRefused, CallBreaks, Classified
        <4>5. QED
          BY <2>1, <2>2, <4>1, <4>4 DEF RoutedRight, Routes
      <3>3. QED
        BY <3>1, <3>2
    <2>3. ASSUME told'.is \cap RoutingErrors # {} PROVE Routes(Ids, ask)' = {}
      <3>1. target' = {} /\ ~Routed(Ids)
        <4>1. target' = {}
          <5>1. SUFFICES ASSUME target' # {} PROVE FALSE
            OBVIOUS
          <5>2. call' \notin {"none", "posted"} /\ ~Refused'
            BY <1>1, <5>1 DEF Attempts, Known, Untouched
          <5>3. CASE call' = "answered"
            BY <1>1, <2>3, <5>1, <5>2, <5>3 DEF Known, ToldRight, Refused, RoutingErrors
          <5>4. CASE call' # "answered"
            BY <1>1, <2>3, <5>2, <5>4 DEF Attempts
          <5>5. QED
            BY <5>3, <5>4
        <4>2. QED
          BY <4>1 DEF Routed
      <3>2. CASE NotRouted(Ids)
        BY <2>1, <3>2 DEF NotRouted, Routes
      <3>3. CASE ~NotRouted(Ids)
        <4>1. target = {}
          BY <1>4, <3>1 DEF Calls, BackendDies, Post, GateRefuses, Repost, NotRouted, PoolRefuses,
             CallReaches, CallStarts, CallStarted, CallStartFails, CallLetsGo, CallReturns,
             CallRefused, CallBreaks, Classified
        <4>2. call \in {"none", "posted", "answered"}
          BY <4>1 DEF Known
        <4>3. ~GateRefuses /\ ~Repost
          <5>1. ASSUME GateRefuses PROVE FALSE
            <6>1. told'.is = {Gate(ask)} /\ Gate(ask) # "pass"
              BY <5>1 DEF GateRefuses, Answer, Error
            <6>2. QED
              BY <6>1, <2>3, GateAnswers DEF Refusals, RoutingErrors
          <5>2. ASSUME Repost PROVE FALSE
            BY <2>3, <5>2 DEF Repost, Nothing, Error
          <5>3. QED
            BY <5>1, <5>2
        <4>4. UNCHANGED told /\ (ask' = ask \/ call = "none")
          BY <1>4, <3>1, <3>3, <4>2, <4>3 DEF Calls, BackendDies, Post, PoolRefuses,
             CallReaches, CallStarts, CallStarted, CallStartFails, CallLetsGo, CallReturns,
             CallRefused, CallBreaks, Classified
        <4>5. UNCHANGED <<told, ask>>
          BY <2>3, <4>4 DEF Attempts
        <4>6. QED
          BY <2>1, <2>3, <4>5 DEF RoutedRight, Routes, RoutingErrors
      <3>4. QED
        BY <3>2, <3>3
    <2>4. QED
      BY <2>2, <2>3 DEF RoutedRight
  <1>5. QED
    BY <1>3, <1>4, DispatchSteps

-----------------------------------------------------------------------------
(* What a header has obtained.                                             *)

\* Judged twice, before the header was applied and after; the client's scopes have
\* only grown since.
Admitted ==
    /\ scopes \subseteq Scopes
    /\ servers # <<>> =>
         LET d == setting.deployment
             h == setting.header
         IN /\ servers = Resolved(d, h) /\ Usable(servers)
            /\ CheckResolved(d, servers, h) = "ok"
            /\ Demands(d, h) \subseteq scopes \cap OfferedScopes(d)

\* Admitted holds at first
LEMMA InitAdmitted == Init => Admitted
  BY SettingsAssumption DEF SettingsAssumption, Init, Admitted

\* A header that passes demands only what the client has and the deployment offers.
LEMMA PassesWithin ==
  ASSUME NEW s \in Settings, NEW have, CheckHeader(s.deployment, s.header, have) = "ok"
  PROVE  Demands(s.deployment, s.header) \subseteq have \cap OfferedScopes(s.deployment)
  <1> DEFINE d == s.deployment
             h == s.header
  <1>1. CASE h.form = "none"
    <2>1. ToSet(h.servers) = {}
      BY <1>1, SettingsAssumption DEF SettingsAssumption, ToSet
    <2>2. QED
      BY <2>1 DEF Demands
  <1>2. CASE h.form # "none"
    <2>1. ~AsksTooMuch(d, h) /\ Missing(d, h, have) = {}
      BY <1>2 DEF CheckHeader
    <2>2. ASSUME NEW m \in Demands(d, h)
          PROVE  m \in have \cap OfferedScopes(d)
      <3>1. m \in have /\ m \in Scopes
        BY <2>1, <2>2 DEF Missing, Demands
      <3>2. ~(Rank(m) > Rank(d.mode))
        BY <2>1, <2>2 DEF AsksTooMuch
      <3>3. Rank(m) \in Nat /\ Rank(d.mode) \in Nat
        BY <3>1, RankIsNat, ScopesAreModes, SettingsAssumption DEF SettingsAssumption
      <3>4. Rank(m) <= Rank(d.mode)
        BY <3>2, <3>3
      <3>5. QED
        BY <3>1, <3>4 DEF OfferedScopes
    <2>3. QED
      BY <2>2
  <1>3. QED
    BY <1>1, <1>2

\* and each step keeps it.
LEMMA NextAdmitted == Met /\ Admitted /\ [Next]_vars => Admitted'
  <1> SUFFICES ASSUME Met, Admitted, [Next]_vars PROVE Admitted'
    OBVIOUS
  <1> DEFINE d == setting.deployment
             h == setting.header
  <1>1. UNCHANGED setting
    BY RequestSteps
  <1>2. CASE UNCHANGED <<scopes, servers>>
    BY <1>1, <1>2 DEF Admitted
  <1>3. CASE Admit
    <2>1. UNCHANGED scopes /\ servers' = Resolved(d, h) /\ Verdict = "ok"
      BY <1>3 DEF Admit, client
    <2>2. /\ CheckHeader(d, h, scopes) = "ok" /\ Usable(Resolved(d, h))
          /\ CheckResolved(d, Resolved(d, h), h) = "ok"
      BY <2>1 DEF Verdict
    <2>3. Demands(d, h) \subseteq scopes \cap OfferedScopes(d)
      BY <2>2, PassesWithin DEF Met
    <2>4. QED
      BY <1>1, <2>1, <2>2, <2>3 DEF Admitted
  <1>4. CASE StepUp
    <2>1. UNCHANGED servers /\ scopes' = scopes \cup Missing(d, h, scopes)
      BY <1>4 DEF StepUp
    <2>2. Missing(d, h, scopes) \subseteq Scopes
      BY DEF Missing, Demands
    <2>3. QED
      BY <1>1, <2>1, <2>2 DEF Admitted
  <1>5. CASE Send \/ Authorize \/ Unauthorized \/ BadHeader \/ Challenge \/ Refuse \/ ServeItself
             \/ SurfaceBegins \/ SurfaceDone
    BY <1>2, <1>5 DEF Send, Authorize, Unauthorized, BadHeader, Challenge, Refuse, ServeItself,
                      SurfaceBegins, SurfaceDone, client
  <1>6. QED
    BY <1>2, <1>3, <1>4, <1>5, RequestSteps DEF client, request

\* What the deployments' servers are, and what a header makes of them.
LEMMA DeployedAreServers ==
  ASSUME NEW s \in Settings
  PROVE  /\ s.deployment.servers \in Seq(ServersOf(Backends))
         /\ \A i \in DOMAIN s.deployment.servers, k \in EnvKeys :
              s.deployment.servers[i].env[k] # "header"
  <1>1. s.deployment.servers \in Seq(DeployedOf(Backends))
    BY SettingsAssumption DEF SettingsAssumption
  <1>2. ASSUME NEW v \in DeployedOf(Backends)
        PROVE  v \in ServersOf(Backends) /\ \A k \in EnvKeys : v.env[k] # "header"
    <2>1. v.env \in [EnvKeys -> {"none", "base"}]
      BY DEF DeployedOf
    <2>2. v.env \in [EnvKeys -> {"none", "base", "header"}]
      BY <2>1
    <2>3. v \in ServersOf(Backends)
      BY <2>2 DEF DeployedOf, ServersOf, ArgsValues, Eras
    <2>4. QED
      BY <2>1, <2>3
  <1>3. \A i \in DOMAIN s.deployment.servers : s.deployment.servers[i] \in DeployedOf(Backends)
    BY <1>1
  <1>4. s.deployment.servers \in Seq(ServersOf(Backends))
    BY <1>1, <1>2
  <1>5. QED
    BY <1>2, <1>3, <1>4

\* The servers of an admitted request are the deployment's, patched by the header.
LEMMA AdmittedServers ==
  ASSUME Met, Admitted
  PROVE  /\ servers \in Seq(ServersOf(Backends)) /\ Ids \subseteq Backends
         /\ servers # <<>> => Layered(setting.deployment, setting.header, servers)
  <1> DEFINE d == setting.deployment
             h == setting.header
  <1>1. CASE servers = <<>>
    <2>1. ToSet(servers) = {}
      BY <1>1 DEF ToSet
    <2>2. servers \in Seq(ServersOf(Backends))
      BY <1>1
    <2>3. QED
      BY <1>1, <2>1, <2>2 DEF Ids, IdsOf
  <1>2. CASE servers # <<>>
    <2>1. servers = Resolved(d, h)
      BY <1>2 DEF Admitted
    <2>2. h.servers \in Seq(PatchesOf(Backends))
      BY SettingsAssumption DEF SettingsAssumption, Met
    <2>3. servers \in Seq(ServersOf(Backends)) /\ Layered(d, h, servers)
      BY <2>1, <2>2, DeployedAreServers, ResolvedIsLayered DEF Met
    <2>4. \A i \in DOMAIN servers : servers[i].id \in Backends
      <3>1. \A i \in DOMAIN servers : servers[i] \in ServersOf(Backends)
        BY <2>3
      <3>2. QED
        BY <3>1 DEF ServersOf
    <2>5. QED
      BY <2>3, <2>4 DEF Ids, IdsOf, ToSet
  <1>3. QED
    BY <1>1, <1>2

\* Whatever a deployment permits and whatever headers ask for, one patch over the
\* other: nobody obtains more than the mode and the scopes allow.
THEOREM WithinPrivilegesHolds == Spec => []WithinPrivileges
  <1>1. ASSUME Met, Admitted PROVE WithinPrivileges
    <2> DEFINE d == setting.deployment
               h == setting.header
    <2> SUFFICES ASSUME servers # <<>>
                 PROVE  /\ IdsOf(d.servers) \subseteq Ids
                        /\ \A s \in ToSet(servers) :
                             /\ d.allow # {} => s.command \in d.allow
                             /\ \A k \in d.deny : s.env[k] # "header"
                             /\ IF s.id \notin IdsOf(d.servers) THEN Permitted("define-new")
                                ELSE \A base \in ToSet(d.servers) :
                                       base.id = s.id => Differs(s, base)
      BY DEF WithinPrivileges
    <2>1. /\ Usable(servers) /\ CheckResolved(d, servers, h) = "ok"
          /\ \A m \in Demands(d, h) : Permitted(m)
      BY <1>1 DEF Admitted, Permitted
    <2>2. Layered(d, h, servers) /\ servers \in Seq(ServersOf(Backends))
      BY <1>1, AdmittedServers
    <2>3. d.servers \in Seq(ServersOf(Backends)) /\ d.deny \subseteq EnvKeys
      BY <1>1, DeployedAreServers, SettingsAssumption DEF SettingsAssumption, Met
    <2>4. /\ DOMAIN servers = 1..Len(servers) /\ Len(servers) \in Nat
          /\ DOMAIN d.servers = 1..Len(d.servers) /\ Len(d.servers) \in Nat
          /\ Len(d.servers) <= Len(servers)
      BY <2>2, <2>3 DEF Layered
    <2>5. \A i \in DOMAIN d.servers : i \in DOMAIN servers /\ i <= Len(d.servers)
      BY <2>4
    <2>6. \A i \in DOMAIN d.servers : servers[i].id = d.servers[i].id
      BY <2>2, <2>5 DEF Layered
    <2>7. IdsOf(d.servers) \subseteq Ids
      BY <2>5, <2>6 DEF Ids, IdsOf, ToSet
    <2>8. ASSUME NEW i \in DOMAIN servers
          PROVE  /\ d.allow # {} => servers[i].command \in d.allow
                 /\ \A k \in d.deny : servers[i].env[k] # "header"
                 /\ IF servers[i].id \notin IdsOf(d.servers) THEN Permitted("define-new")
                    ELSE \A base \in ToSet(d.servers) :
                           base.id = servers[i].id => Differs(servers[i], base)
      <3>1. d.allow # {} => servers[i].command \in d.allow
        BY <2>1 DEF CheckResolved, ToSet
      <3>2. ASSUME NEW k \in d.deny PROVE servers[i].env[k] # "header"
        <4>1. \A patch \in ToSet(h.servers) : k \notin UNION patch.env
          <5>1. \A patch \in ToSet(h.servers) : (UNION patch.env) \cap d.deny = {}
            BY <2>1 DEF CheckResolved
          <5>2. ASSUME NEW patch \in ToSet(h.servers), k \in UNION patch.env PROVE FALSE
            <6>1. (UNION patch.env) \cap d.deny = {}
              BY <5>1
            <6>2. QED
              BY <3>2, <5>2, <6>1
          <5>3. QED
            BY <5>2
        <4>2. QED
          BY <2>2, <2>3, <3>2, <4>1 DEF Layered
      <3>3. CASE servers[i].id \notin IdsOf(d.servers)
        <4>1. ~(i <= Len(d.servers))
          <5>1. i <= Len(d.servers) => i \in DOMAIN d.servers
            BY <2>4
          <5>2. QED
            BY <2>6, <3>3, <5>1 DEF IdsOf, ToSet
        <4>2. "define-new" \in Demands(d, h)
          BY <2>2, <4>1 DEF Layered
        <4>3. QED
          BY <2>1, <3>1, <3>2, <3>3, <4>2
      <3>4. CASE servers[i].id \in IdsOf(d.servers)
        <4>1. i <= Len(d.servers)
          BY <2>2, <3>4 DEF Layered
        <4>2. i \in DOMAIN d.servers
          BY <2>4, <4>1
        <4>3. Differs(servers[i], d.servers[i])
          BY <2>1, <2>2, <4>1 DEF Layered, Differs
        <4>4. ASSUME NEW j \in DOMAIN d.servers, d.servers[j].id = servers[i].id
              PROVE  j = i
          BY <2>1, <2>5, <2>6, <4>4 DEF Usable
        <4>5. \A base \in ToSet(d.servers) : base.id = servers[i].id => Differs(servers[i], base)
          BY <4>3, <4>4 DEF ToSet
        <4>6. QED
          BY <3>1, <3>2, <3>4, <4>5
      <3>5. QED
        BY <3>3, <3>4
    <2>9. QED
      BY <2>7, <2>8 DEF ToSet
  <1>2. QED
    BY <1>1, InitMet, NextMet, InitAdmitted, NextAdmitted, PTL DEF Spec

-----------------------------------------------------------------------------
(* What a client is shown leads back to where it came from.                *)

\* The separator is a text.
LEMMA TextsOfSeparator == Separator \in Seq(Characters)
  <1>1. 1 \in DOMAIN Separator /\ Separator[1] = "_"
    BY DEF Separator
  <1>2. "_" \in Characters
    BY <1>1, CharactersAssumption DEF CharactersAssumption, ToSet
  <1>3. \A c \in Characters : <<c, c>> \in Seq(Characters)
    OBVIOUS
  <1>4. QED
    BY <1>2, <1>3 DEF Separator

\* RouteInverts, for the characters of this module.
LEMMA RouteInvertsHere ==
  \A ids \in SUBSET Seq(Characters) : \A id \in ids : \A name \in Seq(Characters) :
    /\ name # <<>>
    /\ \A longer \in ids : Owns(longer, Qualify(id, name)) => Len(longer) <= Len(id)
    => /\ Route(ids, Qualify(id, name)) = {id}
       /\ OwnName(id, Qualify(id, name)) = name
  <1> SUFFICES ASSUME NEW ids \in SUBSET Seq(Characters), NEW id \in ids,
                      NEW name \in Seq(Characters), name # <<>>,
                      \A longer \in ids : Owns(longer, Qualify(id, name)) => Len(longer) <= Len(id)
               PROVE  /\ Route(ids, Qualify(id, name)) = {id}
                      /\ OwnName(id, Qualify(id, name)) = name
    OBVIOUS
  <1> QED
    BY TextsOfSeparator, RouteInverts

\* A name leads to the backend it was made with, if that is one of the deployment's,
\* and otherwise nowhere.
LEMMA NameLeadsBack ==
  ASSUME NEW ids \in SUBSET Backends, NEW a \in AskType, a.form = "name", Reversible(ids, a)
  PROVE  /\ Route(ids, Shown(a)) = {a.backend} \cap ids
         /\ a.backend \in ids => OwnName(a.backend, Shown(a)) = a.entry
  <1> DEFINE q == Qualify(a.backend, a.entry)
  <1>1. /\ Shown(a) = q /\ a.entry # <<>> /\ ~OwnedByOther(ids, a)
        /\ a.backend \in Seq(Characters) /\ a.entry \in Seq(Characters)
        /\ ids \in SUBSET Seq(Characters)
    BY BackendsAssumption DEF BackendsAssumption, Shown, Reversible, Meant, AskType
  <1> HIDE DEF q
  <1>2. CASE a.backend \in ids
    <2>1. ASSUME NEW longer \in ids, Owns(longer, q) PROVE Len(longer) <= Len(a.backend)
      <3>1. Len(longer) \in Nat /\ Len(a.backend) \in Nat
        BY <1>1
      <3>2. longer # a.backend => ~(Len(longer) > Len(a.backend))
        BY <1>1, <1>2, <2>1 DEF OwnedByOther
      <3>3. QED
        BY <3>1, <3>2
    <2>2. Route(ids, q) = {a.backend} /\ OwnName(a.backend, q) = a.entry
      <3> DEFINE id == a.backend
                 name == a.entry
      <3>1. /\ ids \in SUBSET Seq(Characters) /\ id \in ids
            /\ name \in Seq(Characters) /\ name # <<>>
            /\ \A longer \in ids : Owns(longer, Qualify(id, name)) => Len(longer) <= Len(id)
        BY <1>1, <1>2, <2>1 DEF q
      <3> HIDE DEF id, name
      <3>2. Route(ids, Qualify(id, name)) = {id} /\ OwnName(id, Qualify(id, name)) = name
        BY <3>1, RouteInvertsHere
      <3>3. QED
        BY <3>2 DEF q, id, name
    <2>3. QED
      BY <1>1, <1>2, <2>2
  <1>3. CASE a.backend \notin ids
    BY <1>1, <1>3 DEF OwnedByOther, Route
  <1>4. QED
    BY <1>2, <1>3

\* A URI, or what a template was expanded to, leads to the backend it was made with.
LEMMA URILeadsBack ==
  ASSUME NEW a \in AskType, NEW ids, a.form # "name", Reversible(ids, a)
  PROVE  UnwrapURI(Shown(a)) = {[backend |-> a.backend, own |-> Meant(a)]}
  <1>1. /\ a.backend \in Seq(Characters) /\ a.entry \in Seq(Characters)
        /\ a.value \in Seq(Characters) /\ a.form \in {"name", "resource", "template"}
    BY DEF AskType
  <1>2. /\ a.backend # <<>> /\ ToSet(a.backend) \cap Reserved = {} /\ Meant(a) # <<>>
        /\ a.form = "template" =>
             /\ ToSet(a.value) \cap Reserved = {}
             /\ \A i \in DOMAIN a.entry : Inside(a.entry, i) => a.entry[i] \notin {"?", "#"}
    BY DEF Reversible, Plain
  <1>3. Reserved \cup Bytes \subseteq Characters
    BY CharactersAssumption DEF CharactersAssumption
  <1>4. Meant(a) \in Seq(Characters) /\ Shown(a) = WrapURI(a.backend, Meant(a))
    <2>1. CASE a.form = "template"
      BY <1>1, <1>2, <1>3, <2>1, ExpandCommutes, SMTT(30) DEF Meant, Shown
    <2>2. CASE a.form = "resource"
      BY <1>1, <2>2 DEF Meant, Shown
    <2>3. QED
      BY <1>1, <2>1, <2>2
  <1>5. QED
    BY <1>1, <1>2, <1>3, <1>4, UnwrapInverts

\* Both, as what a request is routed by.
LEMMA ShownLeadsBack ==
  ASSUME NEW ids \in SUBSET Backends, NEW a \in AskType, Reversible(ids, a)
  PROVE  /\ \A r \in Routes(ids, a) : r.backend = a.backend /\ r.own = Meant(a)
         /\ a.backend \in ids => Routes(ids, a) # {}
  <1>1. CASE a.form = "name"
    <2>1. Meant(a) = a.entry
      BY <1>1 DEF Meant
    <2>2. Routes(ids, a)
            = {[backend |-> b, own |-> OwnName(b, Shown(a))] : b \in Route(ids, Shown(a))}
      BY <1>1 DEF Routes
    <2>3. /\ Route(ids, Shown(a)) = {a.backend} \cap ids
          /\ a.backend \in ids => OwnName(a.backend, Shown(a)) = a.entry
      BY <1>1, NameLeadsBack
    <2>4. \A r \in Routes(ids, a) : r.backend = a.backend /\ r.own = a.entry
      BY <2>2, <2>3
    <2>5. a.backend \in ids => Routes(ids, a) # {}
      BY <2>2, <2>3
    <2>6. QED
      BY <2>1, <2>4, <2>5
  <1>2. CASE a.form # "name"
    <2>1. Routes(ids, a) = {r \in UnwrapURI(Shown(a)) : r.backend \in ids}
      BY <1>2 DEF Routes
    <2>2. UnwrapURI(Shown(a)) = {[backend |-> a.backend, own |-> Meant(a)]}
      BY <1>2, URILeadsBack
    <2> DEFINE one == [backend |-> a.backend, own |-> Meant(a)]
    <2>3. one.backend = a.backend /\ one.own = Meant(a)
      OBVIOUS
    <2> HIDE DEF one
    <2>4. \A r : r \in Routes(ids, a) <=> r = one /\ one.backend \in ids
      BY <2>1, <2>2, Zenon DEF one
    <2>5. QED
      BY <2>3, <2>4
  <1>3. QED
    BY <1>1, <1>2

\* Whatever backends, names, URIs, templates and values there are: what a client was
\* shown of an entry leads to the backend that has it, under the backend's own name,
\* and an error that denies the entry is the answer only where the backend is not one
\* of the deployment's.
THEOREM EntryFoundHolds == Spec => []EntryFound
  <1>1. ASSUME Met, Admitted, Known, Attempts, RoutedRight PROVE EntryFound
    <2> SUFFICES ASSUME call # "none", Reversible(Ids, ask)
                 PROVE  /\ told.is \cap RoutingErrors # {} => ask.backend \notin Ids
                        /\ target # {} => target = {ask.backend} /\ own = Meant(ask)
      BY DEF EntryFound, LeadsBack
    <2>1. Ids \in SUBSET Backends
      BY <1>1, AdmittedServers
    <2>2. ASSUME told.is \cap RoutingErrors # {} PROVE ask.backend \notin Ids
      <3>1. ask \in AskType
        BY <1>1, <2>2, Negotiated
      <3>2. QED
        BY <1>1, <2>1, <2>2, <3>1, ShownLeadsBack DEF RoutedRight
    <2>3. ASSUME target # {} PROVE target = {ask.backend} /\ own = Meant(ask)
      <3>1. ask \in AskType
        BY <1>1, <2>3, Negotiated
      <3>2. PICK r \in Routes(Ids, ask) : target = {r.backend} /\ own = r.own
        BY <1>1, <2>3 DEF RoutedRight
      <3>3. QED
        BY <2>1, <3>1, <3>2, ShownLeadsBack
    <2>4. QED
      BY <2>2, <2>3
  <1>2. QED
    BY <1>1, InitMet, NextMet, InitKnown, NextKnown, InitAttempts, NextAttempts, InitRoutedRight,
       NextRoutedRight, InitAdmitted, NextAdmitted, PTL DEF Spec

-----------------------------------------------------------------------------
(* What the goroutines of a listing have gathered.                         *)

\* What one goroutine has gathered, and the answer they have to wait for.
Listing == [failed : BOOLEAN, ttl : Nat, entries : [ListSet -> Seq(Seq(Characters))]]
Collected == stage = "answered" /\ answer \in {"surface", "names clash"}
Found == [b \in Ids |-> listings[b]]

\* The lifetime l keeps is the one that b offered with its tools, once b has told any.
LifetimeKept(l, b) ==
    /\ l.ttl \in {0, Lifetime(setting.offers[b].ttl["tools"])}
    /\ l.ttl = 0 => l.entries["tools"] = <<>>

\* The types of what the goroutines keep.
GatherTypeOK ==
    /\ phase \in [Backends -> {"none", "waiting", "starting", "asking", "over"}]
    /\ next \in [Backends -> DOMAIN Lists]
    /\ expired \subseteq Backends
    /\ listings \in [Backends -> Listing]

\* Goroutines only run while the request waits for them; only those of its backends
\* do, and those that failed are over.
Gathered ==
    /\ \A b \in Backends : phase[b] # "none" => b \in Ids /\ (stage = "listing" \/ Collected)
    /\ \A b \in Backends : phase[b] \notin {"none", "over"} => stage = "listing"
    /\ faults = {b \in Backends : listings[b].failed}
    /\ \A b \in faults : phase[b] = "over"
    /\ \A b \in Backends : LifetimeKept(listings[b], b)
    /\ Collected => (answer = "surface" <=> Assembles(Found))

\* An offer of zero is replaced by the default.
LEMMA LifetimeIsPositive ==
  ASSUME NEW ttl \in Int
  PROVE  Lifetime(ttl) \in Nat \ {0}
  BY LifetimesAssumption DEF LifetimesAssumption, Lifetime

\* What backends offer has its type.
LEMMA OffersAre ==
  ASSUME NEW s \in Settings, NEW b \in Backends
  PROVE  /\ s.offers[b].ttl \in [ListSet -> Int]
         /\ s.offers[b].entries \in [ListSet -> Seq(Seq(Characters))]
  <1>1. s.offers[b] \in [entries : [ToSet(Lists) -> Seq(Seq(Characters))],
                         ttl : [ToSet(Lists) -> Int]]
    BY OffersAssumption DEF OffersAssumption
  <1>2. QED
    BY <1>1 DEF ListSet

\* Tools are among the lists.
LEMMA ToolsListed == "tools" \in ListSet
  BY ListsAssumption DEF ListsAssumption, ListSet

\* Gathered holds at first
LEMMA InitGathered == Init => GatherTypeOK /\ Gathered
  <1> SUFFICES ASSUME Init PROVE GatherTypeOK /\ Gathered
    OBVIOUS
  <1>1. /\ phase = [b \in Backends |-> "none"] /\ next = [b \in Backends |-> 1]
        /\ expired = {} /\ listings = [b \in Backends |-> NoListing] /\ faults = {}
        /\ stage = "client"
    BY DEF Init
  <1>2. 1 \in DOMAIN Lists
    <2>1. Len(Lists) \in Nat /\ Len(Lists) # 0 /\ DOMAIN Lists = 1..Len(Lists)
      BY ListsAssumption DEF ListsAssumption, ToSet
    <2>2. QED
      BY <2>1
  <1>3. NoListing \in Listing
    <2>1. [l \in ListSet |-> <<>>] \in [ListSet -> Seq(Seq(Characters))]
      OBVIOUS
    <2>2. QED
      BY <2>1 DEF NoListing, Listing, ListSet
  <1>4. NoListing.failed = FALSE /\ NoListing.ttl = 0 /\ NoListing.entries["tools"] = <<>>
    BY ToolsListed DEF NoListing, ListSet
  <1> HIDE DEF NoListing
  <1>5. GatherTypeOK
    BY <1>1, <1>2, <1>3 DEF GatherTypeOK
  <1>6. Gathered
    BY <1>1, <1>4 DEF Gathered, Collected, LifetimeKept
  <1>7. QED
    BY <1>5, <1>6

\* One goroutine's step: it fails, or it has heard of one more list, or neither.
LEMMA GatherSteps ==
  ASSUME Met, GatherTypeOK, NEW b \in Backends, Gathers(b)
  PROVE  /\ UNCHANGED <<setting, client, request, expired>>
         /\ phase[b] \in {"waiting", "starting", "asking"}
         /\ next' \in [Backends -> DOMAIN Lists]
         /\ \E p \in {"waiting", "starting", "asking", "over"}, l \in Listing :
              /\ phase' = [phase EXCEPT ![b] = p]
              /\ listings' = [listings EXCEPT ![b] = l]
              /\ LifetimeKept(listings[b], b) => LifetimeKept(l, b)
              /\ \/ l.failed /\ p = "over" /\ faults' = faults \cup {b}
                 \/ l.failed = listings[b].failed /\ faults' = faults
  <1> DEFINE Steps(p, l) ==
               /\ phase' = [phase EXCEPT ![b] = p]
               /\ listings' = [listings EXCEPT ![b] = l]
               /\ LifetimeKept(listings[b], b) => LifetimeKept(l, b)
               /\ \/ l.failed /\ p = "over" /\ faults' = faults \cup {b}
                  \/ l.failed = listings[b].failed /\ faults' = faults
             Phases == {"waiting", "starting", "asking", "over"}
  <1>1. UNCHANGED <<setting, client, request, expired>>
    BY DEF Gathers, Reach, Start, Started, ListRefused, StartFails, ListFails, ListAnswered,
           ListAbsent, Fail, NextList
  <1>2. phase[b] \in {"waiting", "starting", "asking"}
    BY DEF Gathers, Reach, Start, Started, ListRefused, StartFails, ListFails, ListAnswered,
           ListAbsent
  <1>3. listings[b] \in Listing /\ listings = [listings EXCEPT ![b] = listings[b]]
    BY DEF GatherTypeOK
  <1>4. CASE Reach(b) \/ Start(b) \/ Started(b)
    <2>1. UNCHANGED <<next, listings, faults>> /\ \E p \in Phases : Move(b, p)
      BY <1>4 DEF Reach, Start, Started
    <2>2. PICK p \in Phases : Move(b, p)
      BY <2>1
    <2>3. Steps(p, listings[b])
      BY <1>3, <2>1, <2>2 DEF Move
    <2>4. QED
      BY <1>1, <1>2, <1>3, <2>1, <2>3 DEF GatherTypeOK
  <1>5. CASE ListRefused(b) \/ StartFails(b) \/ ListFails(b)
    <2> DEFINE l == [listings[b] EXCEPT !.failed = TRUE]
    <2>1. /\ UNCHANGED next /\ listings' = [listings EXCEPT ![b].failed = TRUE]
          /\ faults' = faults \cup {b} /\ Move(b, "over")
      BY <1>5 DEF ListRefused, StartFails, ListFails, Fail
    <2>2. listings' = [listings EXCEPT ![b] = l]
      BY <2>1
    <2>3. /\ l \in Listing /\ l.failed
          /\ l.ttl = listings[b].ttl /\ l.entries = listings[b].entries
      BY <1>3 DEF Listing
    <2> HIDE DEF l
    <2>4. Steps("over", l)
      BY <2>1, <2>2, <2>3 DEF Move, LifetimeKept
    <2>5. QED
      BY <1>1, <1>2, <2>1, <2>3, <2>4 DEF GatherTypeOK
  <1>6. CASE ListAnswered(b) \/ ListAbsent(b)
    <2>1. PICK p \in Phases : Move(b, p)
      BY <1>6 DEF ListAnswered, ListAbsent, NextList
    <2>2. next' \in [Backends -> DOMAIN Lists]
      <3>1. next[b] \in 1..Len(Lists) /\ Len(Lists) \in Nat /\ DOMAIN Lists = 1..Len(Lists)
        BY ListsAssumption DEF ListsAssumption, GatherTypeOK
      <3>2. CASE next[b] = Len(Lists)
        BY <1>6, <3>2 DEF ListAnswered, ListAbsent, NextList, GatherTypeOK
      <3>3. CASE next[b] # Len(Lists)
        <4>1. next[b] + 1 \in DOMAIN Lists
          BY <3>1, <3>3
        <4>2. next' = [next EXCEPT ![b] = next[b] + 1]
          BY <1>6, <3>3 DEF ListAnswered, ListAbsent, NextList
        <4>3. QED
          BY <4>1, <4>2 DEF GatherTypeOK
      <3>4. QED
        BY <3>2, <3>3
    <2>3. \E l \in Listing : Steps(p, l)
      <3>1. CASE ListAbsent(b)
        <4>1. UNCHANGED <<listings, faults>>
          BY <3>1 DEF ListAbsent
        <4>2. Steps(p, listings[b])
          BY <1>3, <2>1, <4>1 DEF Move
        <4>3. QED
          BY <1>3, <4>2
      <3>2. CASE ListAnswered(b)
        <4> DEFINE offer == setting.offers[b]
                   list == Lists[next[b]]
                   ttl == IF list = "tools" THEN Lifetime(offer.ttl[list]) ELSE listings[b].ttl
                   l == [listings[b] EXCEPT !.entries[list] = offer.entries[list], !.ttl = ttl]
        <4>1. offer.ttl \in [ListSet -> Int] /\ offer.entries \in [ListSet -> Seq(Seq(Characters))]
          BY OffersAre DEF Met
        <4>2. list \in ListSet
          BY DEF GatherTypeOK, ListSet, ToSet
        <4>3. /\ ttl \in Nat
              /\ list = "tools" => ttl = Lifetime(offer.ttl["tools"]) /\ ttl # 0
              /\ list # "tools" => ttl = listings[b].ttl
          <5>1. Lifetime(offer.ttl[list]) \in Nat \ {0}
            BY <4>1, <4>2, LifetimeIsPositive
          <5>2. QED
            BY <1>3, <5>1 DEF Listing
        <4>4. UNCHANGED faults /\ listings' = [listings EXCEPT ![b] = l]
          BY <3>2 DEF ListAnswered
        <4>5. offer.entries[list] \in Seq(Seq(Characters)) /\ listings[b] \in Listing
          BY <1>3, <4>1, <4>2
        <4> HIDE DEF ttl, list, offer
        <4>6. /\ l \in Listing /\ l.ttl = ttl /\ l.failed = listings[b].failed
              /\ list # "tools" => l.entries["tools"] = listings[b].entries["tools"]
          BY <4>2, <4>3, <4>5, ToolsListed DEF Listing
        <4> HIDE DEF l
        <4>7. Steps(p, l)
          BY <2>1, <4>3, <4>4, <4>6 DEF Move, offer, LifetimeKept
        <4>8. QED
          BY <4>6, <4>7
      <3>3. QED
        BY <1>6, <3>1, <3>2
    <2>4. QED
      BY <1>1, <1>2, <2>2, <2>3
  <1>7. QED
    BY <1>4, <1>5, <1>6 DEF Gathers

\* and each step keeps it.
LEMMA NextGathered ==
  Met /\ GatherTypeOK /\ Gathered /\ [Next]_vars => GatherTypeOK' /\ Gathered'
  <1> SUFFICES ASSUME Met, GatherTypeOK, Gathered, [Next]_vars
               PROVE  GatherTypeOK' /\ Gathered'
    OBVIOUS
  <1> DEFINE Phases == {"none", "waiting", "starting", "asking", "over"}
  <1>1. UNCHANGED setting
    BY RequestSteps
  <1>2. CASE UNCHANGED <<client, request>> /\ UNCHANGED gathering
    <2>1. UNCHANGED <<stage, answer, servers, phase, next, expired, listings, faults>>
      BY <1>2 DEF request, gathering
    <2>2. UNCHANGED <<Ids, Found, Collected>>
      BY <2>1 DEF Ids, Found, Collected
    <2>3. GatherTypeOK'
      BY <2>1 DEF GatherTypeOK, Listing, ListSet
    <2>4. Gathered'
      BY <1>1, <2>1, <2>2 DEF Gathered, Assembles, LifetimeKept
    <2>5. QED
      BY <2>3, <2>4
  <1>3. ASSUME NEW b \in Backends, TimeoutExpires(b) PROVE GatherTypeOK' /\ Gathered'
    <2>1. /\ UNCHANGED <<stage, answer, servers, phase, next, listings, faults>>
          /\ expired' = expired \cup {b}
      BY <1>3 DEF TimeoutExpires, request
    <2>2. UNCHANGED <<Ids, Found, Collected>>
      BY <2>1 DEF Ids, Found, Collected
    <2>3. GatherTypeOK'
      BY <2>1 DEF GatherTypeOK, Listing, ListSet
    <2>4. Gathered'
      BY <1>1, <2>1, <2>2 DEF Gathered, Assembles, LifetimeKept
    <2>5. QED
      BY <2>3, <2>4
  <1>4. ASSUME NEW b \in Backends, Gathers(b) PROVE GatherTypeOK' /\ Gathered'
    <2>1. /\ UNCHANGED <<setting, client, request, expired>>
          /\ phase[b] \in {"waiting", "starting", "asking"}
          /\ next' \in [Backends -> DOMAIN Lists]
      BY <1>4, GatherSteps
    <2>2. PICK p \in {"waiting", "starting", "asking", "over"}, l \in Listing :
              /\ phase' = [phase EXCEPT ![b] = p]
              /\ listings' = [listings EXCEPT ![b] = l]
              /\ LifetimeKept(listings[b], b) => LifetimeKept(l, b)
              /\ \/ l.failed /\ p = "over" /\ faults' = faults \cup {b}
                 \/ l.failed = listings[b].failed /\ faults' = faults
      BY <1>4, GatherSteps
    <2>3. stage = "listing" /\ b \in Ids /\ b \notin faults
      BY <2>1 DEF Gathered
    <2>4. UNCHANGED <<stage, answer, servers, Ids>>
      BY <2>1 DEF request, Ids
    <2>5. GatherTypeOK'
      BY <2>1, <2>2 DEF GatherTypeOK, Listing, ListSet
    <2>6. /\ phase'[b] = p /\ listings'[b] = l
          /\ \A c \in Backends \ {b} : phase'[c] = phase[c] /\ listings'[c] = listings[c]
      BY <2>2 DEF GatherTypeOK
    <2>7. ~Collected' /\ stage' = "listing"
      BY <2>3, <2>4 DEF Collected
    <2>8. \A c \in Backends : phase'[c] # "none" => c \in Ids' /\ (stage' = "listing" \/ Collected')
      BY <2>3, <2>4, <2>6, <2>7 DEF Gathered
    <2>9. faults' = {c \in Backends : listings'[c].failed}
      BY <2>2, <2>3, <2>6 DEF Gathered
    <2>10. \A c \in faults' : phase'[c] = "over"
      BY <2>2, <2>3, <2>6 DEF Gathered
    <2>11. \A c \in Backends : LifetimeKept(listings[c], c)'
      BY <1>1, <2>2, <2>6 DEF Gathered, LifetimeKept
    <2>12. Gathered'
      BY <2>7, <2>8, <2>9, <2>10, <2>11 DEF Gathered
    <2>13. QED
      BY <2>5, <2>12
  <1>5. CASE SurfaceBegins
    <2>1. /\ stage = "admitted" /\ stage' = "listing"
          /\ phase' = [b \in Backends |-> IF b \in Ids THEN "waiting" ELSE "none"]
          /\ UNCHANGED <<answer, servers, next, expired, listings, faults>>
      BY <1>5 DEF SurfaceBegins
    <2>2. \A b \in Backends : phase[b] = "none"
      BY <2>1 DEF Gathered, Collected
    <2>3. faults = {}
      BY <2>2 DEF Gathered
    <2>4. UNCHANGED Ids /\ ~Collected'
      BY <2>1 DEF Ids, Collected
    <2>5. GatherTypeOK'
      BY <2>1 DEF GatherTypeOK, Listing, ListSet
    <2>6. Gathered'
      BY <1>1, <2>1, <2>3, <2>4 DEF Gathered, LifetimeKept
    <2>7. QED
      BY <2>5, <2>6
  <1>6. CASE SurfaceDone
    <2>1. /\ stage = "listing" /\ stage' = "answered" /\ \A b \in Ids : phase[b] = "over"
          /\ answer' = IF Assembles(Found) THEN "surface" ELSE "names clash"
          /\ UNCHANGED <<servers, phase, next, expired, listings, faults>>
      BY <1>6 DEF SurfaceDone, Respond, gathering, Found
    <2>2. UNCHANGED <<Ids, Found>> /\ Collected'
      BY <2>1 DEF Ids, Found, Collected
    <2>3. GatherTypeOK'
      BY <2>1 DEF GatherTypeOK, Listing, ListSet
    <2>4. \A b \in Backends : phase'[b] \in {"none", "over"}
      BY <2>1 DEF Gathered
    <2>5. answer' = "surface" <=> Assembles(Found')
      BY <2>1, <2>2
    <2>6. Gathered'
      BY <1>1, <2>1, <2>2, <2>4, <2>5 DEF Gathered, Assembles, LifetimeKept
    <2>7. QED
      BY <2>3, <2>6
  <1>7. CASE Send \/ Authorize \/ StepUp \/ Unauthorized \/ BadHeader \/ Challenge \/ Refuse
             \/ Admit \/ ServeItself
    <2>1. UNCHANGED <<phase, next, expired, listings, faults>>
      BY <1>7 DEF Send, Authorize, StepUp, Unauthorized, BadHeader, Challenge, Refuse, Admit,
                  ServeItself, gathering
    <2>2. stage # "listing" /\ ~Collected
      BY <1>7 DEF Send, Authorize, StepUp, Unauthorized, BadHeader, Challenge, Refuse, Admit,
                  ServeItself, Collected
    <2>3. ~Collected'
      BY <1>7 DEF Send, Authorize, StepUp, Unauthorized, BadHeader, Challenge, Refuse, Admit,
                  ServeItself, Collected, Respond
    <2>4. \A b \in Backends : phase'[b] = "none"
      BY <2>1, <2>2 DEF Gathered
    <2>5. GatherTypeOK'
      BY <2>1 DEF GatherTypeOK, Listing, ListSet
    <2>6. Gathered'
      BY <1>1, <2>1, <2>3, <2>4 DEF Gathered, LifetimeKept
    <2>7. QED
      BY <2>5, <2>6
  <1>8. CASE \/ \E b \in Backends : Dispatches(BackendDies(b))
             \/ \E a \in setting.asks : Ask(a)
             \/ Dispatches(Calls(Ids))
    BY <1>2, <1>8 DEF Dispatches, Ask
  <1>9. CASE UNCHANGED vars
    BY <1>2, <1>9 DEF vars
  <1>10. QED
    BY <1>3, <1>4, <1>5, <1>6, <1>7, <1>8, <1>9 DEF Next, Admission

-----------------------------------------------------------------------------
(* What a listing tells.                                                   *)

\* As long as all backends answer, the surface's lifetime is no longer than that of any
\* listing in it that has one.
LEMMA ShortestOffer ==
  ASSUME NEW ids, NEW found, DOMAIN found = ids,
         \A b \in ids : ~found[b].failed /\ found[b].ttl \in Nat,
         NEW b \in ids, found[b].ttl # 0
  PROVE  Lifetime(TTL(found)) <= found[b].ttl
  <1> DEFINE offers == {found[id].ttl : id \in Answered(found)} \ {0}
  <1>1. Answered(found) = ids /\ Unavailable(found) = {}
    BY DEF Answered, Unavailable
  <1>2. offers \in SUBSET Nat /\ found[b].ttl \in offers /\ 0 \notin offers
    BY <1>1
  <1>3. TTL(found) = IF offers = {} THEN 0 ELSE Min(offers)
    BY <1>1 DEF TTL
  <1> HIDE DEF offers
  <1>4. TTL(found) = Min(offers)
    BY <1>2, <1>3
  <1>5. Min(offers) \in offers /\ \A m \in offers : Min(offers) <= m
    BY <1>2, MinIsLeast
  <1>6. TTL(found) \in Nat /\ TTL(found) # 0 /\ TTL(found) <= found[b].ttl
    BY <1>2, <1>4, <1>5
  <1>7. Lifetime(TTL(found)) = TTL(found)
    BY <1>6 DEF Lifetime
  <1>8. QED
    BY <1>6, <1>7

\* Every entry of a named list is claimed.
LEMMA EntryIsClaim ==
  ASSUME NEW found, NEW b \in Answered(found), NEW l \in Named, NEW i \in DOMAIN found[b].entries[l]
  PROVE  [id |-> b, kind |-> l, at |-> i] \in Claims(found)
  <1> DEFINE Of(id, kind) == [id : {id}, kind : {kind}, at : DOMAIN found[id].entries[kind]]
  <1>1. [id |-> b, kind |-> l, at |-> i] \in Of(b, l)
    OBVIOUS
  <1>2. Claims(found) = UNION {Of(id, kind) : id \in Answered(found), kind \in Named}
    BY DEF Claims
  <1> HIDE DEF Of
  <1>3. QED
    BY <1>1, <1>2

\* On a surface that has been assembled, what the client sees tells entries apart.
LEMMA AssembledIsDistinct ==
  ASSUME NEW found, Assembles(found), NEW l \in Named, NEW e \in Entries(found, l),
         NEW f \in Entries(found, l), e # f
  PROVE  Qualify(e[1], e[2]) # Qualify(f[1], f[2])
  <1>1. PICK b \in Answered(found) : \E name \in ToSet(found[b].entries[l]) : e = <<b, name>>
    BY DEF Entries
  <1>2. PICK c \in Answered(found) : \E name \in ToSet(found[c].entries[l]) : f = <<c, name>>
    BY DEF Entries
  <1>3. PICK i \in DOMAIN found[b].entries[l] : e = <<b, found[b].entries[l][i]>>
    BY <1>1 DEF ToSet
  <1>4. PICK j \in DOMAIN found[c].entries[l] : f = <<c, found[c].entries[l][j]>>
    BY <1>2 DEF ToSet
  <1> DEFINE x == [id |-> b, kind |-> l, at |-> i]
             y == [id |-> c, kind |-> l, at |-> j]
  <1>5. x \in Claims(found) /\ y \in Claims(found)
    BY <1>1, <1>2, <1>3, <1>4, EntryIsClaim
  <1>6. /\ x.kind = y.kind /\ NameOf(found, x) = Qualify(e[1], e[2])
        /\ NameOf(found, y) = Qualify(f[1], f[2])
    BY <1>3, <1>4 DEF NameOf
  <1>7. x # y
    <2>1. b # c \/ i # j
      BY <1>3, <1>4
    <2>2. x.id = b /\ x.at = i /\ y.id = c /\ y.at = j
      OBVIOUS
    <2>3. QED
      BY <2>1, <2>2
  <1> HIDE DEF x, y
  <1>8. QED
    BY <1>5, <1>6, <1>7 DEF Assembles, Collides

\* A surface that cannot be assembled has entries, of a backend that has answered.
LEMMA ClashesAnswered ==
  ASSUME NEW found, ~Assembles(found)
  PROVE  Answered(found) # {}
  <1>1. Claims(found) # {}
    BY DEF Assembles, Collides, TooLong
  <1>2. QED
    BY <1>1 DEF Claims

\* Whatever the backends offer and however many of them fail: a listing says what is
\* missing and tells its entries apart; it is kept for DegradedTTL if a backend is
\* missing, and otherwise no longer than was offered with any list of tools in it.
THEOREM SurfaceRightHolds == Spec => []SurfaceRight
  <1>1. ASSUME Met, Admitted, GatherTypeOK, Gathered PROVE SurfaceRight
    <2>1. Ids \subseteq Backends
      BY <1>1, AdmittedServers
    <2>2. DOMAIN Found = Ids /\ \A b \in Ids : Found[b] = listings[b] /\ Found[b] \in Listing
      BY <1>1, <2>1 DEF Found, GatherTypeOK
    <2>3. faults \subseteq Ids /\ faults = {b \in Ids : Found[b].failed}
      <3>1. \A b \in faults : b \in Backends /\ phase[b] = "over"
        BY <1>1 DEF Gathered
      <3>2. faults \subseteq Ids
        BY <1>1, <3>1 DEF Gathered
      <3>3. QED
        BY <1>1, <2>1, <2>2, <3>2 DEF Gathered
    <2>4. Unavailable(Found) = faults /\ Answered(Found) = Ids \ faults
      BY <2>2, <2>3 DEF Unavailable, Answered
    <2>5. ASSUME stage = "answered", answer = "names clash" PROVE faults # Ids
      <3>1. ~Assembles(Found)
        BY <1>1, <2>5 DEF Gathered, Collected
      <3>2. QED
        BY <2>4, <3>1, ClashesAnswered
    <2>6. ASSUME faults # {} PROVE Lifetime(TTL(Found)) = DegradedTTL
      BY <2>4, <2>6, LifetimesAssumption DEF LifetimesAssumption, TTL, Lifetime
    <2>7. ASSUME faults = {}, NEW b \in Ids, ToldTools(b)
          PROVE  Lifetime(TTL(Found)) <= Lifetime(setting.offers[b].ttl["tools"])
      <3>1. \A c \in Ids : ~Found[c].failed
        BY <2>2, <2>3, <2>7
      <3>2. \A c \in Ids : Found[c].ttl \in Nat
        BY <2>2 DEF Listing
      <3>3. Found[b].ttl # 0 /\ Found[b].ttl = Lifetime(setting.offers[b].ttl["tools"])
        BY <1>1, <2>1, <2>2, <2>7 DEF Gathered, LifetimeKept, ToldTools
      <3>4. Lifetime(TTL(Found)) <= Found[b].ttl
        BY <2>2, <3>1, <3>2, <3>3, ShortestOffer
      <3>5. QED
        BY <3>3, <3>4
    <2>8. ASSUME stage = "answered", answer = "surface"
          PROVE  \A l \in Named : \A e, f \in Entries(Found, l) :
                   e # f => Qualify(e[1], e[2]) # Qualify(f[1], f[2])
      <3>1. Assembles(Found)
        BY <1>1, <2>8 DEF Gathered, Collected
      <3>2. QED
        BY <3>1, AssembledIsDistinct
    <2>9. QED
      BY <2>4, <2>5, <2>6, <2>7, <2>8 DEF SurfaceRight, Found
  <1>2. QED
    BY <1>1, InitMet, NextMet, InitAdmitted, NextAdmitted, InitGathered, NextGathered, PTL DEF Spec

-----------------------------------------------------------------------------
(* Types.                                                                  *)

\* What the other invariants leave open of TypeOK.
RestTypeOK ==
    /\ token \in BOOLEAN
    /\ stage \in {"client", "arrived", "admitted", "listing", "answered"}
    /\ answer \in {"none", "unauthorized", "bad request", "forbidden", "challenge",
                   "served", "surface", "names clash"}
    /\ heard \in {"nothing", "result", "missing", "refusal"}
    /\ session \in [Backends -> {"none", "up"}]
    /\ lock \in [Backends -> {"free", "listing", "call"}]

\* The rest of the types hold at first
LEMMA InitRestTypeOK == Init => RestTypeOK
  BY SettingsAssumption DEF SettingsAssumption, Init, DispatchInit, RestTypeOK

\* and each step keeps them.
LEMMA NextRestTypeOK == RestTypeOK /\ [Next]_vars => RestTypeOK'
  <1> SUFFICES ASSUME RestTypeOK, [Next]_vars PROVE RestTypeOK'
    OBVIOUS
  <1>1. CASE \/ Send \/ Authorize \/ StepUp \/ Admission \/ ServeItself \/ SurfaceBegins
             \/ SurfaceDone
    <2>1. UNCHANGED <<heard, session, lock>>
      BY <1>1 DEF Send, Authorize, StepUp, Admission, Unauthorized, BadHeader, Challenge, Refuse,
                  Admit, ServeItself, SurfaceBegins, SurfaceDone, backends, dispatch
    <2>2. /\ token' \in BOOLEAN
          /\ stage' \in {"client", "arrived", "admitted", "listing", "answered"}
          /\ answer' \in {"none", "unauthorized", "bad request", "forbidden", "challenge",
                          "served", "surface", "names clash"}
      BY <1>1 DEF Send, Authorize, StepUp, Admission, Unauthorized, BadHeader, Challenge, Refuse,
                  Admit, ServeItself, SurfaceBegins, SurfaceDone, Respond, RestTypeOK, client
    <2>3. QED
      BY <2>1, <2>2 DEF RestTypeOK
  <1>2. ASSUME NEW b \in Backends, Gathers(b) \/ TimeoutExpires(b) PROVE RestTypeOK'
    <2>1. UNCHANGED <<token, stage, answer, heard>>
      BY <1>2 DEF Gathers, Reach, Start, Started, ListRefused, StartFails, ListFails,
                  ListAnswered, ListAbsent, Fail, NextList, TimeoutExpires, client, request,
                  dispatch
    <2>2. \/ UNCHANGED <<session, lock>>
          \/ lock' = [lock EXCEPT ![b] = "listing"] /\ UNCHANGED session
          \/ lock' = [lock EXCEPT ![b] = "free"] /\ session' = [session EXCEPT ![b] = "up"]
          \/ lock' = [lock EXCEPT ![b] = "free"] /\ UNCHANGED session
      BY <1>2 DEF Gathers, Reach, Start, Started, ListRefused, StartFails, ListFails,
                  ListAnswered, ListAbsent, Fail, NextList, TimeoutExpires, backends
    <2>3. QED
      BY <2>1, <2>2, ZenonT(60) DEF RestTypeOK
  <1>3. CASE /\ UNCHANGED <<client, request>>
             /\ \/ \E b \in Backends : BackendDies(b)
                \/ \E a \in setting.asks : Post(a)
                \/ Calls(Ids)
    <2>1. UNCHANGED <<token, stage, answer>>
      BY <1>3 DEF client, request
    <2>2. heard' \in {"nothing", "result", "missing", "refusal"}
      BY <1>3 DEF RestTypeOK, Calls, BackendDies, Post, GateRefuses, Repost, NotRouted, Routed,
             PoolRefuses, CallReaches, CallStarts, CallStarted, CallStartFails, CallLetsGo,
             CallReturns, CallRefused, CallBreaks, Classified
    <2>3. session' \in [Backends -> {"none", "up"}]
      <3>1. CASE CallStarted
        BY <3>1 DEF RestTypeOK, CallStarted, CallLetsGo
      <3>2. CASE CallStartFails
        BY <3>2 DEF RestTypeOK, CallStartFails, CallLetsGo
      <3>3. CASE Classified
        BY <3>3 DEF RestTypeOK, Classified
      <3>4. CASE \E b \in Backends : BackendDies(b)
        BY <3>4 DEF RestTypeOK, BackendDies
      <3>5. CASE /\ ~CallStarted /\ ~CallStartFails /\ ~Classified
                 /\ \A b \in Backends : ~BackendDies(b)
        <4>1. UNCHANGED session
          BY <1>3, <3>5 DEF Calls, Post, GateRefuses, Repost, NotRouted, Routed, PoolRefuses,
             CallReaches, CallStarts, CallReturns, CallRefused, CallBreaks, backends
        <4>2. QED
          BY <4>1 DEF RestTypeOK
      <3>6. QED
        BY <3>1, <3>2, <3>3, <3>4, <3>5
    <2>4. lock' \in [Backends -> {"free", "listing", "call"}]
      <3>1. CASE CallStarts
        BY <3>1 DEF RestTypeOK, CallStarts
      <3>2. CASE CallLetsGo("up") \/ CallLetsGo("none")
        BY <3>2 DEF RestTypeOK, CallLetsGo
      <3>3. CASE ~CallStarts /\ ~CallLetsGo("up") /\ ~CallLetsGo("none")
        <4>1. UNCHANGED lock
          BY <1>3, <3>3 DEF Calls, BackendDies, Post, GateRefuses, Repost, NotRouted, Routed,
             PoolRefuses, CallReaches, CallStarted, CallStartFails, CallReturns, CallRefused,
             CallBreaks, Classified, backends
        <4>2. QED
          BY <4>1 DEF RestTypeOK
      <3>4. QED
        BY <3>1, <3>2, <3>3
    <2>5. QED
      BY <2>1, <2>2, <2>3, <2>4 DEF RestTypeOK
  <1>4. CASE UNCHANGED vars
    BY <1>4 DEF vars, client, request, backends, dispatch, RestTypeOK
  <1>5. QED
    BY <1>1, <1>2, <1>3, <1>4 DEF Next, Dispatches, Ask

\* There are three scopes, one for every mode but the first.
LEMMA ThreeScopes == IsFiniteSet(Scopes) /\ Cardinality(Scopes) = 3
  <1>1. IsFiniteSet({}) /\ Cardinality({}) = 0
    BY FS_EmptySet
  <1>2. IsFiniteSet({"env-only"}) /\ Cardinality({"env-only"}) = 1
    BY FS_Singleton
  <1> DEFINE Two == {"env-only"} \cup {"override-known"}
  <1>3. IsFiniteSet(Two) /\ Cardinality(Two) = 2
    <2>1. "override-known" \notin {"env-only"}
      OBVIOUS
    <2>2. QED
      BY <1>2, <2>1, FS_AddElement
  <1>4. "define-new" \notin Two /\ Scopes = Two \cup {"define-new"}
    BY DEF Scopes
  <1> HIDE DEF Two
  <1>5. QED
    BY <1>3, <1>4, FS_AddElement

\* A request is led to a backend of the deployment, if anywhere.
LEMMA TargetIsOne ==
  ASSUME Met, Admitted, RoutedRight
  PROVE  target \in SUBSET Backends /\ Cardinality(target) <= 1
  <1>1. CASE target = {}
    <2>1. Cardinality(target) = 0
      BY <1>1, FS_EmptySet
    <2>2. QED
      BY <1>1, <2>1
  <1>2. CASE target # {}
    <2>1. PICK r \in Routes(Ids, ask) : target = {r.backend}
      BY <1>2 DEF RoutedRight
    <2>2. r.backend \in Ids
      BY DEF Routes, Route
    <2>3. Cardinality(target) = 1
      BY <2>1, FS_Singleton
    <2>4. QED
      BY <2>1, <2>2, <2>3, AdmittedServers
  <1>3. QED
    BY <1>1, <1>2

\* Every variable has its type in every reachable state.
THEOREM TypeCorrect == Spec => []TypeOK
  <1>1. ASSUME Met, Known, Attempts, RoutedRight, Admitted, GatherTypeOK, Gathered, RestTypeOK
        PROVE  TypeOK
    <2>1. challenges \in 0..Cardinality(Scopes)
      BY <1>1, ThreeScopes DEF Met
    <2>2. ASSUME NEW s \in ToSet(servers)
          PROVE  s.command \in Commands /\ s.era \in {"kept", "replaced"}
      <3>1. s \in ServersOf(Backends) /\ servers # <<>>
        BY <1>1, AdmittedServers DEF ToSet
      <3>2. s.command # NoCommand /\ s.era # "invalid"
        BY <1>1, <3>1 DEF Admitted, Usable
      <3>3. QED
        BY <3>1, <3>2 DEF ServersOf, Eras
    <2>3. \A b \in Backends : DOMAIN listings[b].entries = ListSet
      BY <1>1 DEF GatherTypeOK, Listing
    <2>4. faults \subseteq Backends
      BY <1>1 DEF Gathered
    <2>5. DispatchTypeOK
      <3>1. refusals \in Nat
        BY <1>1 DEF Attempts
      <3>2. /\ call \in {"none", "posted", "waiting", "starting", "calling", "failed", "answered"}
            /\ gone \in BOOLEAN
        BY <1>1 DEF Known
      <3>3. QED
        BY <1>1, <3>1, <3>2, TargetIsOne DEF RestTypeOK, DispatchTypeOK
    <2>6. QED
      BY <1>1, <2>1, <2>2, <2>3, <2>4, <2>5 DEF TypeOK, Met, Admitted, RestTypeOK, GatherTypeOK
  <1>2. QED
    BY <1>1, InitMet, NextMet, InitKnown, NextKnown, InitAttempts, NextAttempts, InitRoutedRight,
       NextRoutedRight, InitAdmitted, NextAdmitted, InitGathered, NextGathered, InitRestTypeOK,
       NextRestTypeOK, PTL DEF Spec
=============================================================================
