--------------------------- MODULE EraProbeProofs ----------------------------
(***************************************************************************)
(* Proofs about module EraProbe, for any number of probes: that each is    *)
(* decided once and by its own deadline, that a pin is honoured, and that  *)
(* the era which a session reports is the one its client speaks.  What     *)
(* carries them is that an answer the client has got is for a probe that   *)
(* is no longer open, whoever gave it.                                     *)
(***************************************************************************)
EXTENDS EraProbe, FiniteSetTheorems, TLAPS

\* Where the client is in its negotiation, and what it is writing.
Asking ==
    /\ client = "start" => asked = None
    /\ client \in {"probing", "retry"} => asked \in Probes
    /\ client = "retry" => asked < MaxProbes
    /\ client \in {"handshake", "legacy"} => asked = Handshake
    /\ writing = "arming" => client = "probing" /\ era # "legacy"
    /\ writing = "sending" =>
         \/ client = "probing" /\ era # "legacy"
         \/ client = "handshake" /\ era # "modern"
    /\ era = "modern" => client \notin {"handshake", "legacy"}
    /\ returned = "session" => client \in {"modern", "legacy"}

\* The probe under c.mu is the client's; while it is open nobody has answered it.
Open ==
    /\ probeGen <= asked
    /\ era = "legacy" => ~probing /\ probeGen = 0
    /\ client = "probing" /\ era # "legacy" => probeGen = asked
    /\ probing => client \in {"probing", "failed"} /\ probeGen \in Probes
    /\ probing /\ client = "probing" => got = "none"

\* What is, or will be, answered in the backend's place is an error, for a probe
\* that is not open any more.
Closed(n) == era # "legacy" => n <= probeGen /\ ~(probing /\ n = probeGen)
Substitutes ==
    /\ \A i \in DOMAIN injected : injected[i].what = "error" /\ Closed(injected[i].id)
    /\ watch = "injecting" => owed \in Probes /\ Closed(owed)

\* What the backend has written answers what it was sent, and that follows the pin.
Written ==
    /\ era = "legacy" => sent \subseteq {Handshake}
    /\ era = "modern" => sent \subseteq Probes
    /\ \A i \in DOMAIN inbound : inbound[i] # Masked => inbound[i].id \in sent

\* A probe that is open, or yet to come, is undecided.
Verdicts ==
    /\ \A n \in Probes : ruled[n] \in {{}, {"answered"}, {"expired"}}
    /\ \A n \in Probes : n > probeGen => ruled[n] = {}
    /\ probing => ruled[probeGen] = {}
    /\ \A n \in Probes : "expired" \in ruled[n] => n \in fired

\* What has been found out, from the probe to the session.
Found ==
    /\ client = "probing" /\ got = "result" =>
         era # "legacy" /\ (detected = "modern" \/ asked \in fired)
    /\ client = "probing" /\ got = "none" /\ era # "legacy" => probing \/ asked \in fired
    /\ client \in {"start", "probing", "retry", "refused", "modern"} /\ era # "legacy" =>
         detected # "legacy"
    /\ client \in {"handshake", "legacy"} => detected = "legacy"
    /\ client = "modern" => era # "legacy" /\ (detected = "modern" \/ asked \in fired)

IInv == TypeOK /\ Asking /\ Open /\ Substitutes /\ Written /\ Verdicts /\ Found

-----------------------------------------------------------------------------
LEMMA InitIInv == Init => IInv
  <1> SUFFICES ASSUME Init PROVE IInv
    OBVIOUS
  <1> USE EraAssumption DEF EraAssumption, Init, Requests, Probes, Handshake, None
  <1>1. ConnTypeOK /\ SdkTypeOK /\ DeadlineTypeOK
    BY DEF ConnTypeOK, SdkTypeOK, DeadlineTypeOK
  <1>2. WireTypeOK
    BY DEF WireTypeOK
  <1>3. PolicyTypeOK
    <2>1. probing \in BOOLEAN /\ expired \in BOOLEAN /\ mismatch \in BOOLEAN
      OBVIOUS
    <2>2. probeGen \in 0..MaxProbes /\ detected \in {"none", "modern", "legacy"}
      OBVIOUS
    <2>3. QED
      BY <2>1, <2>2 DEF PolicyTypeOK
  <1>4. HistoryTypeOK /\ Verdicts
    BY DEF HistoryTypeOK, Verdicts
  <1>5. Asking /\ Open /\ Written /\ Found
    BY DEF Asking, Open, Written, Found
  <1>6. Substitutes
    BY DEF Substitutes
  <1>7. QED
    BY <1>1, <1>2, <1>3, <1>4, <1>5, <1>6 DEF IInv, TypeOK

\* What each part depends on.
LEMMA Frames ==
  /\ SdkTypeOK /\ UNCHANGED <<client, writing, asked, got, returned>> => SdkTypeOK'
  /\ WireTypeOK /\ UNCHANGED <<sent, answered, inbound, injected>> => WireTypeOK'
  /\ PolicyTypeOK /\ UNCHANGED <<probing, probeGen, expired, detected, mismatch>> => PolicyTypeOK'
  /\ DeadlineTypeOK /\ UNCHANGED <<armed, expiry, watch, owed>> => DeadlineTypeOK'
  /\ HistoryTypeOK /\ UNCHANGED <<ruled, fired>> => HistoryTypeOK'
  /\ ConnTypeOK /\ UNCHANGED <<era, reading, loop, closing>> => ConnTypeOK'
  /\ Asking /\ UNCHANGED <<era, client, writing, asked, returned>> => Asking'
  /\ Open /\ UNCHANGED <<era, client, asked, got, probing, probeGen>> => Open'
  /\ Substitutes /\ UNCHANGED <<era, injected, watch, owed, probing, probeGen>> => Substitutes'
  /\ Written /\ UNCHANGED <<era, sent, inbound>> => Written'
  /\ Verdicts /\ UNCHANGED <<ruled, probing, probeGen, fired>> => Verdicts'
  /\ Found /\ UNCHANGED <<era, client, got, asked, detected, fired, probing>> => Found'
  BY DEF SdkTypeOK, WireTypeOK, PolicyTypeOK, DeadlineTypeOK, HistoryTypeOK, ConnTypeOK, Asking,
     Open, Substitutes, Written, Verdicts, Found, Closed

LEMMA NextIInv == IInv /\ [Next]_vars => IInv'
  <1> SUFFICES ASSUME IInv, [Next]_vars PROVE IInv'
    OBVIOUS
  <1> USE EraAssumption DEF EraAssumption, IInv, TypeOK, Probes, Requests, Handshake, None
  <1>1. CASE SkipProbe
    <2>1. SdkTypeOK'
      BY <1>1 DEF SkipProbe, Ask, NextProbe, SdkTypeOK, Asking
    <2>2. WireTypeOK'
      BY <1>1 DEF SkipProbe, NextProbe, Silent, WireTypeOK, Asking, wire, Answers
    <2>3. PolicyTypeOK'
      BY <1>1 DEF SkipProbe, PolicyTypeOK
    <2>4. Asking'
      BY <1>1 DEF SkipProbe, Ask, NextProbe, Asking
    <2>5. Open'
      BY <1>1 DEF SkipProbe, Ask, NextProbe, SdkTypeOK, Open
    <2>6. Substitutes'
      BY <1>1 DEF SkipProbe, Silent, Substitutes, Closed, deadline
    <2>7. Found'
      BY <1>1 DEF SkipProbe, Ask, Found
    <2>8. DeadlineTypeOK' /\ HistoryTypeOK' /\ ConnTypeOK' /\ Written' /\ Verdicts'
      BY <1>1, Frames DEF SkipProbe, wire, deadline, history
    <2>9. QED
      BY <2>1, <2>2, <2>3, <2>4, <2>5, <2>6, <2>7, <2>8
  <1>2. CASE ArmProbe
    <2>1. NextProbe \in Probes /\ NextProbe > probeGen
      BY <1>2 DEF ArmProbe, NextProbe, PolicyTypeOK, Asking, Open
    <2>2. SdkTypeOK'
      BY <1>2, <2>1 DEF ArmProbe, Ask, SdkTypeOK
    <2>3. PolicyTypeOK'
      <3>1. probing' \in BOOLEAN /\ expired' \in BOOLEAN /\ mismatch' \in BOOLEAN
        BY <1>2 DEF ArmProbe, PolicyTypeOK
      <3>2. probeGen' \in 0..MaxProbes /\ detected' \in {"none", "modern", "legacy"}
        BY <1>2, <2>1 DEF ArmProbe, PolicyTypeOK
      <3>3. QED
        BY <3>1, <3>2 DEF PolicyTypeOK
    <2>4. Asking'
      BY <1>2, <2>1 DEF ArmProbe, Ask, Asking
    <2>5. Open'
      BY <1>2, <2>1 DEF ArmProbe, Ask, Open
    <2>6. Substitutes'
      <3>1. probeGen' > probeGen /\ probeGen \in Nat /\ probeGen' \in Nat
        BY <1>2, <2>1 DEF ArmProbe, PolicyTypeOK
      <3>2. UNCHANGED <<era, injected, watch, owed>> /\ era # "legacy"
        BY <1>2 DEF ArmProbe, deadline
      <3>3. ASSUME NEW n \in Nat, Closed(n) PROVE Closed(n)'
        BY <3>1, <3>2, <3>3 DEF Closed
      <3>4. \A i \in DOMAIN injected : injected[i].id \in Nat
        <4>1. \A i \in DOMAIN injected : injected[i] \in Answers
          BY DEF WireTypeOK
        <4>2. QED
          BY <4>1 DEF Answers
      <3>5. QED
        BY <3>2, <3>3, <3>4 DEF Substitutes
    <2>7. Verdicts'
      BY <1>2, <2>1 DEF ArmProbe, PolicyTypeOK, Closed, Verdicts, history
    <2>8. Found'
      BY <1>2, <2>1 DEF ArmProbe, Ask, Found
    <2>9. WireTypeOK' /\ DeadlineTypeOK' /\ HistoryTypeOK' /\ ConnTypeOK' /\ Written'
      BY <1>2, Frames DEF ArmProbe, wire, deadline, history
    <2>10. QED
      BY <2>1, <2>2, <2>3, <2>4, <2>5, <2>6, <2>7, <2>8, <2>9
  <1>3. CASE ArmDeadline
    <2>1. SdkTypeOK'
      BY <1>3 DEF ArmDeadline, SdkTypeOK
    <2>2. DeadlineTypeOK'
      BY <1>3 DEF ArmDeadline, PolicyTypeOK, DeadlineTypeOK
    <2>3. Asking'
      BY <1>3 DEF ArmDeadline, Asking
    <2>4. WireTypeOK' /\ PolicyTypeOK' /\ HistoryTypeOK' /\ ConnTypeOK' /\ Open' /\ Substitutes'
          /\ Written' /\ Verdicts' /\ Found'
      BY <1>3, Frames DEF ArmDeadline, wire, policy, history
    <2>5. QED
      BY <2>1, <2>2, <2>3, <2>4
  <1>4. CASE Send
    <2>1. SdkTypeOK'
      BY <1>4 DEF Send, SdkTypeOK
    <2>2. WireTypeOK'
      BY <1>4 DEF Send, SdkTypeOK, WireTypeOK, Asking
    <2>3. Asking'
      BY <1>4 DEF Send, Asking
    <2>4. Written'
      BY <1>4 DEF Send, Asking, Written
    <2>5. PolicyTypeOK' /\ DeadlineTypeOK' /\ HistoryTypeOK' /\ ConnTypeOK' /\ Open'
          /\ Substitutes' /\ Verdicts' /\ Found'
      BY <1>4, Frames DEF Send, policy, deadline, history
    <2>6. QED
      BY <2>1, <2>2, <2>3, <2>4, <2>5
  <1>5. CASE WriteHandshake
    <2>1. SdkTypeOK'
      BY <1>5 DEF WriteHandshake, Ask, SdkTypeOK
    <2>2. PolicyTypeOK'
      BY <1>5 DEF WriteHandshake, DetectLegacy, PolicyTypeOK
    <2>3. Asking'
      BY <1>5 DEF WriteHandshake, MayFallBack, Ask, Asking
    <2>4. Open'
      BY <1>5 DEF WriteHandshake, Ask, PolicyTypeOK, Open
    <2>5. Found'
      BY <1>5 DEF WriteHandshake, DetectLegacy, Found
    <2>6. WireTypeOK' /\ DeadlineTypeOK' /\ HistoryTypeOK' /\ ConnTypeOK' /\ Substitutes'
          /\ Written' /\ Verdicts'
      BY <1>5, Frames DEF WriteHandshake, wire, deadline, history
    <2>7. QED
      BY <2>1, <2>2, <2>3, <2>4, <2>5, <2>6
  <1>6. CASE RefuseFallback
    <2>1. SdkTypeOK'
      BY <1>6 DEF RefuseFallback, SdkTypeOK
    <2>2. PolicyTypeOK'
      BY <1>6 DEF RefuseFallback, PolicyTypeOK
    <2>3. Asking'
      BY <1>6 DEF RefuseFallback, Asking
    <2>4. Open'
      BY <1>6 DEF RefuseFallback, Open
    <2>5. Found'
      BY <1>6 DEF RefuseFallback, Found
    <2>6. WireTypeOK' /\ DeadlineTypeOK' /\ HistoryTypeOK' /\ ConnTypeOK' /\ Substitutes'
          /\ Written' /\ Verdicts'
      BY <1>6, Frames DEF RefuseFallback, wire, deadline, history
    <2>7. QED
      BY <2>1, <2>2, <2>3, <2>4, <2>5, <2>6
  <1>7. CASE TakeInjected
    <2>1. SdkTypeOK'
      BY <1>7 DEF TakeInjected, Deliver, SdkTypeOK, WireTypeOK, Substitutes
    <2>2. WireTypeOK'
      BY <1>7 DEF TakeInjected, WireTypeOK, wire
    <2>3. ConnTypeOK'
      BY <1>7 DEF TakeInjected, ConnTypeOK
    <2>4. Open'
      BY <1>7 DEF TakeInjected, Deliver, Open, Substitutes, Closed, policy
    <2>5. Substitutes'
      BY <1>7 DEF TakeInjected, Substitutes, Closed, policy, deadline
    <2>6. Found'
      BY <1>7 DEF TakeInjected, Deliver, WireTypeOK, Substitutes, Found, policy, history
    <2>7. PolicyTypeOK' /\ DeadlineTypeOK' /\ HistoryTypeOK' /\ Asking' /\ Written' /\ Verdicts'
      BY <1>7, Frames DEF TakeInjected, wire, policy, deadline, history
    <2>8. QED
      BY <2>1, <2>2, <2>3, <2>4, <2>5, <2>6, <2>7
  <1>8. ASSUME NEW m \in Answers \cup {Masked}, Refuse(m) PROVE IInv'
    <2>1. WireTypeOK'
      BY <1>8 DEF Refuse, Taken, WireTypeOK
    <2>2. ConnTypeOK'
      BY <1>8 DEF Refuse, Taken, ConnTypeOK
    <2>3. Written'
      BY <1>8 DEF Refuse, Taken, Written
    <2>4. SdkTypeOK' /\ PolicyTypeOK' /\ DeadlineTypeOK' /\ HistoryTypeOK' /\ Asking' /\ Open'
          /\ Substitutes' /\ Verdicts' /\ Found'
      BY <1>8, Frames DEF Refuse, Taken, deadline
    <2>5. QED
      BY <2>1, <2>2, <2>3, <2>4
  <1>9. ASSUME NEW m \in Answers \cup {Masked}, PassOn(m) PROVE IInv'
    <2>1. SdkTypeOK'
      BY <1>9 DEF PassOn, Taken, Deliver, SdkTypeOK, Answers
    <2>2. WireTypeOK'
      BY <1>9 DEF PassOn, Taken, WireTypeOK
    <2>3. ConnTypeOK'
      BY <1>9 DEF PassOn, Taken, ConnTypeOK
    <2>4. Open'
      BY <1>9 DEF PassOn, Taken, AnswersProbe, Deliver, Open
    <2>5. Written'
      BY <1>9 DEF PassOn, Taken, WireTypeOK, Written
    <2>6. Found'
      BY <1>9, SMTT(30) DEF PassOn, Taken, AnswersProbe, Deliver, Asking, Open, Written, Found
    <2>7. PolicyTypeOK' /\ DeadlineTypeOK' /\ HistoryTypeOK' /\ Asking' /\ Substitutes'
          /\ Verdicts'
      BY <1>9, Frames DEF PassOn, Taken, deadline
    <2>8. QED
      BY <2>1, <2>2, <2>3, <2>4, <2>5, <2>6, <2>7
  <1>10. ASSUME NEW m \in Answers \cup {Masked}, ProbeAnswered(m) PROVE IInv'
    <2>1. m.id = probeGen /\ probeGen \in Probes /\ ruled[probeGen] = {} /\ probing
      BY <1>10 DEF ProbeAnswered, AnswersProbe, Verdicts, Open
    <2>2. SdkTypeOK'
      BY <1>10, <2>1 DEF ProbeAnswered, Taken, Deliver, SdkTypeOK, Answers
    <2>3. WireTypeOK'
      BY <1>10, <2>1 DEF ProbeAnswered, Taken, WireTypeOK
    <2>4. PolicyTypeOK'
      BY <1>10, <2>1 DEF ProbeAnswered, Taken, ProbeOver, PolicyTypeOK
    <2>5. HistoryTypeOK'
      BY <1>10, <2>1 DEF ProbeAnswered, Taken, HistoryTypeOK
    <2>6. ConnTypeOK'
      BY <1>10, <2>1 DEF ProbeAnswered, Taken, ConnTypeOK
    <2>7. Open'
      BY <1>10, <2>1 DEF ProbeAnswered, Taken, ProbeOver, Open
    <2>8. Substitutes'
      BY <1>10, <2>1 DEF ProbeAnswered, Taken, Substitutes, Closed, deadline
    <2>9. Written'
      BY <1>10, <2>1 DEF ProbeAnswered, Taken, WireTypeOK, Written
    <2>10. Verdicts'
      <3>1. /\ ruled' = [ruled EXCEPT ![probeGen] = {"answered"}]
            /\ ~probing' /\ UNCHANGED <<probeGen, fired>>
        BY <1>10, <2>1 DEF ProbeAnswered, Taken, ProbeOver
      <3>2. QED
        BY <2>1, <3>1 DEF Verdicts
    <2>11. Found'
      BY <1>10, <2>1 DEF ProbeAnswered, Taken, Deliver, Open, Found, Answers
    <2>12. DeadlineTypeOK' /\ Asking'
      BY <1>10, Frames DEF ProbeAnswered, Taken, deadline
    <2>13. QED
      BY <2>1, <2>2, <2>3, <2>4, <2>5, <2>6, <2>7, <2>8, <2>9, <2>10, <2>11, <2>12
  <1>11. CASE WatchArm
    <2>1. DeadlineTypeOK'
      BY <1>11 DEF WatchArm, DeadlineTypeOK
    <2>2. SdkTypeOK' /\ WireTypeOK' /\ PolicyTypeOK' /\ HistoryTypeOK' /\ ConnTypeOK' /\ Asking'
          /\ Open' /\ Substitutes' /\ Written' /\ Verdicts' /\ Found'
      BY <1>11, Frames DEF WatchArm, sdk, wire, policy, history
    <2>3. QED
      BY <2>1, <2>2
  <1>12. CASE Expire
    <2>1. probing /\ probeGen = expiry => expiry \in Probes /\ ruled[expiry] = {}
      BY <1>12 DEF Verdicts, Open
    <2>2. PolicyTypeOK'
      BY <1>12, <2>1 DEF Expire, PolicyTypeOK
    <2>3. DeadlineTypeOK'
      BY <1>12, <2>1 DEF Expire, Overdue, DeadlineTypeOK
    <2>4. HistoryTypeOK'
      BY <1>12, <2>1 DEF Expire, DeadlineTypeOK, HistoryTypeOK
    <2>5. Open'
      BY <1>12, <2>1 DEF Expire, Open, sdk
    <2>6. Substitutes'
      BY <1>12, <2>1 DEF Expire, Overdue, Substitutes, Closed
    <2>7. Verdicts'
      BY <1>12, <2>1 DEF Expire, Overdue, PolicyTypeOK, HistoryTypeOK, Verdicts
    <2>8. Found'
      BY <1>12, <2>1 DEF Expire, Overdue, Open, Found, sdk
    <2>9. SdkTypeOK' /\ WireTypeOK' /\ ConnTypeOK' /\ Asking' /\ Written'
      BY <1>12, Frames DEF Expire, sdk, wire
    <2>10. QED
      BY <2>1, <2>2, <2>3, <2>4, <2>5, <2>6, <2>7, <2>8, <2>9
  <1>13. CASE Inject
    <2>1. WireTypeOK'
      BY <1>13 DEF Inject, Room, Silent, WireTypeOK, Substitutes, wire, Answers
    <2>2. DeadlineTypeOK'
      BY <1>13 DEF Inject, DeadlineTypeOK
    <2>3. Substitutes'
      BY <1>13 DEF Inject, Silent, Substitutes, Closed, policy
    <2>4. SdkTypeOK' /\ PolicyTypeOK' /\ HistoryTypeOK' /\ ConnTypeOK' /\ Asking' /\ Open'
          /\ Written' /\ Verdicts' /\ Found'
      BY <1>13, Frames DEF Inject, sdk, wire, policy, history
    <2>5. QED
      BY <2>1, <2>2, <2>3, <2>4
  <1>14. CASE GoOn
    <2>1. SdkTypeOK'
      BY <1>14 DEF GoOn, SdkTypeOK
    <2>2. Asking'
      BY <1>14 DEF GoOn, Asking
    <2>3. Open'
      BY <1>14 DEF GoOn, Open, policy
    <2>4. Found'
      BY <1>14 DEF GoOn, Found, policy, history
    <2>5. WireTypeOK' /\ PolicyTypeOK' /\ DeadlineTypeOK' /\ HistoryTypeOK' /\ ConnTypeOK'
          /\ Substitutes' /\ Written' /\ Verdicts'
      BY <1>14, Frames DEF GoOn, wire, policy, deadline, history
    <2>6. QED
      BY <2>1, <2>2, <2>3, <2>4, <2>5
  <1>15. CASE Connected
    <2>1. SdkTypeOK'
      BY <1>15 DEF Connected, SdkTypeOK
    <2>2. Asking'
      BY <1>15 DEF Connected, Asking
    <2>3. WireTypeOK' /\ PolicyTypeOK' /\ DeadlineTypeOK' /\ HistoryTypeOK' /\ ConnTypeOK'
          /\ Open' /\ Substitutes' /\ Written' /\ Verdicts' /\ Found'
      BY <1>15, Frames DEF Connected, wire, policy, deadline, history
    <2>4. QED
      BY <2>1, <2>2, <2>3
  <1>16. CASE ConnectFails
    <2>1. SdkTypeOK'
      BY <1>16 DEF ConnectFails, SdkTypeOK
    <2>2. ConnTypeOK'
      BY <1>16 DEF ConnectFails, ConnTypeOK
    <2>3. Asking'
      BY <1>16 DEF ConnectFails, Asking
    <2>4. Open'
      BY <1>16 DEF ConnectFails, Open, policy
    <2>5. Found'
      BY <1>16 DEF ConnectFails, Found
    <2>6. WireTypeOK' /\ PolicyTypeOK' /\ DeadlineTypeOK' /\ HistoryTypeOK' /\ Substitutes'
          /\ Written' /\ Verdicts'
      BY <1>16, Frames DEF ConnectFails, wire, policy, deadline, history
    <2>7. QED
      BY <2>1, <2>2, <2>3, <2>4, <2>5, <2>6
  <1>17. CASE WatchEnds
    <2>1. DeadlineTypeOK'
      BY <1>17 DEF WatchEnds, DeadlineTypeOK
    <2>2. Substitutes'
      BY <1>17 DEF WatchEnds, Substitutes, Closed, policy
    <2>3. SdkTypeOK' /\ WireTypeOK' /\ PolicyTypeOK' /\ HistoryTypeOK' /\ ConnTypeOK' /\ Asking'
          /\ Open' /\ Written' /\ Verdicts' /\ Found'
      BY <1>17, Frames DEF WatchEnds, sdk, wire, policy, history
    <2>4. QED
      BY <2>1, <2>2, <2>3
  <1>18. ASSUME NEW n \in Requests, NEW what \in {"result", "version", "error"},
               BackendAnswers(n, what)
        PROVE  IInv'
    <2>1. WireTypeOK'
      BY <1>18 DEF BackendAnswers, WireTypeOK, Answers
    <2>2. Written'
      BY <1>18 DEF BackendAnswers, Written
    <2>3. SdkTypeOK' /\ PolicyTypeOK' /\ DeadlineTypeOK' /\ HistoryTypeOK' /\ ConnTypeOK'
          /\ Asking' /\ Open' /\ Substitutes' /\ Verdicts' /\ Found'
      BY <1>18, Frames DEF BackendAnswers, sdk, policy, deadline, history
    <2>4. QED
      BY <2>1, <2>2, <2>3
  <1>19. CASE BackendAsks
    <2>1. WireTypeOK'
      BY <1>19 DEF BackendAsks, WireTypeOK
    <2>2. Written'
      BY <1>19 DEF BackendAsks, Written
    <2>3. SdkTypeOK' /\ PolicyTypeOK' /\ DeadlineTypeOK' /\ HistoryTypeOK' /\ ConnTypeOK'
          /\ Asking' /\ Open' /\ Substitutes' /\ Verdicts' /\ Found'
      BY <1>19, Frames DEF BackendAsks, sdk, policy, deadline, history
    <2>4. QED
      BY <2>1, <2>2, <2>3
  <1>20. CASE Poll \/ ReadEnds \/ CloseCalled \/ LoopEnds \/ CloseReturns
    BY <1>20, Frames
       DEF Poll, ReadEnds, CloseCalled, LoopEnds, CloseReturns, ConnTypeOK, sdk, wire, policy,
           deadline, history
  <1>21. CASE UNCHANGED vars
    BY <1>21, Frames DEF vars, sdk, wire, policy, deadline, history
  <1>22. QED
    BY <1>1, <1>2, <1>3, <1>4, <1>5, <1>6, <1>7, <1>8, <1>9, <1>10, <1>11, <1>12, <1>13, <1>14,
       <1>15, <1>16, <1>17, <1>18, <1>19, <1>20, <1>21
       DEF Next, Write, Read, TakeInbound, Watch

-----------------------------------------------------------------------------
LEMMA Invariance == Spec => []IInv
  BY InitIInv, NextIInv, PTL DEF Spec

\* Every variable has its type, whatever the number of probes.
THEOREM TypeCorrect == Spec => []TypeOK
  <1>1. IInv => TypeOK
    BY DEF IInv
  <1>2. QED
    BY <1>1, Invariance, PTL

\* A probe is decided once, by the backend's answer or by its own deadline: a timer
\* that an earlier probe left behind never decides a later one.
THEOREM OneVerdictHolds == Spec => []OneVerdict
  <1>1. IInv => OneVerdict
    <2> SUFFICES ASSUME IInv, NEW n \in Probes
                 PROVE  Cardinality(ruled[n]) <= 1 /\ ("expired" \in ruled[n] => n \in fired)
      BY DEF OneVerdict
    <2>1. ruled[n] \in {{}, {"answered"}, {"expired"}}
          /\ ("expired" \in ruled[n] => n \in fired)
      BY DEF IInv, Verdicts
    <2>2. Cardinality({}) = 0 /\ Cardinality({"answered"}) = 1 /\ Cardinality({"expired"}) = 1
      BY FS_EmptySet, FS_Singleton
    <2>3. QED
      BY <2>1, <2>2
  <1>2. QED
    BY <1>1, Invariance, PTL

\* No backend is asked what its pin forbids, and no session contradicts its pin.
THEOREM PinHonouredHolds == Spec => []PinHonoured
  <1>1. IInv => PinHonoured
    BY DEF IInv, TypeOK, ConnTypeOK, PinHonoured, Written, Asking, Found
  <1>2. QED
    BY <1>1, Invariance, PTL

\* The reported era is the one in use, but for an answer that met its own deadline.
THEOREM EraRightHolds == Spec => []EraRight
  <1>1. IInv => EraRight
    BY DEF IInv, TypeOK, PolicyTypeOK, EraRight, Asking, Found
  <1>2. QED
    BY <1>1, Invariance, PTL
=============================================================================
