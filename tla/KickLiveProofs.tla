---------------------------- MODULE KickLiveProofs ----------------------------
(***************************************************************************)
(* TLAPS proofs about KickLive, for any skew, window, attempts and bounds: *)
(* its types, that the chat feed's acknowledgement is read while a         *)
(* recovery is due, and that what was said since the newest message seen   *)
(* is then emitted or counted.                                             *)
(***************************************************************************)
EXTENDS KickLive, Induction

-----------------------------------------------------------------------------
(* Types.                                                                  *)

\* What is said bears a time of the provider's, and so do events.
Frames == {f \in Frame : /\ f.kind = "text" => f.id \in DOMAIN said
                         /\ f.kind = "event" => f.id \in Times}

TypeInv ==
    /\ TypeOK
    /\ \A k \in DOMAIN said : said[k] <= now + Skew
    /\ \A k \in DOMAIN frames : frames[k] \in Frames
    /\ pc \notin Ended => failures < MaxAttempts /\ recoveries < 2
    /\ gaps \in Nat /\ incomplete \in Nat

LEMMA Constants ==
    /\ Skew \in Int /\ Window \in Nat
    /\ MaxAttempts \in Nat /\ MaxAttempts >= 1 /\ Horizon \in Nat /\ MaxDrops \in Nat
    /\ None \notin Int /\ PublicEvents \in BOOLEAN
  BY BoundsAssumption

LEMMA TimesFit ==
    /\ Times \in SUBSET Int /\ \A t \in Times : t \in Int
    /\ \A t \in 0..Horizon : t \in Times /\ t + Skew \in Times /\ t - Window \in Times
  BY Constants DEF Times, Span, Greatest

LEMMA InitTyped == Init => TypeInv
<1> SUFFICES ASSUME Init PROVE TypeInv
  OBVIOUS
<1>1. TypeOK
  <2>1. emitted \subseteq DOMAIN said
    BY DEF Init
  <2>2. said \in Seq(Times) /\ frames \in Seq(Frame)
    BY DEF Init
  <2>3. now \in 0..Horizon /\ offset \in -Window..Window /\ attempt \in 1..MaxAttempts
        /\ failures \in 0..MaxAttempts
    BY Constants DEF Init
  <2>4. pc = "preload" /\ startup = None /\ {lastProvider, lastReceived, startup} \subseteq Times \cup {None}
    BY DEF Init
  <2>5. {pendingStartup, pendingReconnect, open, stopped, owned, woken} \subseteq BOOLEAN
        /\ channel \in BOOLEAN
    BY DEF Init
  <2>6. link = "down" /\ fault = "none" /\ recoveries = 0 /\ gaps + incomplete \in Nat
    BY DEF Init
  <2> QED BY <2>1, <2>2, <2>3, <2>4, <2>5, <2>6 DEF TypeOK
<1> QED BY <1>1, Constants DEF Init, TypeInv

LEMMA ProviderTyped ==
    ASSUME TypeInv, Provider
    PROVE  TypeInv'
<1> USE DEF TypeInv, clockVars, countVars, outVars, stopVars, Attended, Ended
<1>1. CASE Tick
  <2>1. now' \in 0..Horizon /\ now' = now + 1
    BY <1>1, Constants DEF Tick, TypeOK
  <2>2. TypeOK'
    <3>1. emitted' \subseteq DOMAIN said' /\ (startup' = None <=> pc' = "preload")
      BY <1>1 DEF Tick, TypeOK
    <3>2. {lastProvider', lastReceived', startup'} \subseteq Times \cup {None}
      BY <1>1 DEF Tick, TypeOK
    <3>3. {pendingStartup', pendingReconnect', open', stopped', owned', woken'} \subseteq BOOLEAN
      BY <1>1 DEF Tick, TypeOK
    <3> QED BY <1>1, <2>1, <3>1, <3>2, <3>3 DEF Tick, TypeOK
  <2>3. \A k \in DOMAIN said' : said'[k] <= now' + Skew
    <3>1. \A k \in DOMAIN said : said[k] \in Int
      <4>1. said \in Seq(Times)
        BY DEF TypeOK
      <4>2. \A k \in DOMAIN said : said[k] \in Times
        BY <4>1
      <4> QED BY <4>2, TimesFit
    <3>2. now \in Int /\ Skew \in Int /\ said' = said
      BY <1>1, Constants DEF Tick, TypeOK
    <3> QED BY <2>1, <3>1, <3>2
  <2>4. \A k \in DOMAIN frames' : frames'[k] \in Frames'
    BY <1>1 DEF Tick, Frames
  <2>5. (pc' \notin Ended' => failures' < MaxAttempts /\ recoveries' < 2) /\ gaps' \in Nat /\ incomplete' \in Nat
    BY <1>1 DEF Tick
  <2> QED BY <2>2, <2>3, <2>4, <2>5
<1>2. CASE Say
  <2>1. now + Skew \in Times
    BY TimesFit DEF TypeOK
  <2>2. said' \in Seq(Times) /\ Len(said') = Len(said) + 1
    BY <1>2, <2>1 DEF Say, TypeOK
  <2>3. \A k \in DOMAIN said' : said'[k] <= now' + Skew
    BY <1>2, <2>1, TimesFit, Constants DEF Say, TypeOK
  <2>4. DOMAIN said \subseteq DOMAIN said' /\ Len(said) + 1 \in DOMAIN said'
    BY <2>2 DEF TypeOK
  <2>5. Frames \subseteq Frames'
    BY <2>4 DEF Frames
  <2>6. [kind |-> "text", id |-> Len(said) + 1] \in Frames'
    BY <2>4 DEF Frames, Frame, TypeOK
  <2>7. frames' \in Seq(Frame) /\ \A k \in DOMAIN frames' : frames'[k] \in Frames'
    BY <1>2, <2>5, <2>6 DEF Say, TypeOK, Frames
  <2>8. TypeOK'
    BY <1>2, <2>2, <2>4, <2>7 DEF Say, TypeOK
  <2> QED BY <1>2, <2>3, <2>7, <2>8 DEF Say
<1>3. CASE Acknowledge
  <2>1. [kind |-> "ack", id |-> 0] \in Frames
    BY DEF Frames, Frame
  <2>2. frames' \in Seq(Frame) /\ \A k \in DOMAIN frames' : frames'[k] \in Frames'
    BY <1>3, <2>1 DEF Acknowledge, TypeOK, Frames
  <2>3. TypeOK'
    BY <1>3, <2>2 DEF Acknowledge, TypeOK
  <2> QED BY <1>3, <2>2, <2>3 DEF Acknowledge
<1>4. CASE AcknowledgeChannel
  <2>1. [kind |-> "channelAck", id |-> 0] \in Frames
    BY DEF Frames, Frame
  <2>2. frames' \in Seq(Frame) /\ \A k \in DOMAIN frames' : frames'[k] \in Frames'
    BY <1>4, <2>1 DEF AcknowledgeChannel, TypeOK, Frames
  <2>3. TypeOK'
    BY <1>4, <2>2 DEF AcknowledgeChannel, TypeOK
  <2> QED BY <1>4, <2>2, <2>3 DEF AcknowledgeChannel
<1>5. CASE ChannelFrame
  <2>1. PICK kind \in {"event", "rest"} : frames' = Append(frames, [kind |-> kind, id |-> now + Skew])
    BY <1>5 DEF ChannelFrame
  <2>2. now + Skew \in Times
    BY TimesFit DEF TypeOK
  <2>3. [kind |-> kind, id |-> now + Skew] \in Frames
    BY <2>2, TimesFit DEF Frames, Frame
  <2>4. frames' \in Seq(Frame) /\ \A k \in DOMAIN frames' : frames'[k] \in Frames'
    BY <1>5, <2>1, <2>3 DEF ChannelFrame, TypeOK, Frames
  <2>5. TypeOK'
    BY <1>5, <2>4 DEF ChannelFrame, TypeOK
  <2> QED BY <1>5, <2>4, <2>5 DEF ChannelFrame
<1>6. CASE Drop
  <2>1. TypeOK'
    BY <1>6 DEF Drop, TypeOK
  <2> QED BY <1>6, <2>1 DEF Drop, Frames
<1> QED BY <1>1, <1>2, <1>3, <1>4, <1>5, <1>6 DEF Provider

LEMMA StartTyped ==
    ASSUME TypeInv, Preload
    PROVE  TypeInv'
<1> USE DEF TypeInv
<1>1. PICK shown \in 0..Len(said) :
         /\ emitted' = 1..shown
         /\ lastProvider' = IF shown = 0 THEN None ELSE said[shown]
  BY DEF Preload
<1>2. emitted' \subseteq DOMAIN said /\ lastProvider' \in Times \cup {None}
  BY <1>1 DEF TypeOK
<1>3. startup' \in Times
  BY <1>2, TimesFit, Constants DEF Preload, StartupCheckpoint, Greatest, Least, TypeOK
<1>4. startup' # None
  BY <1>3, TimesFit, Constants
<1>5. TypeOK'
  BY <1>2, <1>3, <1>4 DEF Preload, TypeOK, providerVars, countVars, stopVars, Ended
<1> QED BY <1>5 DEF Preload, providerVars, countVars, stopVars, Frames, Ended

LEMMA DialTyped ==
    ASSUME TypeInv, Create \/ CheckStopped \/ Dial \/ DialFails \/ DialRejected \/ Opened \/ StreamStopped \/ RequestStop
    PROVE  TypeInv'
<1> USE DEF TypeInv, TypeOK, Frames, providerVars, clockVars, countVars, outVars, stopVars, Ended
<1>1. CASE Create
  BY <1>1 DEF Create
<1>2. CASE CheckStopped
  BY <1>2 DEF CheckStopped
<1>3. CASE Dial
  <2>1. frames' \in Seq(Frame) /\ DOMAIN frames' = {} /\ attempt' \in 1..MaxAttempts
    BY <1>3, Constants DEF Dial
  <2> QED BY <1>3, <2>1 DEF Dial
<1>4. CASE DialFails
  <2>1. attempt' \in 1..MaxAttempts
    BY <1>4, Constants DEF DialFails
  <2>2. pc' \in {"opened", "create", "exceeded"} /\ pc = "dial"
    BY <1>4 DEF DialFails
  <2> QED BY <1>4, <2>1, <2>2 DEF DialFails
<1>5. CASE DialRejected
  BY <1>5 DEF DialRejected
<1>6. CASE Opened
  BY <1>6 DEF Opened
<1>7. CASE StreamStopped
  BY <1>7 DEF StreamStopped
<1>8. CASE RequestStop
  BY <1>8 DEF RequestStop
<1> QED BY <1>1, <1>2, <1>3, <1>4, <1>5, <1>6, <1>7, <1>8

LEMMA ReadTyped ==
    ASSUME TypeInv, ReadFrame
    PROVE  TypeInv'
<1> DEFINE frame == Head(frames)
<1>1. frame \in Frames /\ frames' = Tail(frames) /\ frames # <<>> /\ pc = "stream" /\ UNCHANGED <<pc, now, said>>
  BY DEF ReadFrame, TypeInv, TypeOK
<1>2. frames' \in Seq(Frame) /\ \A k \in DOMAIN frames' : frames'[k] \in Frames'
  <2>1. frames \in Seq(Frame) /\ \A k \in 1..Len(frames) : frames[k] \in Frames
    BY DEF TypeInv, TypeOK
  <2>2. Frames' = Frames
    BY <1>1 DEF Frames
  <2>3. Tail(frames) \in Seq(Frame) /\ Len(Tail(frames)) = Len(frames) - 1
        /\ \A k \in 1..Len(Tail(frames)) : Tail(frames)[k] = frames[k + 1]
    BY <1>1, <2>1
  <2> QED BY <1>1, <2>1, <2>2, <2>3
<1>3. now \in Int /\ offset \in -Window..Window /\ said \in Seq(Times)
  BY Constants DEF TypeInv, TypeOK
<1>4. HasTime(frame) => TimeOf(frame) \in Times
  BY <1>1, <1>3 DEF HasTime, TimeOf, Frames
<1>5. offset' \in -Window..Window
  BY <1>1, <1>3, <1>4, TimesFit, Constants DEF ReadFrame, OffsetAfter
<1>6. PICK found \in SUBSET DOMAIN said :
        /\ Recover(frame, found)
        /\ emitted' = emitted \cup found \cup Carried(frame)
        /\ LET times == {said[m] : m \in found}
                          \cup (IF HasTime(frame) THEN {TimeOf(frame)} ELSE {}) IN
           lastProvider' = IF times = {} THEN lastProvider ELSE Newest(lastProvider, Max(times))
  BY DEF ReadFrame
<1> DEFINE times == {said[m] : m \in found} \cup (IF HasTime(frame) THEN {TimeOf(frame)} ELSE {})
<1>7. emitted' \subseteq DOMAIN said'
  <2>1. Carried(frame) \subseteq DOMAIN said
    BY <1>1 DEF Carried, Frames
  <2> QED BY <1>1, <1>6, <2>1 DEF TypeInv, TypeOK
<1>8. lastProvider' \in Times \cup {None}
  <2>1. times \in SUBSET Times
    BY <1>3, <1>4
  <2>2. CASE times = {}
    BY <1>6, <2>2 DEF TypeInv, TypeOK
  <2>3. CASE times # {}
    <3>1. \A t \in times : t <= Span
      BY <2>1 DEF Times
    <3>2. Max(times) \in times
      <4>1. times \in SUBSET Int /\ Span \in Int
        <5> HIDE DEF times
        <5> QED BY <2>1, TimesFit, Constants DEF Span, Greatest
      <4> HIDE DEF times
      <4> QED BY <2>3, <3>1, <4>1, MaxMember
    <3>3. lastProvider' = Newest(lastProvider, Max(times))
      BY <1>6, <2>3
    <3> QED BY <2>1, <3>2, <3>3 DEF Newest, Greatest, TypeInv, TypeOK
  <2> QED BY <2>2, <2>3
<1>9. lastReceived' \in Times \cup {None} /\ startup' = startup /\ startup \in Times \cup {None} /\ startup # None
  BY <1>1, TimesFit DEF ReadFrame, TypeInv, TypeOK
<1>10. incomplete' \in Nat /\ gaps' \in Nat
  <2>1. incomplete' \in {incomplete, incomplete + 1}
    BY <1>6 DEF Recover
  <2> QED BY <2>1 DEF ReadFrame, TypeInv
<1>11. failures' \in {0, failures} /\ recoveries' \in {0, recoveries}
  BY DEF ReadFrame
<1>12. pendingStartup' \in BOOLEAN /\ pendingReconnect' \in BOOLEAN
  BY DEF ReadFrame
<1>13. TypeOK'
  <2>1. {lastProvider', lastReceived', startup'} \subseteq Times \cup {None}
    BY <1>8, <1>9
  <2>2. startup' # None /\ pc' = "stream"
    BY <1>1, <1>9
  <2>3. failures' \in 0..MaxAttempts /\ recoveries' \in 0..2
    BY <1>11, Constants DEF TypeInv, TypeOK
  <2>4. gaps' + incomplete' \in Nat
    <3>1. \A i, j \in Nat : i + j \in Nat
      OBVIOUS
    <3> QED BY <1>10, <3>1, Zenon
  <2>5. {pendingStartup', pendingReconnect', open', stopped', owned', woken'} \subseteq BOOLEAN
    BY <1>12 DEF ReadFrame, TypeInv, TypeOK, stopVars
  <2> QED
    BY <1>1, <1>2, <1>5, <1>7, <2>1, <2>2, <2>3, <2>4, <2>5 DEF ReadFrame, TypeInv, TypeOK
<1>14. failures' < MaxAttempts /\ recoveries' < 2
  BY <1>1, <1>11, Constants DEF TypeInv, TypeOK, Ended
<1>15. \A k \in DOMAIN said' : said'[k] <= now' + Skew
  BY <1>1 DEF TypeInv
<1> QED BY <1>2, <1>10, <1>13, <1>14, <1>15 DEF TypeInv

LEMMA FailTyped ==
    ASSUME TypeInv, ReadFails
    PROVE  TypeInv'
<1>1. pc = "stream" /\ failures < MaxAttempts /\ recoveries < 2 /\ failures \in Nat /\ recoveries \in Nat
  BY Constants, SMTT(30) DEF ReadFails, TypeInv, TypeOK, Ended
<1>2. /\ failures' \in 0..MaxAttempts /\ recoveries' \in 0..2 /\ pc' \in {"create"} \cup Ended
      /\ pc' \notin Ended => failures' < MaxAttempts /\ recoveries' < 2
      /\ attempt' \in 1..MaxAttempts /\ pendingReconnect' \in BOOLEAN
  <2>1. CASE stopped
    BY <1>1, <2>1, Constants DEF ReadFails, countVars, Ended, TypeInv, TypeOK
  <2>2. CASE ~stopped /\ Failure = "rejected"
    BY <1>1, <2>2, Constants DEF ReadFails, countVars, Ended, TypeInv, TypeOK
  <2>3. CASE ~stopped /\ Failure = "kick"
    <3>1. /\ recoveries' = recoveries + 1 /\ failures' = failures /\ pendingReconnect' = TRUE /\ attempt' = 1
          /\ pc' = IF recoveries' > 1 \/ recoveries' >= MaxAttempts THEN "exceeded" ELSE "create"
      BY <2>3 DEF ReadFails
    <3> QED BY <1>1, <3>1, Constants DEF Ended
  <2>4. CASE ~stopped /\ Failure # "rejected" /\ Failure # "kick"
    <3>1. /\ failures' = failures + 1 /\ recoveries' = recoveries /\ pendingReconnect' = TRUE /\ attempt' = 1
          /\ pc' = IF failures' >= MaxAttempts THEN "exceeded" ELSE "create"
      BY <2>4 DEF ReadFails
    <3> QED BY <1>1, <3>1, Constants DEF Ended
  <2> QED BY <2>1, <2>2, <2>3, <2>4
<1>3. frames' \in Seq(Frame) /\ DOMAIN frames' = {} /\ pc' # "preload"
  BY <1>2 DEF ReadFails, Ended
<1>4. UNCHANGED <<now, said, lastProvider, lastReceived, offset, startup, emitted, gaps, incomplete,
                  pendingStartup, stopped, owned, woken>>
      /\ open' = FALSE /\ link' = "down" /\ channel' = FALSE /\ fault' = "none"
  BY DEF ReadFails, clockVars, stopVars
<1>5. {pendingStartup', pendingReconnect', open', stopped', owned', woken'} \subseteq BOOLEAN
  BY <1>2, <1>4 DEF TypeInv, TypeOK
<1>6. TypeOK'
  BY <1>1, <1>2, <1>3, <1>4, <1>5 DEF TypeInv, TypeOK
<1> QED BY <1>2, <1>3, <1>4, <1>6 DEF TypeInv

LEMMA TypeNext == TypeInv /\ [Next]_vars => TypeInv'
<1>1. ASSUME TypeInv, UNCHANGED vars PROVE TypeInv'
  BY <1>1 DEF TypeInv, TypeOK, Frames, vars, Ended
<1> QED
  BY <1>1, ProviderTyped, StartTyped, DialTyped, ReadTyped, FailTyped DEF Next, Consumer, Done

\* Every reachable state of a live capture is well typed: its budgets, its clocks
\* and what it has emitted keep within what the provider has said.
THEOREM TypeCorrect == Spec => []TypeOK
<1>1. TypeInv => TypeOK
  BY DEF TypeInv
<1> QED BY <1>1, InitTyped, TypeNext, PTL DEF Spec

-----------------------------------------------------------------------------
(* The acknowledgement.                                                    *)

Recovering == pendingStartup \/ pendingReconnect

\* The chat feed's acknowledgement comes before any text of its link, and until it is
\* read the recovery stays due.
AckInv ==
    /\ pc \notin {"stream"} \cup Ended => Recovering
    /\ pc = "stream" /\ link = "up" => Recovering
    /\ link = "up" => \A k \in DOMAIN frames : ~Confirms(frames[k])
    /\ \A k \in DOMAIN frames :
         frames[k].kind = "ack" =>
           /\ pc = "stream" => Recovering
           /\ \A j \in 1..(k - 1) : ~Confirms(frames[j])

LEMMA AckNext == ASSUME TypeInv, AckInv, [Next]_vars PROVE AckInv'
<1> USE DEF AckInv, Recovering, Confirms
<1> DEFINE quiet == UNCHANGED <<link, frames, pendingStartup, pendingReconnect>>
<1>1. ASSUME quiet, UNCHANGED pc \/ (pc' = "stream" /\ pc = "opened") \/ pc' \in Ended
             \/ (pc # "stream" /\ pc \notin Ended /\ pc' # "stream")
      PROVE  AckInv'
  BY <1>1 DEF Ended
<1>2. CASE Tick \/ AcknowledgeChannel \/ ChannelFrame \/ Drop
  <2>1. CASE Tick
    BY <1>1, <2>1 DEF Tick, outVars
  <2>2. CASE AcknowledgeChannel \/ ChannelFrame
    <3>1. PICK f \in Frame : frames' = Append(frames, f) /\ ~Confirms(f)
      <4>1. CASE AcknowledgeChannel
        BY <4>1 DEF AcknowledgeChannel, Frame
      <4>2. CASE ChannelFrame
        BY <4>2, Constants DEF ChannelFrame, Frame, TypeInv, TypeOK
      <4> QED BY <2>2, <4>1, <4>2
    <3>2. UNCHANGED <<link, pc, pendingStartup, pendingReconnect>>
      BY <2>2 DEF AcknowledgeChannel, ChannelFrame, outVars
    <3>3. Len(frames') = Len(frames) + 1 /\ frames'[Len(frames) + 1] = f
          /\ \A k \in 1..Len(frames) : frames'[k] = frames[k]
      BY <3>1 DEF TypeInv, TypeOK
    <3>4. DOMAIN frames = 1..Len(frames) /\ DOMAIN frames' = 1..Len(frames') /\ Len(frames) \in Nat
      BY <3>1 DEF TypeInv, TypeOK
    <3> QED BY <3>1, <3>2, <3>3, <3>4 DEF Ended
  <2>3. CASE Drop
    BY <2>3 DEF Drop, outVars
  <2> QED BY <1>2, <2>1, <2>2, <2>3
<1>3. CASE Say
  <2>1. CASE link = "chat"
    <3>1. frames' = Append(frames, [kind |-> "text", id |-> Len(said) + 1])
          /\ UNCHANGED <<link, pc, pendingStartup, pendingReconnect>>
      BY <1>3, <2>1 DEF Say, outVars
    <3> QED BY <2>1, <3>1 DEF TypeInv, TypeOK
  <2>2. CASE link # "chat"
    BY <1>1, <1>3, <2>2 DEF Say, outVars
  <2> QED BY <2>1, <2>2
<1>4. CASE Acknowledge
  <2>1. frames' = Append(frames, [kind |-> "ack", id |-> 0]) /\ link = "up" /\ link' = "chat"
        /\ UNCHANGED <<pc, pendingStartup, pendingReconnect>> /\ pc \in {"preload", "dial", "stream"}
    BY <1>4 DEF Acknowledge, outVars, Attended
  <2> QED BY <2>1 DEF TypeInv, TypeOK
<1>5. CASE Preload \/ Create \/ CheckStopped \/ DialFails \/ DialRejected \/ Opened \/ StreamStopped \/ RequestStop \/ Done
  BY <1>1, <1>5 DEF Preload, Create, CheckStopped, DialFails, DialRejected, Opened, StreamStopped,
                    RequestStop, Done, providerVars, outVars, Ended, vars
<1>6. CASE Dial
  <2>1. frames' = <<>> /\ pc = "dial" /\ pc' = "opened" /\ UNCHANGED <<pendingStartup, pendingReconnect>>
    BY <1>6 DEF Dial, outVars
  <2> QED BY <2>1 DEF Ended
<1>7. CASE ReadFrame
  <2>1. /\ frames # <<>> /\ frames' = Tail(frames) /\ UNCHANGED <<link, pc>> /\ pc = "stream"
        /\ pendingStartup' = (pendingStartup /\ ~Due(Head(frames)))
        /\ pendingReconnect' = (pendingReconnect /\ ~Due(Head(frames)))
    BY <1>7 DEF ReadFrame
  <2>2. Len(frames') = Len(frames) - 1 /\ \A k \in 1..Len(frames') : frames'[k] = frames[k + 1]
    BY <2>1 DEF TypeInv, TypeOK
  <2>3. DOMAIN frames = 1..Len(frames) /\ DOMAIN frames' = 1..Len(frames') /\ Len(frames) \in Nat /\ Head(frames) = frames[1]
    BY <2>1 DEF TypeInv, TypeOK
  <2>4. ASSUME link = "up" PROVE Recovering' /\ \A k \in DOMAIN frames' : ~Confirms(frames'[k])
    <3>1. 1 \in DOMAIN frames /\ ~Confirms(frames[1]) /\ Recovering
      BY <2>1, <2>2, <2>3, <2>4
    <3>2. ~Due(Head(frames))
      BY <2>3, <3>1 DEF Due
    <3>3. \A k \in DOMAIN frames' : k + 1 \in DOMAIN frames /\ frames'[k] = frames[k + 1]
      BY <2>2, <2>3
    <3> QED BY <2>1, <2>4, <3>1, <3>2, <3>3
  <2>5. ASSUME NEW k \in DOMAIN frames', frames'[k].kind = "ack"
        PROVE  Recovering' /\ \A j \in 1..(k - 1) : ~Confirms(frames'[j])
    <3>1. k + 1 \in DOMAIN frames /\ frames[k + 1].kind = "ack"
      BY <2>2, <2>3, <2>5
    <3>2. \A j \in 1..k : ~Confirms(frames[j])
      BY <3>1, <2>3
    <3>3. ~Confirms(frames[1])
      BY <2>2, <2>3, <3>2
    <3>4. Recovering /\ ~Due(Head(frames))
      BY <2>1, <2>3, <3>1, <3>3 DEF Due
    <3>5. \A j \in 1..(k - 1) : j \in 1..Len(frames') /\ j + 1 \in 1..k
      BY <2>3
    <3>6. \A j \in 1..(k - 1) : ~Confirms(frames'[j])
      BY <2>2, <3>2, <3>5
    <3> QED BY <2>1, <3>4, <3>6
  <2> QED BY <2>1, <2>4, <2>5 DEF Ended
<1>8. CASE ReadFails
  <2>1. frames' = <<>> /\ link' = "down" /\ (pc' \in Ended \/ pendingReconnect')
    BY <1>8 DEF ReadFails, Ended
  <2> QED BY <2>1 DEF Ended
<1>9. CASE UNCHANGED vars
  BY <1>1, <1>9 DEF vars
<1> QED
  BY <1>2, <1>3, <1>4, <1>5, <1>6, <1>7, <1>8, <1>9 DEF Next, Provider, Consumer

LiveInv == TypeInv /\ AckInv

LEMMA LiveInvariant == Spec => []LiveInv
<1>1. Init => AckInv
  BY DEF Init, AckInv, Recovering, Ended
<1> QED BY <1>1, InitTyped, TypeNext, AckNext, PTL DEF Spec, LiveInv

-----------------------------------------------------------------------------
(* What a recovery finds.                                                  *)

\* A message of the time before now that the recovery after an acknowledgement does
\* not look for is older than the newest message seen, or lost to the window.
LEMMA NotFoundMeansOld ==
    ASSUME TypeInv, Skew <= 0, NEW m \in DOMAIN said, offset \in Int, pc = "stream",
           m \notin Found(offset), Seen # None => said[m] >= Seen
    PROVE  said[m] < now - Window /\ (Seen = None \/ Truncated(offset))
<1>1. /\ now \in Int /\ said[m] \in Int /\ startup \in Int
      /\ lastProvider \in Int \cup {None} /\ lastReceived \in Int \cup {None}
  <2>1. {lastProvider, lastReceived, startup} \subseteq Times \cup {None} /\ startup # None
        /\ said[m] \in Times
    BY DEF TypeInv, TypeOK
  <2> QED BY <2>1, TimesFit DEF TypeInv, TypeOK
<1>2. said[m] <= QueryEnd(offset) /\ WindowEnd(offset) \in Int /\ WindowEnd(offset) <= now
      /\ QueryEnd(offset) \in Int
  <2>1. said[m] <= now + Skew
    BY DEF TypeInv
  <2> QED BY <1>1, <2>1, Constants DEF QueryEnd, WindowEnd, Greatest, Least
<1>3. Checkpoint \in Int \cup {None} /\ BackfillStart(offset) \in Int
  BY <1>1, <1>2, Constants DEF BackfillStart, Checkpoint, Greatest
<1>4. said[m] < BackfillStart(offset)
  BY <1>1, <1>2, <1>3 DEF Found, History
<1>5. ~pendingStartup
  BY <1>1, <1>4, Constants DEF BackfillStart, Seen
<1>6. CASE Checkpoint = None
  <2>1. said[m] < WindowEnd(offset) - Window
    BY <1>4, <1>5, <1>6 DEF BackfillStart
  <2> QED BY <1>1, <1>2, <1>5, <1>6, <2>1, Constants DEF Seen, Checkpoint
<1>7. CASE Checkpoint # None
  <2>1. Checkpoint = Seen /\ Seen # None
    BY <1>5, <1>7 DEF Seen, Checkpoint
  <2>2. said[m] >= Checkpoint
    BY <2>1
  <2>3. said[m] < WindowEnd(offset) - Window
    BY <1>1, <1>2, <1>3, <1>4, <1>5, <1>7, <2>2, Constants DEF BackfillStart, Greatest
  <2> QED BY <1>1, <1>2, <1>3, <1>5, <1>7, <2>2, <2>3, Constants DEF Truncated
<1> QED BY <1>6, <1>7

\* With a provider's clock in step or behind: when the acknowledgement of the chat
\* feed is read, everything said since the newest message seen has been emitted, or
\* the loss is counted, after any number of lost links and however the history fails.
THEOREM RecoversWhatWasMissed == ASSUME Skew <= 0 PROVE Spec => RecoversFromSeen
<1>1. ASSUME LiveInv, [Next]_vars, NEW m \in DOMAIN said,
             frames # <<>>, Head(frames).kind = "ack", frames' = Tail(frames), pc = "stream", pc' = pc,
             Seen # None => said[m] >= Seen
      PROVE  \/ m \in emitted' \/ incomplete' > incomplete
             \/ said[m] < now - Window /\ (Seen = None \/ gaps' > gaps)
  <2>1. frames \in Seq(Frame) /\ Len(Tail(frames)) = Len(frames) - 1 /\ Len(frames) \in Nat /\ Head(frames) = frames[1] /\ 1 \in DOMAIN frames
    BY <1>1 DEF LiveInv, TypeInv, TypeOK
  <2>2. ReadFrame
    <3>1. Len(frames') < Len(frames)
      BY <1>1, <2>1
    <3>2. frames' # frames
      BY <3>1, <2>1
    <3>3. ~Provider
      BY <2>1, <3>1, <3>2 DEF Provider, Tick, Say, Acknowledge, AcknowledgeChannel, ChannelFrame, Drop
    <3>4. ~RequestStop /\ ~Done /\ ~UNCHANGED vars
      BY <3>2 DEF RequestStop, Done, providerVars, vars
    <3>5. ~ReadFails
      BY <1>1 DEF ReadFails, Ended
    <3>6. ~(Preload \/ Create \/ CheckStopped \/ Dial \/ DialFails \/ DialRejected \/ Opened \/ StreamStopped)
      BY <1>1 DEF Preload, Create, CheckStopped, Dial, DialFails, DialRejected, Opened, StreamStopped
    <3> QED BY <1>1, <3>3, <3>4, <3>5, <3>6 DEF Next, Consumer
  <2>3. Due(Head(frames))
    BY <1>1, <2>1 DEF LiveInv, AckInv, Recovering, Due, Confirms
  <2>4. OffsetAfter(Head(frames)) = offset /\ offset \in Int
    <3>1. ~HasTime(Head(frames))
      BY <1>1 DEF HasTime
    <3>2. OffsetAfter(Head(frames)) = offset
      BY <3>1 DEF OffsetAfter
    <3>3. offset \in -Window..Window
      BY <1>1 DEF LiveInv, TypeInv, TypeOK
    <3> QED BY <3>2, <3>3, Constants
  <2>5. PICK found \in SUBSET DOMAIN said : Recover(Head(frames), found) /\ found \subseteq emitted'
    BY <2>2 DEF ReadFrame
  <2>6. CASE incomplete' = incomplete + 1
    BY <1>1, <2>6 DEF LiveInv, TypeInv
  <2>7. CASE found = Found(offset) /\ m \in found
    BY <2>5, <2>7
  <2>8. CASE found = Found(offset) /\ m \notin found
    <3>1. said[m] < now - Window /\ (Seen = None \/ Truncated(offset))
      BY <1>1, <2>4, <2>8, NotFoundMeansOld DEF LiveInv
    <3>2. Truncated(offset) => gaps' = gaps + 1 /\ gaps \in Nat
      BY <1>1, <2>2, <2>3, <2>4 DEF ReadFrame, LiveInv, TypeInv
    <3> QED BY <3>1, <3>2
  <2> QED BY <2>3, <2>4, <2>5, <2>6, <2>7, <2>8 DEF Recover
<1>2. LiveInv /\ [Next]_vars =>
        [\A m \in DOMAIN said :
           ( /\ frames # <<>> /\ Head(frames).kind = "ack" /\ frames' = Tail(frames)
             /\ pc = "stream" /\ pc' = pc
             /\ (Seen # None => said[m] >= Seen) )
           => \/ m \in emitted'
              \/ incomplete' > incomplete
              \/ said[m] < now - Window /\ (Seen = None \/ gaps' > gaps)]_vars
  BY <1>1
<1> QED BY <1>2, LiveInvariant, PTL DEF Spec, RecoversFromSeen
===============================================================================
