--------------------------- MODULE RetrievalProofs ---------------------------
(***************************************************************************)
(* TLAPS proofs about the two machines that retrieve.                      *)
(*                                                                         *)
(* KickPublicTransport, for one or two connections, any number of frames   *)
(* and polls and any size of the queue: its types, who owns a session, how *)
(* failures are reported, and that it implements MergedFeed.               *)
(*                                                                         *)
(* ReplayRun, for every recording and request, page size, budget and limit *)
(* of attempts: that what it gives out is what was asked for, that what it *)
(* calls whole is whole, and that it implements ReplayPromise.             *)
(***************************************************************************)
EXTENDS KickPublicTransport, ReplayRun, Induction, FiniteSetTheorems, SequenceTheorems

Item == [feed : Actors, n : Nat]

LEMMA ActorFacts ==
    /\ Feeds \subseteq Actors /\ Owner \in Actors /\ Owner \notin Feeds
    /\ NumFeeds \in Feeds /\ 1 \in Feeds /\ Sentinel \in Item
    /\ \A f \in Feeds : f \in Nat /\ f <= NumFeeds /\ (f = NumFeeds \/ f + 1 \in Feeds)
  BY BoundsAssumption DEF Feeds, Actors, Owner, Sentinel, Item

-----------------------------------------------------------------------------
(* Type correctness.                                                       *)

LEMMA TypeInit == Init => TypeOK
<1> SUFFICES ASSUME Init PROVE TypeOK
  OBVIOUS
<1>1. errors \in Seq(Kinds) /\ queue \in Seq([feed : Actors, n : Nat]) /\ Len(queue) <= QueueSize
  BY BoundsAssumption, EmptySeq DEF Init
<1>2. idx \in Feeds /\ Conn \in Kinds
  BY ActorFacts DEF Init, Kinds
<1>3. report \in [Actors -> 0..3] /\ cause \in [Actors -> Kinds] /\ polls \in 0..MaxPolls
  BY <1>2, BoundsAssumption DEF Init
<1>4. /\ sock \in [Feeds -> {"unopened", "open", "aborted", "closed"}]
      /\ client \in [Feeds -> {"none", "open", "closed"}]
      /\ reader \in [Feeds -> {"unstarted", "read", "put", "check", "report", "exit", "done"}]
      /\ accepted \in [Feeds -> Nat] /\ delivered \in [Feeds -> Nat]
  BY DEF Init
<1> QED BY <1>1, <1>2, <1>3, <1>4 DEF Init, TypeOK

LEMMA AppendedTypes ==
    ASSUME TypeOK, NEW item \in Item, Len(queue) < QueueSize
    PROVE  Append(queue, item) \in Seq(Item) /\ Len(Append(queue, item)) <= QueueSize
<1>1. queue \in Seq(Item) /\ Len(queue) \in Nat
  BY LenProperties DEF TypeOK, Item
<1> QED BY <1>1, AppendProperties, BoundsAssumption

LEMMA TakenTypes ==
    ASSUME TypeOK, queue # <<>>
    PROVE  /\ Tail(queue) \in Seq(Item) /\ Len(Tail(queue)) <= QueueSize
           /\ Head(queue) \in Item /\ Head(queue).n \in Nat
<1>1. queue \in Seq(Item) /\ Len(queue) \in Nat
  BY LenProperties DEF TypeOK, Item
<1>2. Tail(queue) \in Seq(Item) /\ Len(Tail(queue)) = Len(queue) - 1 /\ Head(queue) \in Item
  BY <1>1, HeadTailProperties
<1> QED BY <1>1, <1>2, BoundsAssumption DEF TypeOK, Item

LEMMA StopTypes ==
    ASSUME TypeOK, StopFlag
    PROVE  /\ queue' \in Seq([feed : Actors, n : Nat]) /\ Len(queue') <= QueueSize
           /\ stopped' \in BOOLEAN
<1>1. CASE Len(queue) < QueueSize
  BY <1>1, ActorFacts, AppendedTypes DEF StopFlag, Item
<1>2. CASE ~(Len(queue) < QueueSize)
  BY <1>2 DEF StopFlag, TypeOK
<1> QED BY <1>1, <1>2

LEMMA AbortedTypes ==
    TypeOK => Aborted \in [Feeds -> {"unopened", "open", "aborted", "closed"}]
  BY DEF TypeOK, Aborted

LEMMA TypeSetup == TypeOK /\ (Negotiate \/ Dial \/ Subscribe \/ StartReader) => TypeOK'
<1> USE DEF TypeOK, SetUp, stopVars, errorVars, readerVars, Kinds
<1>1. ASSUME TypeOK, Negotiate PROVE TypeOK'
  BY <1>1 DEF Negotiate
<1>2. ASSUME TypeOK, Dial PROVE TypeOK'
  BY <1>2, ActorFacts DEF Dial
<1>3. ASSUME TypeOK, Subscribe PROVE TypeOK'
  BY <1>3 DEF Subscribe
<1>4. ASSUME TypeOK, StartReader PROVE TypeOK'
  BY <1>4, ActorFacts DEF StartReader
<1> QED BY <1>1, <1>2, <1>3, <1>4

LEMMA TypeReader ==
    ASSUME NEW f \in Feeds
    PROVE  TypeOK /\ (Receive(f) \/ Put(f) \/ CheckReconnect(f) \/ ReaderFails(f) \/ ReaderExit(f)) => TypeOK'
<1> USE DEF ownerVars, stopVars, errorVars
<1>1. ASSUME TypeOK, Receive(f) PROVE TypeOK'
  <2>1. /\ reader' \in [Feeds -> {"unstarted", "read", "put", "check", "report", "exit", "done"}]
        /\ accepted' \in [Feeds -> Nat]
    <3>1. \/ reader' = [reader EXCEPT ![f] = "exit"] /\ accepted' = accepted
          \/ reader' = [reader EXCEPT ![f] = "put"] /\ accepted' = [accepted EXCEPT ![f] = accepted[f] + 1]
      BY <1>1 DEF Receive
    <3>2. accepted[f] + 1 \in Nat
      BY <1>1 DEF TypeOK
    <3> QED BY <1>1, <3>1, <3>2 DEF TypeOK
  <2> QED BY <1>1, <2>1 DEF TypeOK, Receive
<1>2. ASSUME TypeOK, Put(f) PROVE TypeOK'
  <2>1. [feed |-> f, n |-> accepted[f]] \in Item
    BY <1>2, ActorFacts DEF TypeOK, Item
  <2>2. queue' \in Seq([feed : Actors, n : Nat]) /\ Len(queue') <= QueueSize
    BY <1>2, <2>1, AppendedTypes DEF Put, TypeOK, Item
  <2> QED BY <1>2, <2>2 DEF TypeOK, Put
<1>3. ASSUME TypeOK, CheckReconnect(f) PROVE TypeOK'
  BY <1>3 DEF TypeOK, CheckReconnect
<1>4. ASSUME TypeOK, ReaderFails(f) PROVE TypeOK'
  <2>1. PICK kind \in Kinds : cause' = [cause EXCEPT ![f] = kind]
    BY <1>4 DEF ReaderFails, Kinds
  <2>2. report' \in [Actors -> 0..3] /\ cause' \in [Actors -> Kinds]
    <3>1. cause' \in [Actors -> Kinds]
      BY <2>1, <1>4 DEF TypeOK
    <3>2. report' = [report EXCEPT ![f] = 1] \/ report' = report
      BY <1>4 DEF ReaderFails
    <3>3. report \in [Actors -> 0..3] /\ 1 \in 0..3
      BY <1>4 DEF TypeOK
    <3>4. report' \in [Actors -> 0..3]
      BY <3>2, <3>3
    <3> QED BY <3>1, <3>4
  <2>3. reader' \in [Feeds -> {"unstarted", "read", "put", "check", "report", "exit", "done"}]
    BY <1>4 DEF ReaderFails, TypeOK
  <2> QED BY <1>4, <2>2, <2>3 DEF TypeOK, ReaderFails
<1>5. ASSUME TypeOK, ReaderExit(f) PROVE TypeOK'
  BY <1>5 DEF TypeOK, ReaderExit
<1> QED BY <1>1, <1>2, <1>3, <1>4, <1>5

LEMMA TypeReport ==
    ASSUME NEW a \in Actors PROVE TypeOK /\ Report(a) => TypeOK'
<1> SUFFICES ASSUME TypeOK, Report(a) PROVE TypeOK'
  OBVIOUS
<1>1. errors' \in Seq(Kinds) /\ reconnect' \in BOOLEAN
  <2>1. Append(errors, cause[a]) \in Seq(Kinds)
    BY AppendProperties DEF TypeOK
  <2> QED BY <2>1 DEF TypeOK, Report
<1>2. sock' \in [Feeds -> {"unopened", "open", "aborted", "closed"}]
  BY AbortedTypes DEF TypeOK, Report, Torn
<1>3. report' \in [Actors -> 0..3]
  <2>1. report \in [Actors -> 0..3] /\ report' = [report EXCEPT ![a] = (report[a] + 1) % 4]
    BY DEF TypeOK, Report
  <2>2. report[a] \in 0..3
    BY <2>1
  <2>3. (report[a] + 1) % 4 \in 0..3
    BY <2>2
  <2> QED BY <2>1, <2>3
<1> QED BY <1>1, <1>2, <1>3 DEF TypeOK, Report, ownerVars, stopVars, readerVars

LEMMA ReaderErrorType == ReaderError \in Kinds
  BY DEF ReaderError, Kinds

LEMMA TypeRecv ==
    TypeOK /\ (RecvStopped \/ Poll \/ RecvPending \/ RecvItem \/ RecvEmpty \/ AfterEmpty \/ Drain) => TypeOK'
<1> USE DEF stopVars, errorVars, readerVars
<1>0. Conn \in Kinds
  BY DEF Kinds
<1>1. ASSUME TypeOK, RecvStopped PROVE TypeOK'
  BY <1>1 DEF TypeOK, RecvStopped, Ends
<1>2. ASSUME TypeOK, Poll PROVE TypeOK'
  <2>1. PICK changed \in 0..MaxChanged : pending' = pending + changed
    BY <1>2 DEF Poll
  <2>2. pending' \in Nat /\ polls' \in 0..MaxPolls
    BY <1>2, <2>1, BoundsAssumption DEF Poll, TypeOK
  <2>3. report' \in [Actors -> 0..3] /\ cause' \in [Actors -> Kinds]
    <3>1. \/ report' = report /\ cause' = cause
          \/ report' = [report EXCEPT ![Owner] = 1] /\ cause' = [cause EXCEPT ![Owner] = Conn]
      BY <1>2, Zenon DEF Poll
    <3>2. report \in [Actors -> 0..3] /\ cause \in [Actors -> Kinds] /\ 1 \in 0..3
      BY <1>2 DEF TypeOK
    <3> QED BY <1>0, <3>1, <3>2
  <2> QED BY <1>2, <2>2, <2>3 DEF TypeOK, Poll
<1>3. ASSUME TypeOK, RecvPending PROVE TypeOK'
  BY <1>3 DEF TypeOK, RecvPending
<1>4. ASSUME TypeOK, RecvItem PROVE TypeOK'
  <2>1. queue' \in Seq([feed : Actors, n : Nat]) /\ Len(queue') <= QueueSize /\ Head(queue).n \in Nat
    BY <1>4, TakenTypes DEF RecvItem, Item
  <2> QED BY <1>4, <2>1 DEF TypeOK, RecvItem, HandOver, Ends
<1>5. ASSUME TypeOK, RecvEmpty PROVE TypeOK'
  BY <1>5 DEF TypeOK, RecvEmpty
<1>6. ASSUME TypeOK, AfterEmpty PROVE TypeOK'
  BY <1>6 DEF TypeOK, AfterEmpty
<1>7. ASSUME TypeOK, Drain PROVE TypeOK'
  <2>1. CASE queue # <<>>
    <3>1. queue' \in Seq([feed : Actors, n : Nat]) /\ Len(queue') <= QueueSize /\ Head(queue).n \in Nat
      BY <1>7, <2>1, TakenTypes DEF Drain, Item
    <3> QED BY <1>7, <2>1, <3>1 DEF TypeOK, Drain, HandOver, Ends
  <2>2. CASE queue = <<>>
    <3>1. <<ReaderError>> \in Seq(Kinds)
      BY ReaderErrorType
    <3> QED BY <1>7, <2>2, <3>1, ReaderErrorType DEF TypeOK, Drain, Ends
  <2> QED BY <2>1, <2>2
<1> QED BY <1>1, <1>2, <1>3, <1>4, <1>5, <1>6, <1>7

LEMMA TypeStop == TypeOK /\ (RequestStop \/ RequestStopAbort \/ Close \/ Join) => TypeOK'
<1> USE DEF ownerVars, errorVars, readerVars
<1>1. ASSUME TypeOK, RequestStop PROVE TypeOK'
  BY <1>1, StopTypes DEF TypeOK, RequestStop
<1>2. ASSUME TypeOK, RequestStopAbort PROVE TypeOK'
  BY <1>2, AbortedTypes DEF TypeOK, RequestStopAbort
<1>3. ASSUME TypeOK, Close PROVE TypeOK'
  <2>1. CASE stopped
    BY <1>3, <2>1 DEF TypeOK, Close
  <2>2. CASE ~stopped
    BY <1>3, <2>2, StopTypes, AbortedTypes DEF TypeOK, Close
  <2> QED BY <2>1, <2>2
<1>4. ASSUME TypeOK, Join PROVE TypeOK'
  BY <1>4 DEF TypeOK, Join, stopVars
<1> QED BY <1>1, <1>2, <1>3, <1>4

LEMMA TypeNext == TypeOK /\ [Next]_vars => TypeOK'
<1>1. ASSUME TypeOK, UNCHANGED vars PROVE TypeOK'
  BY <1>1 DEF TypeOK, vars
<1> QED BY <1>1, ActorFacts, TypeSetup, TypeReader, TypeReport, TypeRecv, TypeStop
       DEF Next, OwnerStep, ReaderStep

\* The transport's state is well typed, whatever its threads and its connections do,
\* and its queue never holds more than it may (KickPublicTransport.__init__).
THEOREM TypeCorrect == Spec => []TypeOK
  BY TypeInit, TypeNext, PTL DEF Spec

-----------------------------------------------------------------------------
(* How the transport ends.                                                 *)

\* What the owner's place says of the outcome.  After a timeout it only comes to the
\* error with an empty queue if nobody has stopped since: a stop finds the queue full
\* or leaves its sentinel there.
EndInv ==
    /\ outcome = "none" <=> pc \notin {"close", "join", "closed"}
    /\ pc \in {"empty", "drain"} /\ stopped => queue # <<>>
    /\ pc = "drain" => ReadersGone
    /\ outcome \in Kinds => \A f \in Feeds : ~Alive(f)

LEMMA EndInit == Init => EndInv
  BY DEF Init, EndInv, Kinds, Conn, Access

LEMMA StopFillsQueue ==
    ASSUME TypeOK, StopFlag PROVE queue' # <<>>
<1>0. queue \in Seq(Item) /\ Len(queue) \in Nat
  BY LenProperties DEF TypeOK, Item
<1>1. CASE Len(queue) < QueueSize
  BY <1>0, <1>1, AppendProperties, ActorFacts DEF StopFlag
<1>2. CASE ~(Len(queue) < QueueSize)
  <2>1. Len(queue) # 0
    BY <1>0, <1>2, BoundsAssumption
  <2> QED BY <1>0, <1>2, <2>1, EmptySeq DEF StopFlag
<1> QED BY <1>1, <1>2

LEMMA AppendedNonempty ==
    ASSUME TypeOK, NEW item \in Item PROVE Append(queue, item) # <<>>
<1>1. queue \in Seq(Item)
  BY DEF TypeOK, Item
<1> QED BY <1>1, AppendProperties

LEMMA EndNext == TypeOK /\ EndInv /\ [Next]_vars => EndInv'
<1> SUFFICES ASSUME TypeOK, EndInv, [Next]_vars PROVE EndInv'
  OBVIOUS
<1> USE DEF EndInv, TypeOK, Kinds, Conn, Access, ReadersGone, Alive, stopVars, errorVars, readerVars,
            ownerVars
<1>1. ASSUME Negotiate PROVE EndInv'
  BY <1>1 DEF Negotiate, SetUp
<1>2. ASSUME Dial PROVE EndInv'
  BY <1>2 DEF Dial, SetUp
<1>3. ASSUME Subscribe PROVE EndInv'
  BY <1>3 DEF Subscribe, SetUp
<1>4. ASSUME StartReader PROVE EndInv'
  BY <1>4 DEF StartReader, SetUp
<1>5. ASSUME RecvStopped PROVE EndInv'
  BY <1>5 DEF RecvStopped, Ends
<1>6. ASSUME RecvPending PROVE EndInv'
  BY <1>6 DEF RecvPending
<1>7. ASSUME RecvItem PROVE EndInv'
  BY <1>7 DEF RecvItem, Calling, HandOver, Ends
<1>8. ASSUME RecvEmpty PROVE EndInv'
  BY <1>8 DEF RecvEmpty, Calling
<1>9. ASSUME AfterEmpty PROVE EndInv'
  BY <1>9 DEF AfterEmpty
<1>10. ASSUME Drain PROVE EndInv'
  BY <1>10, ReaderErrorType DEF Drain, HandOver, Ends
<1>11. ASSUME Close PROVE EndInv'
  BY <1>11 DEF Close, StopFlag
<1>12. ASSUME Join PROVE EndInv'
  BY <1>12 DEF Join
<1>13. ASSUME Poll PROVE EndInv'
  BY <1>13 DEF Poll
<1>14. ASSUME RequestStop PROVE EndInv'
  BY <1>14, StopFillsQueue DEF RequestStop, StopFlag
<1>15. ASSUME RequestStopAbort PROVE EndInv'
  BY <1>15 DEF RequestStopAbort
<1>16. ASSUME NEW f \in Feeds, Receive(f) PROVE EndInv'
  BY <1>16 DEF Receive
<1>17. ASSUME NEW f \in Feeds, Put(f) PROVE EndInv'
  <2>1. [feed |-> f, n |-> accepted[f]] \in Item
    BY ActorFacts DEF Item
  <2>2. Append(queue, [feed |-> f, n |-> accepted[f]]) # <<>>
    BY <2>1, AppendedNonempty
  <2> QED BY <1>17, <2>2 DEF Put
<1>18. ASSUME NEW f \in Feeds, CheckReconnect(f) PROVE EndInv'
  BY <1>18 DEF CheckReconnect
<1>19. ASSUME NEW f \in Feeds, ReaderFails(f) PROVE EndInv'
  BY <1>19 DEF ReaderFails, Recorded
<1>20. ASSUME NEW f \in Feeds, ReaderExit(f) PROVE EndInv'
  BY <1>20 DEF ReaderExit
<1>21. ASSUME NEW a \in Actors, Report(a) PROVE EndInv'
  BY <1>21 DEF Report, ReportSteps
<1>22. ASSUME UNCHANGED vars PROVE EndInv'
  BY <1>22 DEF vars
<1> QED BY ActorFacts, <1>1, <1>2, <1>3, <1>4, <1>5, <1>6, <1>7, <1>8, <1>9, <1>10, <1>11,
       <1>12, <1>13, <1>14, <1>15, <1>16, <1>17, <1>18, <1>19, <1>20, <1>21, <1>22
       DEF Next, OwnerStep, ReaderStep

-----------------------------------------------------------------------------
(* Sessions.                                                               *)

\* Every reader is started after its session was opened, and started once.
OwnedInv ==
    /\ pc \in {"negotiate", "dial", "subscribe"} => \A f \in Feeds : reader[f] = "unstarted"
    /\ pc = "start" => \A f \in Feeds : f >= idx => reader[f] = "unstarted"
    /\ pc = "negotiate" => \A f \in Feeds : f < idx => client[f] = "open"
    /\ pc = "dial" => \A f \in Feeds : f <= idx => client[f] = "open"
    /\ pc \in {"subscribe", "start"} => \A f \in Feeds : reader[f] = "unstarted" => client[f] = "open"
    /\ SessionOwned

LEMMA OwnedInit == Init => OwnedInv
  BY ActorFacts DEF Init, OwnedInv, SessionOwned, Alive

LEMMA OwnedNext == TypeOK /\ OwnedInv /\ [Next]_vars => OwnedInv'
<1> SUFFICES ASSUME TypeOK, OwnedInv, [Next]_vars PROVE OwnedInv'
  OBVIOUS
<1> USE DEF OwnedInv, SessionOwned, Alive, stopVars, errorVars, readerVars, ownerVars
<1>0. /\ reader \in [Feeds -> {"unstarted", "read", "put", "check", "report", "exit", "done"}]
       /\ client \in [Feeds -> {"none", "open", "closed"}] /\ idx \in Feeds /\ idx \in Nat
  BY ActorFacts DEF TypeOK
<1>f. \A f \in Feeds : f \in Nat /\ f <= NumFeeds
  BY ActorFacts
<1>1. ASSUME Negotiate PROVE OwnedInv'
  <2>1. \A f \in Feeds : f <= idx => client'[f] = "open"
    BY <1>1, <1>0, <1>f DEF Negotiate
  <2>2. pc' \in {"dial", "close"} /\ \A f \in Feeds : reader'[f] = "unstarted"
    BY <1>1 DEF Negotiate, SetUp
  <2> QED BY <1>1, <2>1, <2>2 DEF Negotiate
<1>2. ASSUME Dial PROVE OwnedInv'
  <2>1. \A f \in Feeds : reader'[f] = "unstarted"
    BY <1>2 DEF Dial
  <2>2. CASE idx = NumFeeds
    <3>1. \A f \in Feeds : client'[f] = "open"
      BY <1>2, <2>2, <1>f DEF Dial
    <3>2. pc' \in {"subscribe", "close"}
      BY <1>2, <2>2 DEF Dial, SetUp
    <3> QED BY <2>1, <3>1, <3>2
  <2>3. CASE idx # NumFeeds
    <3>1. idx' = idx + 1 /\ client' = client /\ pc' \in {"negotiate", "close"}
      BY <1>2, <2>3 DEF Dial, SetUp
    <3>2. \A f \in Feeds : f < idx' => client'[f] = "open"
      <4> SUFFICES ASSUME NEW f \in Feeds, f < idx' PROVE client'[f] = "open"
        OBVIOUS
      <4>1. f <= idx
        BY <3>1, <1>0, <1>f
      <4> QED BY <1>2, <4>1, <3>1 DEF Dial
    <3> QED BY <2>1, <3>1, <3>2
  <2> QED BY <2>2, <2>3
<1>3. ASSUME Subscribe PROVE OwnedInv'
  BY <1>3, <1>0, <1>f DEF Subscribe, SetUp
<1>4. ASSUME StartReader PROVE OwnedInv'
  <2>1. client' = client /\ client[idx] = "open" /\ pc' \in {"start", "recv", "close"}
    <3>1. reader[idx] = "unstarted"
      BY <1>4, <1>0 DEF StartReader
    <3> QED BY <1>4, <3>1, <1>0 DEF StartReader
  <2>2. \A f \in Feeds : reader'[f] = reader[f] \/ (f = idx /\ reader'[f] = "read")
    BY <1>4, <1>0 DEF StartReader
  <2>3. \A f \in Feeds : pc' = "start" /\ f >= idx' => reader'[f] = "unstarted"
    <3> SUFFICES ASSUME NEW f \in Feeds, pc' = "start", f >= idx' PROVE reader'[f] = "unstarted"
      OBVIOUS
    <3>1. idx # NumFeeds
      BY <1>4 DEF StartReader
    <3>2. idx' = idx + 1
      BY <1>4, <3>1 DEF StartReader
    <3>3. f >= idx /\ f # idx
      BY <3>2, <1>0, <1>f
    <3> QED BY <1>4, <3>3, <2>2 DEF StartReader
  <2>4. \A f \in Feeds : Alive(f)' => client'[f] = "open"
    BY <2>1, <2>2
  <2>5. pc' = "start" => \A f \in Feeds : reader'[f] = "unstarted" => client'[f] = "open"
    BY <1>4, <2>1, <2>2 DEF StartReader
  <2> QED BY <2>1, <2>3, <2>4, <2>5
<1>5. ASSUME RecvStopped PROVE OwnedInv'
  BY <1>5, <1>0, <1>f DEF RecvStopped, Ends
<1>6. ASSUME RecvPending PROVE OwnedInv'
  BY <1>6, <1>0, <1>f DEF RecvPending
<1>7. ASSUME RecvItem PROVE OwnedInv'
  BY <1>7, <1>0, <1>f DEF RecvItem, HandOver, Ends
<1>8. ASSUME RecvEmpty PROVE OwnedInv'
  BY <1>8, <1>0, <1>f DEF RecvEmpty
<1>9. ASSUME AfterEmpty PROVE OwnedInv'
  BY <1>9, <1>0, <1>f DEF AfterEmpty
<1>10. ASSUME Drain PROVE OwnedInv'
  BY <1>10, <1>0, <1>f DEF Drain, HandOver, Ends
<1>11. ASSUME Close PROVE OwnedInv'
  BY <1>11, <1>0, <1>f DEF Close, StopFlag
<1>12. ASSUME Join PROVE OwnedInv'
  BY <1>12, <1>0 DEF Join, Started
<1>13. ASSUME Poll PROVE OwnedInv'
  BY <1>13, <1>0, <1>f DEF Poll
<1>14. ASSUME RequestStop PROVE OwnedInv'
  BY <1>14, <1>0, <1>f DEF RequestStop, StopFlag
<1>15. ASSUME RequestStopAbort PROVE OwnedInv'
  BY <1>15, <1>0, <1>f DEF RequestStopAbort
<1>16. ASSUME NEW f \in Feeds, Receive(f) PROVE OwnedInv'
  <2>1. reader[f] = "read" /\ \A g \in Feeds : g # f => reader'[g] = reader[g]
    BY <1>16, <1>0 DEF Receive
  <2>2. reader'[f] \in {"exit", "put"} /\ client' = client /\ pc' = pc /\ idx' = idx
    BY <1>16, <1>0 DEF Receive
  <2> QED BY <2>1, <2>2
<1>17. ASSUME NEW f \in Feeds, Put(f) PROVE OwnedInv'
  BY <1>17, <1>0 DEF Put
<1>18. ASSUME NEW f \in Feeds, CheckReconnect(f) PROVE OwnedInv'
  BY <1>18, <1>0 DEF CheckReconnect
<1>19. ASSUME NEW f \in Feeds, ReaderFails(f) PROVE OwnedInv'
  <2>1. reader[f] = "read" /\ \A g \in Feeds : g # f => reader'[g] = reader[g]
    BY <1>19, <1>0 DEF ReaderFails
  <2>2. reader'[f] \in {"exit", "report"} /\ client' = client /\ pc' = pc /\ idx' = idx
    BY <1>19, <1>0 DEF ReaderFails
  <2> QED BY <2>1, <2>2
<1>20. ASSUME NEW f \in Feeds, ReaderExit(f) PROVE OwnedInv'
  BY <1>20, <1>0 DEF ReaderExit
<1>21. ASSUME NEW a \in Actors, Report(a) PROVE OwnedInv'
  BY <1>21 DEF Report, ReportSteps
<1>22. ASSUME UNCHANGED vars PROVE OwnedInv'
  BY <1>22 DEF vars
<1> QED BY ActorFacts, <1>1, <1>2, <1>3, <1>4, <1>5, <1>6, <1>7, <1>8, <1>9, <1>10, <1>11,
       <1>12, <1>13, <1>14, <1>15, <1>16, <1>17, <1>18, <1>19, <1>20, <1>21, <1>22
       DEF Next, OwnerStep, ReaderStep

\* Whatever fails and whoever stops: no session is closed under its reader
\* (public_transport.py:371).
THEOREM SessionsAreOwned == Spec => []SessionOwned
<1>1. Init => TypeOK /\ OwnedInv
  BY TypeInit, OwnedInit
<1>2. TypeOK /\ OwnedInv /\ [Next]_vars => (TypeOK /\ OwnedInv)'
  BY TypeNext, OwnedNext
<1>3. OwnedInv => SessionOwned
  BY DEF OwnedInv
<1> QED BY <1>1, <1>2, <1>3, PTL DEF Spec

-----------------------------------------------------------------------------
(* Failures.                                                               *)

SomeAccess == \E i \in 1..Len(errors) : errors[i] = Access

\* A reader keeps its cause, and is past its first step of the report only with the
\* error recorded, past the second only with the reconnect requested.
ReportInv ==
    /\ \A f \in Feeds : report[f] > 0 => reader[f] = "report"
    /\ \A f \in Feeds : cause[f] = Access =>
          reader[f] \in {"report", "done"} /\ (report[f] = 1 \/ SomeAccess)
    /\ \A f \in Feeds : reader[f] = "report" /\ report[f] \in {0, 3} => reconnect
    /\ \A f \in Feeds : reader[f] = "exit" => reconnect \/ stopped
    /\ NoSilentReader
    /\ AccessErrorWins

LEMMA ReportInit == Init => ReportInv
  BY ActorFacts DEF Init, ReportInv, NoSilentReader, AccessErrorWins, Conn, Access

LEMMA RecordedAccess ==
    ASSUME TypeOK, NEW kind \in Kinds
    PROVE  LET some == \E i \in 1..Len(Append(errors, kind)) : Append(errors, kind)[i] = Access
           IN  (SomeAccess => some) /\ (kind = Access => some)
<1>1. errors \in Seq(Kinds) /\ Len(errors) \in Nat
  BY LenProperties DEF TypeOK
<1>2. /\ Len(Append(errors, kind)) = Len(errors) + 1
      /\ \A i \in 1..Len(errors) : Append(errors, kind)[i] = errors[i]
      /\ Append(errors, kind)[Len(errors) + 1] = kind
  BY <1>1, AppendProperties
<1> QED BY <1>1, <1>2 DEF SomeAccess

LEMMA OneError == SomeAccess <=> \E i \in 1..Len(<<ReaderError>>) : <<ReaderError>>[i] = Access
<1>1. (\E i \in 1..Len(<<ReaderError>>) : <<ReaderError>>[i] = Access) <=> ReaderError = Access
  OBVIOUS
<1> QED BY <1>1 DEF ReaderError, SomeAccess, Access, Conn

LEMMA ReportNext == TypeOK /\ EndInv /\ OwnedInv /\ ReportInv /\ [Next]_vars => ReportInv'
<1> SUFFICES ASSUME TypeOK, EndInv, OwnedInv, ReportInv, [Next]_vars PROVE ReportInv'
  OBVIOUS
<1> USE DEF ReportInv, NoSilentReader, AccessErrorWins, Conn, Access, stopVars, errorVars, readerVars, ownerVars
<1>0. /\ reader \in [Feeds -> {"unstarted", "read", "put", "check", "report", "exit", "done"}]
      /\ report \in [Actors -> 0..3] /\ cause \in [Actors -> Kinds] /\ idx \in Feeds
      /\ stopped \in BOOLEAN /\ reconnect \in BOOLEAN
  BY DEF TypeOK
<1>f. Feeds \subseteq Actors /\ Owner \in Actors /\ Owner \notin Feeds
  BY ActorFacts
<1>e. ASSUME errors' = errors PROVE SomeAccess' <=> SomeAccess
  BY <1>e DEF SomeAccess
<1>1. ASSUME Negotiate PROVE ReportInv'
  BY <1>1, <1>e DEF Negotiate, SetUp
<1>2. ASSUME Dial PROVE ReportInv'
  BY <1>2, <1>e DEF Dial, SetUp
<1>3. ASSUME Subscribe PROVE ReportInv'
  BY <1>3, <1>e DEF Subscribe, SetUp
<1>4. ASSUME StartReader PROVE ReportInv'
  <2>1. reader[idx] = "unstarted" /\ ~(report[idx] > 0)
    BY <1>4, <1>0, <1>f, ActorFacts DEF StartReader, OwnedInv
  <2>2. \A f \in Feeds : reader'[f] = reader[f] \/ (f = idx /\ reader'[f] = "read")
    BY <1>4, <1>0 DEF StartReader
  <2>3. UNCHANGED <<report, cause, errors, reconnect, stopped>>
    BY <1>4 DEF StartReader
  <2>4. outcome' # Conn \/ outcome' = outcome
    BY <1>4 DEF StartReader
  <2> QED BY <2>1, <2>2, <2>3, <2>4, <1>e
<1>5. ASSUME RecvStopped PROVE ReportInv'
  BY <1>5, <1>e DEF RecvStopped, Ends
<1>6. ASSUME RecvPending PROVE ReportInv'
  BY <1>6, <1>e DEF RecvPending
<1>7. ASSUME RecvItem PROVE ReportInv'
  BY <1>7, <1>e DEF RecvItem, HandOver, Ends
<1>8. ASSUME RecvEmpty PROVE ReportInv'
  BY <1>8, <1>e DEF RecvEmpty
<1>9. ASSUME AfterEmpty PROVE ReportInv'
  BY <1>9, <1>e DEF AfterEmpty
<1>10. ASSUME Drain PROVE ReportInv'
  <2>1. UNCHANGED <<report, cause, reader, reconnect, stopped>>
    BY <1>10 DEF Drain
  <2>2. SomeAccess' <=> SomeAccess
    <3>1. errors' = errors \/ errors' = <<ReaderError>>
      BY <1>10 DEF Drain
    <3>2. CASE errors' = <<ReaderError>>
      BY <3>2, OneError DEF SomeAccess
    <3> QED BY <3>1, <3>2, <1>e
  <2>3. outcome' = Conn => \A f \in Feeds : cause[f] # Access
    <3> SUFFICES ASSUME outcome' = Conn, NEW f \in Feeds, cause[f] = Access PROVE FALSE
      OBVIOUS
    <3>1. CASE queue # <<>>
      BY <1>10, <3>1 DEF Drain, HandOver, Ends
    <3>2. CASE queue = <<>>
      <4>1. ReaderError = Conn /\ ~SomeAccess
        BY <1>10, <3>2 DEF Drain, Ends, ReaderError, SomeAccess
      <4>2. ~Alive(f)
        BY <1>10 DEF Drain, EndInv, ReadersGone
      <4>3. reader[f] = "done" /\ ~(report[f] > 0)
        BY <4>2 DEF Alive
      <4> QED BY <4>1, <4>3
    <3> QED BY <3>1, <3>2
  <2> QED BY <2>1, <2>2, <2>3
<1>11. ASSUME Close PROVE ReportInv'
  BY <1>11, <1>e DEF Close, StopFlag
<1>12. ASSUME Join PROVE ReportInv'
  BY <1>12, <1>e DEF Join
<1>13. ASSUME Poll PROVE ReportInv'
  <2>1. \A f \in Feeds : report'[f] = report[f] /\ cause'[f] = cause[f]
    BY <1>13, <1>0, <1>f DEF Poll
  <2> QED BY <1>13, <2>1, <1>e DEF Poll
<1>14. ASSUME RequestStop PROVE ReportInv'
  BY <1>14, <1>e DEF RequestStop, StopFlag
<1>15. ASSUME RequestStopAbort PROVE ReportInv'
  BY <1>15, <1>e DEF RequestStopAbort
<1>16. ASSUME NEW f \in Feeds, Receive(f) PROVE ReportInv'
  <2>1. reader[f] = "read" /\ \A g \in Feeds : g # f => reader'[g] = reader[g]
    BY <1>16, <1>0 DEF Receive
  <2>2. reader'[f] = "put" \/ (stopped /\ reader'[f] = "exit")
    BY <1>16, <1>0 DEF Receive
  <2>3. UNCHANGED <<report, cause, errors, reconnect, stopped, outcome>>
    BY <1>16 DEF Receive
  <2> QED BY <2>1, <2>2, <2>3, <1>e
<1>17. ASSUME NEW f \in Feeds, Put(f) PROVE ReportInv'
  BY <1>17, <1>0, <1>f, <1>e DEF Put
<1>18. ASSUME NEW f \in Feeds, CheckReconnect(f) PROVE ReportInv'
  BY <1>18, <1>0, <1>f, <1>e DEF CheckReconnect
<1>19. ASSUME NEW f \in Feeds, ReaderFails(f) PROVE ReportInv'
  <2>1. reader[f] = "read" /\ \A g \in Feeds : g # f => reader'[g] = reader[g]
    BY <1>19, <1>0 DEF ReaderFails
  <2>2. UNCHANGED <<errors, reconnect, stopped, outcome>>
    BY <1>19 DEF ReaderFails
  <2>3. outcome \notin Kinds
    BY <2>1 DEF EndInv, Alive
  <2>4. \A g \in Feeds : g # f => report'[g] = report[g] /\ cause'[g] = cause[g]
    BY <1>19, <1>0, <1>f DEF ReaderFails
  <2>5. \/ reader'[f] = "report" /\ report'[f] = 1
        \/ reader'[f] = "exit" /\ report'[f] = report[f] /\ reconnect /\ cause'[f] = Conn
    <3>1. PICK kind \in Kinds :
            /\ cause' = [cause EXCEPT ![f] = kind]
            /\ IF Recorded(kind)
               THEN /\ report' = [report EXCEPT ![f] = 1]
                    /\ reader' = [reader EXCEPT ![f] = "report"]
               ELSE /\ reader' = [reader EXCEPT ![f] = "exit"]
                    /\ UNCHANGED report
      BY <1>19 DEF ReaderFails, Kinds
    <3> QED BY <3>1, <1>0, <1>f DEF Recorded
  <2>6. ~(report[f] > 0)
    BY <2>1
  <2> QED BY <2>1, <2>2, <2>3, <2>4, <2>5, <2>6, <1>e DEF Kinds
<1>20. ASSUME NEW f \in Feeds, ReaderExit(f) PROVE ReportInv'
  BY <1>20, <1>0, <1>f, <1>e DEF ReaderExit
<1>21. ASSUME NEW a \in Actors, Report(a) PROVE ReportInv'
  <2>1. report[a] \in 1..3 /\ \A g \in Feeds : g # a => report'[g] = report[g]
    BY <1>21, <1>0, <1>f DEF Report
  <2>2. UNCHANGED <<cause, reader, stopped, outcome>>
    BY <1>21 DEF Report
  <2>3. /\ report[a] = 1 => report'[a] = 2 /\ errors' = Append(errors, cause[a]) /\ reconnect' = reconnect
        /\ report[a] = 2 => report'[a] = 3 /\ errors' = errors /\ reconnect'
        /\ report[a] = 3 => report'[a] = 0 /\ errors' = errors /\ reconnect' = reconnect
    <3>1. /\ report' = [report EXCEPT ![a] = (report[a] + 1) % 4]
          /\ errors' = IF ReportSteps[report[a]] = "record" THEN Append(errors, cause[a]) ELSE errors
          /\ reconnect' = (reconnect \/ ReportSteps[report[a]] = "flag")
      BY <1>21 DEF Report
    <3>2. ReportSteps[1] = "record" /\ ReportSteps[2] = "flag" /\ ReportSteps[3] = "abort"
      BY DEF ReportSteps
    <3>3. report'[a] = (report[a] + 1) % 4
      BY <3>1, <1>0
    <3>4. CASE report[a] = 1
      BY <3>1, <3>2, <3>3, <3>4, <1>0
    <3>5. CASE report[a] = 2
      <4>1. reconnect'
        <5>1. ReportSteps[report[a]] = "flag"
          BY <3>2, <3>5
        <5> QED BY <1>21, <5>1 DEF Report
      <4> QED BY <3>1, <3>2, <3>3, <3>5, <4>1, <1>0
    <3>6. CASE report[a] = 3
      BY <3>1, <3>2, <3>3, <3>6, <1>0
    <3> QED BY <3>4, <3>5, <3>6, <2>1
  <2>4. SomeAccess => SomeAccess'
    <3>1. cause[a] \in Kinds
      BY <1>0
    <3>2. CASE report[a] = 1
      BY <3>1, <3>2, <2>3, RecordedAccess DEF SomeAccess
    <3>3. CASE report[a] # 1
      BY <3>3, <2>1, <2>3, <1>e
    <3> QED BY <3>2, <3>3
  <2>5. report[a] = 1 /\ cause[a] = Access => SomeAccess'
    BY <2>3, <1>0, RecordedAccess DEF SomeAccess
  <2>6. (reconnect => reconnect') /\ reconnect' \in BOOLEAN
    <3>1. report[a] = 1 \/ report[a] = 2 \/ report[a] = 3
      BY <2>1
    <3> QED BY <3>1, <2>3, <1>0
  <2>7. a \in Feeds => reader[a] = "report"
    BY <2>1
  <2> QED BY <2>1, <2>2, <2>3, <2>4, <2>5, <2>6, <2>7
<1>22. ASSUME UNCHANGED vars PROVE ReportInv'
  BY <1>22, <1>e DEF vars
<1> QED BY ActorFacts, <1>1, <1>2, <1>3, <1>4, <1>5, <1>6, <1>7, <1>8, <1>9, <1>10, <1>11,
       <1>12, <1>13, <1>14, <1>15, <1>16, <1>17, <1>18, <1>19, <1>20, <1>21, <1>22
       DEF Next, OwnerStep, ReaderStep

\* No reader ends unheard, and a refusal is never taken for a lost connection
\* (public_transport.py:144, 338).
THEOREM FailuresAreReported == Spec => []ErrorsReported
<1>1. Init => TypeOK /\ EndInv /\ OwnedInv /\ ReportInv
  BY TypeInit, EndInit, OwnedInit, ReportInit
<1>2. TypeOK /\ EndInv /\ OwnedInv /\ ReportInv /\ [Next]_vars
      => (TypeOK /\ EndInv /\ OwnedInv /\ ReportInv)'
  BY TypeNext, EndNext, OwnedNext, ReportNext
<1>3. ReportInv => ErrorsReported
  BY DEF ReportInv, ErrorsReported
<1> QED BY <1>1, <1>2, <1>3, PTL DEF Spec

-----------------------------------------------------------------------------
(* The merge.                                                              *)

\* The last frame of a connection that left its reader, into the queue or, after a
\* stop, nowhere.
Published(f) == IF reader[f] = "put" THEN accepted[f] - 1 ELSE accepted[f]

\* Whether nothing of a connection was dropped: a reader drops after a stop, and then
\* takes on nothing more.
Whole(f) == ~stopped \/ reader[f] = "put"

Frame(f, k) == [feed |-> f, n |-> k]
Queued(item) == \E i \in 1..Len(queue) : queue[i] = item

\* What the queue holds of a connection are its next frames, in order and without a gap,
\* and as long as nothing was dropped, all of them.
ItemsKnown ==
    \A i \in 1..Len(queue) :
        /\ queue[i] = Sentinel \/ queue[i].feed \in Feeds
        /\ \A f \in Feeds : queue[i].feed = f =>
              delivered[f] < queue[i].n /\ queue[i].n <= Published(f)
ItemsOrdered ==
    \A i, j \in 1..Len(queue) :
        i < j /\ queue[i].feed \in Feeds /\ queue[i].feed = queue[j].feed => queue[i].n < queue[j].n
ItemsGapless ==
    \A i \in 1..Len(queue) : queue[i].feed \in Feeds =>
        \/ queue[i].n = delivered[queue[i].feed] + 1
        \/ \E j \in 1..Len(queue) : j < i /\ queue[j] = Frame(queue[i].feed, queue[i].n - 1)
AllQueued ==
    \A f \in Feeds, k \in Nat :
        Whole(f) /\ delivered[f] < k /\ k <= Published(f) => Queued(Frame(f, k))

QueueInv ==
    /\ \A f \in Feeds : delivered[f] <= Published(f)
    /\ ItemsKnown /\ ItemsOrdered /\ ItemsGapless /\ AllQueued

LEMMA QueueTypes ==
    ASSUME TypeOK
    PROVE  /\ queue \in Seq(Item) /\ Len(queue) \in Nat
           /\ \A i \in 1..Len(queue) : queue[i] \in Item /\ queue[i].feed \in Actors /\ queue[i].n \in Nat
           /\ delivered \in [Feeds -> Nat] /\ accepted \in [Feeds -> Nat]
           /\ \A f \in Feeds : Published(f) \in Int
<1>1. queue \in Seq(Item) /\ Len(queue) \in Nat
  BY LenProperties DEF TypeOK, Item
<1>2. \A i \in 1..Len(queue) : queue[i] \in Item
  BY <1>1, ElementOfSeq
<1>3. \A i \in 1..Len(queue) : queue[i].feed \in Actors /\ queue[i].n \in Nat
  BY <1>2 DEF Item
<1>4. delivered \in [Feeds -> Nat] /\ accepted \in [Feeds -> Nat]
  BY DEF TypeOK
<1>5. \A f \in Feeds : Published(f) \in Int
  BY <1>4 DEF Published
<1> QED BY <1>1, <1>2, <1>3, <1>4, <1>5

LEMMA QueueInit == Init => QueueInv
<1> SUFFICES ASSUME Init PROVE QueueInv
  OBVIOUS
<1>1. Len(queue) = 0 /\ ~(\E i \in 1..Len(queue) : TRUE)
  BY EmptySeq DEF Init
<1>2. \A f \in Feeds : delivered[f] = 0 /\ Published(f) = 0
  BY DEF Init, Published
<1> QED BY <1>1, <1>2 DEF QueueInv, ItemsKnown, ItemsOrdered, ItemsGapless, AllQueued

\* A step that leaves the queue alone and publishes nothing, but may drop.
LEMMA QueueKept ==
    ASSUME TypeOK, QueueInv, UNCHANGED <<queue, delivered>>,
           \A f \in Feeds : \/ Published(f)' = Published(f) /\ (Whole(f)' => Whole(f))
                            \/ Published(f)' = Published(f) + 1 /\ ~Whole(f)'
    PROVE  QueueInv'
<1>0. \A f \in Feeds : Published(f) \in Int /\ delivered[f] \in Int
  BY QueueTypes
<1>1. \A f \in Feeds : delivered'[f] <= Published(f)'
  BY <1>0 DEF QueueInv
<1>2. ItemsKnown'
  <2>1. \A i \in 1..Len(queue) : queue[i].n \in Nat
    BY QueueTypes
  <2>2. ASSUME NEW i \in 1..Len(queue), NEW f \in Feeds, queue[i].feed = f
        PROVE  delivered[f] < queue[i].n /\ queue[i].n <= Published(f)'
    BY <1>0, <2>1, <2>2 DEF QueueInv, ItemsKnown
  <2> QED BY <2>2 DEF QueueInv, ItemsKnown
<1>3. ItemsOrdered' /\ ItemsGapless'
  BY DEF QueueInv, ItemsOrdered, ItemsGapless
<1>4. AllQueued'
  BY <1>0 DEF QueueInv, AllQueued, Queued
<1> QED BY <1>1, <1>2, <1>3, <1>4 DEF QueueInv

\* What stands at each place of an extended queue.
LEMMA Extended ==
    ASSUME TypeOK, NEW item \in Item, queue' = Append(queue, item)
    PROVE  /\ Len(queue') = Len(queue) + 1
           /\ \A i \in 1..Len(queue) : i \in 1..Len(queue') /\ queue'[i] = queue[i]
           /\ \A i \in 1..Len(queue') : i \in 1..Len(queue) \/ i = Len(queue')
           /\ Len(queue') \in 1..Len(queue') /\ queue'[Len(queue')] = item
<1>1. Len(queue') = Len(queue) + 1 /\ Len(queue) \in Nat
  BY QueueTypes, AppendProperties
<1>2. /\ \A i \in 1..Len(queue) : queue'[i] = queue[i]
      /\ queue'[Len(queue) + 1] = item
  BY QueueTypes, AppendProperties
<1> QED BY <1>1, <1>2

\* A frame is published.
LEMMA QueuePut ==
    ASSUME TypeOK, QueueInv, NEW f \in Feeds, reader[f] = "put",
           queue' = Append(queue, Frame(f, accepted[f])),
           reader' = [reader EXCEPT ![f] = "check"], UNCHANGED <<accepted, delivered, stopped>>
    PROVE  QueueInv'
<1> DEFINE item == Frame(f, accepted[f])
<1>0. /\ item \in Item /\ item.feed = f /\ item.n = accepted[f] /\ item # Sentinel
  BY ActorFacts, QueueTypes DEF Frame, Item, Sentinel
<1> HIDE DEF item
<1>1. /\ Published(f) = accepted[f] - 1 /\ Published(f)' = accepted[f]
      /\ \A g \in Feeds : g # f => Published(g)' = Published(g) /\ (Whole(g)' <=> Whole(g))
      /\ Whole(f)
  BY DEF Published, Whole, TypeOK
<1>2. /\ Len(queue') = Len(queue) + 1
      /\ \A i \in 1..Len(queue) : i \in 1..Len(queue') /\ queue'[i] = queue[i]
      /\ \A i \in 1..Len(queue') : i \in 1..Len(queue) \/ i = Len(queue')
      /\ Len(queue') \in 1..Len(queue') /\ queue'[Len(queue')] = item
  BY <1>0, Extended DEF item
<1>3. \A g \in Feeds : Published(g) \in Int /\ Published(g) <= Published(g)' /\ delivered[g] \in Nat
                       /\ delivered[g] <= Published(g) /\ accepted[g] \in Nat /\ Published(g)' \in Int
  BY <1>1, QueueTypes DEF QueueInv
<1>4. \A i \in 1..Len(queue) : queue[i].n \in Nat /\ i < Len(queue')
  BY <1>2, QueueTypes
<1>5. ItemsKnown'
  <2>1. \A i \in 1..Len(queue') : queue'[i] = Sentinel \/ queue'[i].feed \in Feeds
    BY <1>0, <1>2 DEF QueueInv, ItemsKnown
  <2>2. ASSUME NEW i \in 1..Len(queue'), NEW g \in Feeds, queue'[i].feed = g
        PROVE  delivered[g] < queue'[i].n /\ queue'[i].n <= Published(g)'
    <3>1. CASE i \in 1..Len(queue)
      <4>1. queue'[i] = queue[i] /\ queue[i].n \in Nat
        BY <3>1, <1>2, <1>4
      <4>2. delivered[g] < queue[i].n /\ queue[i].n <= Published(g)
        BY <2>2, <3>1, <4>1 DEF QueueInv, ItemsKnown
      <4> QED BY <4>1, <4>2, <1>3
    <3>2. CASE i = Len(queue')
      <4>1. g = f /\ queue'[i].n = accepted[f]
        BY <2>2, <3>2, <1>0, <1>2
      <4> QED BY <4>1, <1>1, <1>3
    <3> QED BY <3>1, <3>2, <1>2
  <2> QED BY <2>1, <2>2 DEF ItemsKnown
<1>6. ItemsOrdered'
  <2> SUFFICES ASSUME NEW i \in 1..Len(queue'), NEW j \in 1..Len(queue'), i < j,
                      queue'[i].feed \in Feeds, queue'[i].feed = queue'[j].feed
               PROVE  queue'[i].n < queue'[j].n
    BY DEF ItemsOrdered
  <2>1. i \in 1..Len(queue) /\ queue'[i] = queue[i]
    BY <1>2
  <2>2. CASE j \in 1..Len(queue)
    BY <2>1, <2>2, <1>2 DEF QueueInv, ItemsOrdered
  <2>3. CASE j = Len(queue')
    <3>1. queue[i].feed = f /\ queue'[j].n = accepted[f]
      BY <2>1, <2>3, <1>0, <1>2
    <3>2. queue[i] # Sentinel
      BY <2>1, ActorFacts DEF Sentinel
    <3>3. queue[i].n <= Published(f)
      BY <2>1, <3>1, <3>2 DEF QueueInv, ItemsKnown
    <3> QED BY <2>1, <3>1, <3>3, <1>1, <1>3, <1>4
  <2> QED BY <2>2, <2>3, <1>2
<1>7. ItemsGapless'
  <2> SUFFICES ASSUME NEW i \in 1..Len(queue'), queue'[i].feed \in Feeds
               PROVE  \/ queue'[i].n = delivered[queue'[i].feed] + 1
                      \/ \E j \in 1..Len(queue') :
                            j < i /\ queue'[j] = Frame(queue'[i].feed, queue'[i].n - 1)
    BY DEF ItemsGapless
  <2>1. CASE i \in 1..Len(queue)
    <3>1. queue'[i] = queue[i]
      BY <2>1, <1>2
    <3>2. \/ queue[i].n = delivered[queue[i].feed] + 1
          \/ \E j \in 1..Len(queue) : j < i /\ queue[j] = Frame(queue[i].feed, queue[i].n - 1)
      BY <2>1, <3>1 DEF QueueInv, ItemsGapless
    <3> QED BY <3>1, <3>2, <1>2
  <2>2. CASE i = Len(queue')
    <3>1. queue'[i].feed = f /\ queue'[i].n = accepted[f]
      BY <2>2, <1>0, <1>2
    <3>2. CASE delivered[f] = Published(f)
      BY <3>1, <3>2, <1>1, <1>3
    <3>3. CASE delivered[f] # Published(f)
      <4>1. Published(f) \in Nat /\ delivered[f] < Published(f)
        BY <3>3, <1>3
      <4>2. Queued(Frame(f, Published(f)))
        BY <4>1, <1>1, <1>3 DEF QueueInv, AllQueued
      <4>3. PICK j \in 1..Len(queue) : queue[j] = Frame(f, Published(f))
        BY <4>2 DEF Queued
      <4> QED BY <4>3, <3>1, <2>2, <1>1, <1>2, <1>4
    <3> QED BY <3>2, <3>3
  <2> QED BY <2>1, <2>2, <1>2
<1>8. AllQueued'
  <2> SUFFICES ASSUME NEW g \in Feeds, NEW k \in Nat, Whole(g)', delivered[g] < k, k <= Published(g)'
               PROVE  \E i \in 1..Len(queue') : queue'[i] = Frame(g, k)
    BY DEF AllQueued, Queued
  <2>1. CASE g = f /\ k = accepted[f]
    BY <2>1, <1>2 DEF item
  <2>2. CASE ~(g = f /\ k = accepted[f])
    <3>1. Whole(g) /\ k <= Published(g)
      BY <2>2, <1>1, <1>3
    <3>2. Queued(Frame(g, k))
      BY <3>1 DEF QueueInv, AllQueued
    <3> QED BY <3>2, <1>2 DEF Queued
  <2> QED BY <2>1, <2>2
<1>9. \A g \in Feeds : delivered'[g] <= Published(g)'
  BY <1>3
<1> QED BY <1>5, <1>6, <1>7, <1>8, <1>9 DEF QueueInv

\* A stop leaves its sentinel, or finds the queue full.
LEMMA QueueStop ==
    ASSUME TypeOK, QueueInv, StopFlag, UNCHANGED <<reader, accepted, delivered>>
    PROVE  QueueInv'
<1>1. \A f \in Feeds : Published(f)' = Published(f) /\ (Whole(f)' => Whole(f))
  BY DEF Published, Whole, StopFlag
<1>2. CASE queue' = queue
  BY <1>1, <1>2, QueueKept
<1>3. CASE queue' = Append(queue, Sentinel)
  <2>1. Sentinel \in Item /\ Sentinel.feed \notin Feeds /\ \A f \in Feeds, k \in Nat : Frame(f, k) # Sentinel
    BY ActorFacts DEF Sentinel, Frame
  <2>2. /\ Len(queue') = Len(queue) + 1
        /\ \A i \in 1..Len(queue) : i \in 1..Len(queue') /\ queue'[i] = queue[i]
        /\ \A i \in 1..Len(queue') : i \in 1..Len(queue) \/ i = Len(queue')
        /\ queue'[Len(queue')] = Sentinel
    BY <1>3, <2>1, Extended
  <2>3. ItemsKnown'
    <3>1. \A i \in 1..Len(queue') : queue'[i] = Sentinel \/ queue'[i].feed \in Feeds
      BY <2>2 DEF QueueInv, ItemsKnown
    <3>2. ASSUME NEW i \in 1..Len(queue'), NEW f \in Feeds, queue'[i].feed = f
          PROVE  delivered[f] < queue'[i].n /\ queue'[i].n <= Published(f)'
      <4>1. i \in 1..Len(queue) /\ queue'[i] = queue[i]
        BY <2>1, <2>2, <3>2
      <4> QED BY <4>1, <3>2, <1>1 DEF QueueInv, ItemsKnown
    <3> QED BY <3>1, <3>2 DEF ItemsKnown
  <2>4. ItemsOrdered'
    BY <2>1, <2>2 DEF QueueInv, ItemsOrdered
  <2>5. ItemsGapless'
    <3> SUFFICES ASSUME NEW i \in 1..Len(queue'), queue'[i].feed \in Feeds
                 PROVE  \/ queue'[i].n = delivered[queue'[i].feed] + 1
                        \/ \E j \in 1..Len(queue') :
                              j < i /\ queue'[j] = Frame(queue'[i].feed, queue'[i].n - 1)
      BY DEF ItemsGapless
    <3>1. i \in 1..Len(queue) /\ queue'[i] = queue[i]
      BY <2>1, <2>2
    <3>2. \/ queue[i].n = delivered[queue[i].feed] + 1
          \/ \E j \in 1..Len(queue) : j < i /\ queue[j] = Frame(queue[i].feed, queue[i].n - 1)
      BY <3>1 DEF QueueInv, ItemsGapless
    <3> QED BY <3>1, <3>2, <2>2
  <2>6. AllQueued'
    BY <1>1, <2>2 DEF QueueInv, AllQueued, Queued
  <2> QED BY <1>1, <2>3, <2>4, <2>5, <2>6 DEF QueueInv
<1> QED BY <1>2, <1>3 DEF StopFlag

\* What stands at each place of a queue whose head was taken.
LEMMA Taken ==
    ASSUME TypeOK, queue # <<>>, queue' = Tail(queue)
    PROVE  /\ Len(queue) >= 1 /\ Len(queue') = Len(queue) - 1 /\ 1 \in 1..Len(queue)
           /\ Head(queue) = queue[1]
           /\ \A i \in 1..Len(queue') : i + 1 \in 1..Len(queue) /\ queue'[i] = queue[i + 1]
           /\ \A i \in 1..Len(queue) : i = 1 \/ (i - 1 \in 1..Len(queue') /\ queue'[i - 1] = queue[i])
<1>1. queue \in Seq(Item) /\ Len(queue) \in Nat
  BY QueueTypes
<1>2. Len(queue) # 0
  BY <1>1, EmptySeq
<1>3. Len(queue') = Len(queue) - 1 /\ Head(queue) = queue[1]
  BY <1>1, HeadTailProperties
<1>4. \A i \in 1..Len(queue') : queue'[i] = queue[i + 1]
  BY <1>1, <1>3, HeadTailProperties
<1>5. \A i \in 1..Len(queue') : i + 1 \in 1..Len(queue)
  BY <1>1, <1>3
<1>6. \A i \in 1..Len(queue) : i = 1 \/ i - 1 \in 1..Len(queue')
  BY <1>1, <1>3
<1>7. \A i \in 1..Len(queue) : i = 1 \/ queue'[i - 1] = queue[i]
  <2> SUFFICES ASSUME NEW i \in 1..Len(queue), i # 1 PROVE queue'[i - 1] = queue[i]
    OBVIOUS
  <2>1. i - 1 \in 1..Len(queue') /\ (i - 1) + 1 = i
    BY <1>1, <1>6
  <2> QED BY <2>1, <1>4
<1> QED BY <1>1, <1>2, <1>3, <1>4, <1>5, <1>6, <1>7

\* The frame at the head of the queue is the next one of its connection.
LEMMA HeadIsNext ==
    ASSUME TypeOK, QueueInv, queue # <<>>, Head(queue) # Sentinel
    PROVE  /\ Head(queue).feed \in Feeds
           /\ Head(queue).n = delivered[Head(queue).feed] + 1
           /\ Head(queue).n <= Published(Head(queue).feed)
<1>1. queue \in Seq(Item) /\ Len(queue) \in Nat /\ 1 \in 1..Len(queue) /\ Head(queue) = queue[1]
  BY QueueTypes, EmptySeq, HeadTailProperties
<1>2. queue[1].feed \in Feeds
  BY <1>1 DEF QueueInv, ItemsKnown
<1>3. queue[1].n <= Published(queue[1].feed)
  BY <1>1, <1>2 DEF QueueInv, ItemsKnown
<1>4. queue[1].n = delivered[queue[1].feed] + 1
  BY <1>1, <1>2 DEF QueueInv, ItemsGapless
<1> QED BY <1>1, <1>2, <1>3, <1>4

LEMMA QueueTaken ==
    ASSUME TypeOK, QueueInv, queue # <<>>, queue' = Tail(queue), Head(queue) # Sentinel,
           delivered' = [delivered EXCEPT ![Head(queue).feed] = Head(queue).n],
           UNCHANGED <<reader, accepted, stopped>>
    PROVE  QueueInv'
<1> DEFINE f == Head(queue).feed
           m == Head(queue).n
<1>1. /\ f \in Feeds /\ m = delivered[f] + 1 /\ m <= Published(f) /\ m \in Nat
      /\ delivered' = [delivered EXCEPT ![f] = m]
  BY HeadIsNext, QueueTypes
<1>2. /\ Len(queue') = Len(queue) - 1 /\ 1 \in 1..Len(queue)
      /\ queue[1].feed = f /\ queue[1].n = m
      /\ \A i \in 1..Len(queue') : i + 1 \in 1..Len(queue) /\ queue'[i] = queue[i + 1]
      /\ \A i \in 1..Len(queue) : i = 1 \/ (i - 1 \in 1..Len(queue') /\ queue'[i - 1] = queue[i])
  BY Taken
<1> HIDE DEF f, m
<1>3. /\ \A g \in Feeds : Published(g)' = Published(g) /\ (Whole(g)' <=> Whole(g))
      /\ \A g \in Feeds : delivered[g] \in Nat /\ Published(g) \in Int
      /\ delivered'[f] = m /\ \A g \in Feeds : g # f => delivered'[g] = delivered[g]
  BY <1>1, QueueTypes DEF Published, Whole
<1>4. \A i \in 1..Len(queue) : queue[i].n \in Nat
  BY QueueTypes
<1>5. \A i \in 1..Len(queue) : i # 1 /\ queue[i].feed = f => m < queue[i].n
  BY <1>1, <1>2 DEF QueueInv, ItemsOrdered
<1>6. \A g \in Feeds : delivered'[g] <= Published(g)'
  BY <1>1, <1>3 DEF QueueInv
<1>7. ItemsKnown'
  <2>1. \A i \in 1..Len(queue') : queue'[i] = Sentinel \/ queue'[i].feed \in Feeds
    BY <1>2 DEF QueueInv, ItemsKnown
  <2>2. ASSUME NEW i \in 1..Len(queue'), NEW g \in Feeds, queue'[i].feed = g
        PROVE  delivered'[g] < queue'[i].n /\ queue'[i].n <= Published(g)'
    <3>1. i + 1 \in 1..Len(queue) /\ i + 1 # 1 /\ queue'[i] = queue[i + 1]
      BY <1>2
    <3>2. delivered[g] < queue[i + 1].n /\ queue[i + 1].n <= Published(g)
      BY <2>2, <3>1 DEF QueueInv, ItemsKnown
    <3> QED BY <2>2, <3>1, <3>2, <1>3, <1>5
  <2> QED BY <2>1, <2>2 DEF ItemsKnown
<1>8. ItemsOrdered'
  <2> SUFFICES ASSUME NEW i \in 1..Len(queue'), NEW j \in 1..Len(queue'), i < j,
                      queue'[i].feed \in Feeds, queue'[i].feed = queue'[j].feed
               PROVE  queue'[i].n < queue'[j].n
    BY DEF ItemsOrdered
  <2>1. /\ i + 1 \in 1..Len(queue) /\ queue'[i] = queue[i + 1]
        /\ j + 1 \in 1..Len(queue) /\ queue'[j] = queue[j + 1] /\ i + 1 < j + 1
    BY <1>2
  <2> QED BY <2>1 DEF QueueInv, ItemsOrdered
<1>9. ItemsGapless'
  <2> SUFFICES ASSUME NEW i \in 1..Len(queue'), NEW g \in Feeds, queue'[i].feed = g
               PROVE  \/ queue'[i].n = delivered'[g] + 1
                      \/ \E j \in 1..Len(queue') : j < i /\ queue'[j] = Frame(g, queue'[i].n - 1)
    BY DEF ItemsGapless
  <2>1. i + 1 \in 1..Len(queue) /\ i + 1 # 1 /\ queue'[i] = queue[i + 1] /\ queue[i + 1].n \in Nat
    BY <1>2, <1>4
  <2>2. CASE queue[i + 1].n = delivered[g] + 1
    BY <2>1, <2>2, <1>1, <1>3, <1>5
  <2>3. CASE queue[i + 1].n # delivered[g] + 1
    <3>1. PICK j \in 1..Len(queue) : j < i + 1 /\ queue[j] = Frame(g, queue[i + 1].n - 1)
      BY <2>1, <2>3 DEF QueueInv, ItemsGapless
    <3>2. CASE j = 1
      <4>1. f = g /\ m = queue[i + 1].n - 1
        BY <3>1, <3>2, <1>2 DEF Frame
      <4>2. queue'[i].n = m + 1
        BY <4>1, <2>1
      <4>3. delivered'[g] = m
        BY <4>1, <1>3
      <4> QED BY <4>2, <4>3
    <3>3. CASE j # 1
      <4>1. j - 1 \in 1..Len(queue') /\ queue'[j - 1] = queue[j] /\ j - 1 < i
        BY <3>1, <3>3, <1>2
      <4>2. queue'[j - 1] = Frame(g, queue'[i].n - 1)
        BY <4>1, <3>1, <2>1
      <4> QED BY <4>1, <4>2
    <3> QED BY <3>2, <3>3
  <2> QED BY <2>2, <2>3
<1>10. AllQueued'
  <2> SUFFICES ASSUME NEW g \in Feeds, NEW k \in Nat, Whole(g)', delivered'[g] < k, k <= Published(g)'
               PROVE  \E i \in 1..Len(queue') : queue'[i] = Frame(g, k)
    BY DEF AllQueued, Queued
  <2>1. Whole(g) /\ delivered[g] < k /\ k <= Published(g)
    BY <1>1, <1>3
  <2>2. PICK i \in 1..Len(queue) : queue[i] = Frame(g, k)
    BY <2>1 DEF QueueInv, AllQueued, Queued
  <2>3. i # 1
    <3> SUFFICES ASSUME i = 1 PROVE FALSE
      OBVIOUS
    <3>1. f = g /\ m = k
      BY <2>2, <1>2 DEF Frame
    <3> QED BY <3>1, <1>1, <1>3
  <2> QED BY <2>2, <2>3, <1>2
<1> QED BY <1>6, <1>7, <1>8, <1>9, <1>10 DEF QueueInv

LEMMA SentinelTaken ==
    ASSUME TypeOK, QueueInv, queue # <<>>, queue' = Tail(queue), Head(queue) = Sentinel,
           UNCHANGED <<reader, accepted, stopped, delivered>>
    PROVE  QueueInv'
<1>1. /\ Len(queue') = Len(queue) - 1 /\ queue[1] = Sentinel
      /\ \A i \in 1..Len(queue') : i + 1 \in 1..Len(queue) /\ queue'[i] = queue[i + 1]
      /\ \A i \in 1..Len(queue) : i = 1 \/ (i - 1 \in 1..Len(queue') /\ queue'[i - 1] = queue[i])
  BY Taken
<1>2. \A g \in Feeds : \A k : Frame(g, k) # Sentinel
  BY ActorFacts DEF Frame, Sentinel
<1>3. \A g \in Feeds : Published(g)' = Published(g) /\ (Whole(g)' <=> Whole(g))
  BY DEF Published, Whole
<1>4. \A g \in Feeds : delivered'[g] <= Published(g)'
  BY <1>3 DEF QueueInv
<1>5. ItemsKnown'
  <2>1. \A i \in 1..Len(queue') : queue'[i] = Sentinel \/ queue'[i].feed \in Feeds
    BY <1>1 DEF QueueInv, ItemsKnown
  <2>2. ASSUME NEW i \in 1..Len(queue'), NEW g \in Feeds, queue'[i].feed = g
        PROVE  delivered[g] < queue'[i].n /\ queue'[i].n <= Published(g)'
    BY <2>2, <1>1, <1>3 DEF QueueInv, ItemsKnown
  <2> QED BY <2>1, <2>2 DEF ItemsKnown
<1>6. ItemsOrdered'
  <2> SUFFICES ASSUME NEW i \in 1..Len(queue'), NEW j \in 1..Len(queue'), i < j,
                      queue'[i].feed \in Feeds, queue'[i].feed = queue'[j].feed
               PROVE  queue'[i].n < queue'[j].n
    BY DEF ItemsOrdered
  <2>1. /\ i + 1 \in 1..Len(queue) /\ queue'[i] = queue[i + 1]
        /\ j + 1 \in 1..Len(queue) /\ queue'[j] = queue[j + 1] /\ i + 1 < j + 1
    BY <1>1
  <2> QED BY <2>1 DEF QueueInv, ItemsOrdered
<1>7. ItemsGapless'
  <2> SUFFICES ASSUME NEW i \in 1..Len(queue'), NEW g \in Feeds, queue'[i].feed = g
               PROVE  \/ queue'[i].n = delivered[g] + 1
                      \/ \E j \in 1..Len(queue') : j < i /\ queue'[j] = Frame(g, queue'[i].n - 1)
    BY DEF ItemsGapless
  <2>1. i + 1 \in 1..Len(queue) /\ queue'[i] = queue[i + 1]
    BY <1>1
  <2>2. CASE queue[i + 1].n = delivered[g] + 1
    BY <2>1, <2>2
  <2>3. CASE queue[i + 1].n # delivered[g] + 1
    <3>1. PICK j \in 1..Len(queue) : j < i + 1 /\ queue[j] = Frame(g, queue[i + 1].n - 1)
      BY <2>1, <2>3 DEF QueueInv, ItemsGapless
    <3>2. j # 1
      BY <3>1, <1>1, <1>2
    <3>3. j - 1 \in 1..Len(queue') /\ queue'[j - 1] = queue[j] /\ j - 1 < i
      BY <3>1, <3>2, <1>1
    <3> QED BY <3>1, <3>3, <2>1
  <2> QED BY <2>2, <2>3
<1>8. AllQueued'
  <2> SUFFICES ASSUME NEW g \in Feeds, NEW k \in Nat, Whole(g)', delivered[g] < k, k <= Published(g)'
               PROVE  \E i \in 1..Len(queue') : queue'[i] = Frame(g, k)
    BY DEF AllQueued, Queued
  <2>1. PICK i \in 1..Len(queue) : queue[i] = Frame(g, k)
    BY <1>3 DEF QueueInv, AllQueued, Queued
  <2>2. i # 1
    BY <2>1, <1>1, <1>2
  <2> QED BY <2>1, <2>2, <1>1
<1> QED BY <1>4, <1>5, <1>6, <1>7, <1>8 DEF QueueInv

LEMMA QueueQuiet ==
    ASSUME TypeOK, QueueInv, UNCHANGED <<queue, delivered, reader, accepted, stopped>> PROVE QueueInv'
<1>1. \A f \in Feeds : Published(f)' = Published(f) /\ (Whole(f)' => Whole(f))
  BY DEF Published, Whole
<1> QED BY <1>1, QueueKept

\* A reader that has no frame in its hands before the step, nor after it.
LEMMA QueueIdle ==
    ASSUME TypeOK, QueueInv, UNCHANGED <<queue, delivered, accepted, stopped>>, NEW f \in Feeds,
           NEW place, reader' = [reader EXCEPT ![f] = place], place # "put", reader[f] # "put"
    PROVE  QueueInv'
<1>1. \A g \in Feeds : Published(g)' = Published(g) /\ (Whole(g)' => Whole(g))
  BY DEF Published, Whole, TypeOK
<1> QED BY <1>1, QueueKept

\* What recv() does with the head of the queue.
LEMMA QueueHanded ==
    ASSUME TypeOK, QueueInv, queue # <<>>, queue' = Tail(queue), HandOver(Head(queue)),
           UNCHANGED <<reader, accepted, stopped>>
    PROVE  QueueInv'
<1>1. CASE Head(queue) = Sentinel
  BY <1>1, SentinelTaken DEF HandOver
<1>2. CASE Head(queue) # Sentinel
  BY <1>2, QueueTaken DEF HandOver
<1> QED BY <1>1, <1>2

LEMMA QueueNext == TypeOK /\ OwnedInv /\ QueueInv /\ [Next]_vars => QueueInv'
<1> SUFFICES ASSUME TypeOK, OwnedInv, QueueInv, [Next]_vars PROVE QueueInv'
  OBVIOUS
<1> USE DEF stopVars, errorVars, readerVars, ownerVars
<1>1. ASSUME Negotiate PROVE QueueInv'
  BY <1>1, QueueQuiet DEF Negotiate, SetUp
<1>2. ASSUME Dial PROVE QueueInv'
  BY <1>2, QueueQuiet DEF Dial, SetUp
<1>3. ASSUME Subscribe PROVE QueueInv'
  BY <1>3, QueueQuiet DEF Subscribe, SetUp
<1>4. ASSUME StartReader PROVE QueueInv'
  <2>1. CASE reader' = reader
    BY <1>4, <2>1, QueueQuiet DEF StartReader
  <2>2. CASE reader' = [reader EXCEPT ![idx] = "read"]
    <3>1. idx \in Feeds /\ reader[idx] = "unstarted"
      BY <1>4, ActorFacts DEF StartReader, OwnedInv, TypeOK
    <3> QED BY <1>4, <2>2, <3>1, QueueIdle DEF StartReader
  <2> QED BY <1>4, <2>1, <2>2 DEF StartReader
<1>5. ASSUME RecvStopped PROVE QueueInv'
  BY <1>5, QueueQuiet DEF RecvStopped, Ends
<1>6. ASSUME RecvPending PROVE QueueInv'
  BY <1>6, QueueQuiet DEF RecvPending
<1>7. ASSUME RecvItem PROVE QueueInv'
  BY <1>7, QueueHanded DEF RecvItem
<1>8. ASSUME RecvEmpty PROVE QueueInv'
  BY <1>8, QueueQuiet DEF RecvEmpty
<1>9. ASSUME AfterEmpty PROVE QueueInv'
  BY <1>9, QueueQuiet DEF AfterEmpty
<1>10. ASSUME Drain PROVE QueueInv'
  <2>1. CASE queue # <<>>
    BY <1>10, <2>1, QueueHanded DEF Drain
  <2>2. CASE queue = <<>>
    BY <1>10, <2>2, QueueQuiet DEF Drain
  <2> QED BY <2>1, <2>2
<1>11. ASSUME Close PROVE QueueInv'
  <2>1. CASE stopped
    BY <1>11, <2>1, QueueQuiet DEF Close
  <2>2. CASE ~stopped
    BY <1>11, <2>2, QueueStop DEF Close
  <2> QED BY <2>1, <2>2
<1>12. ASSUME Join PROVE QueueInv'
  BY <1>12, QueueQuiet DEF Join
<1>13. ASSUME Poll PROVE QueueInv'
  BY <1>13, QueueQuiet DEF Poll
<1>14. ASSUME RequestStop PROVE QueueInv'
  BY <1>14, QueueStop DEF RequestStop
<1>15. ASSUME RequestStopAbort PROVE QueueInv'
  BY <1>15, QueueQuiet DEF RequestStopAbort
<1>16. ASSUME NEW f \in Feeds, Receive(f) PROVE QueueInv'
  <2>1. CASE stopped
    BY <1>16, <2>1, QueueIdle DEF Receive
  <2>2. CASE ~stopped
    <3>1. \A g \in Feeds : Published(g)' = Published(g) /\ (Whole(g)' => Whole(g))
      <4>1. /\ reader[f] = "read" /\ reader'[f] = "put" /\ accepted'[f] = accepted[f] + 1
            /\ accepted[f] \in Nat /\ ~stopped'
        BY <1>16, <2>2, QueueTypes DEF Receive, TypeOK
      <4>2. \A g \in Feeds : g # f => reader'[g] = reader[g] /\ accepted'[g] = accepted[g]
        BY <1>16, <2>2, QueueTypes DEF Receive, TypeOK
      <4> QED BY <4>1, <4>2, <2>2 DEF Published, Whole
    <3>2. UNCHANGED <<queue, delivered>>
      BY <1>16 DEF Receive
    <3> QED BY <3>1, <3>2, QueueKept
  <2> QED BY <2>1, <2>2
<1>17. ASSUME NEW f \in Feeds, Put(f) PROVE QueueInv'
  <2>1. CASE queue' = Append(queue, [feed |-> f, n |-> accepted[f]])
    BY <1>17, <2>1, QueuePut DEF Put, Frame
  <2>2. CASE stopped /\ queue' = queue
    <3>1. Published(f)' = Published(f) + 1 /\ ~Whole(f)'
      BY <1>17, <2>2, QueueTypes DEF Put, Published, Whole, TypeOK
    <3>2. \A g \in Feeds : g # f => Published(g)' = Published(g) /\ (Whole(g)' => Whole(g))
      BY <1>17 DEF Put, Published, Whole, TypeOK
    <3>3. UNCHANGED <<queue, delivered>>
      BY <1>17, <2>2 DEF Put
    <3> QED BY <3>1, <3>2, <3>3, QueueKept
  <2> QED BY <1>17, <2>1, <2>2 DEF Put
<1>18. ASSUME NEW f \in Feeds, CheckReconnect(f) PROVE QueueInv'
  BY <1>18, QueueIdle DEF CheckReconnect
<1>19. ASSUME NEW f \in Feeds, ReaderFails(f) PROVE QueueInv'
  <2>1. PICK place \in {"report", "exit"} : reader' = [reader EXCEPT ![f] = place]
    BY <1>19 DEF ReaderFails
  <2> QED BY <1>19, <2>1, QueueIdle DEF ReaderFails
<1>20. ASSUME NEW f \in Feeds, ReaderExit(f) PROVE QueueInv'
  BY <1>20, QueueIdle DEF ReaderExit
<1>21. ASSUME NEW a \in Actors, Report(a) PROVE QueueInv'
  BY <1>21, QueueQuiet DEF Report, ReportSteps
<1>22. ASSUME UNCHANGED vars PROVE QueueInv'
  BY <1>22, QueueQuiet DEF vars
<1> QED BY ActorFacts, <1>1, <1>2, <1>3, <1>4, <1>5, <1>6, <1>7, <1>8, <1>9, <1>10, <1>11,
       <1>12, <1>13, <1>14, <1>15, <1>16, <1>17, <1>18, <1>19, <1>20, <1>21, <1>22
       DEF Next, OwnerStep, ReaderStep

-----------------------------------------------------------------------------
(* The refinement.                                                         *)

LEMMA MergeInit == Init => Feed!Init
  BY DEF Init, Feed!Init, Feeds, Feed!Feeds

LEMMA MergeHandOver ==
    ASSUME TypeOK, QueueInv, queue # <<>>, outcome = "none", HandOver(Head(queue)), accepted' = accepted
    PROVE  Feed!Next
<1>1. CASE Head(queue) = Sentinel
  <2>1. Feed!Stop
    BY <1>1 DEF HandOver, Ends, Feed!Stop, Kinds, Conn, Access
  <2> QED BY <2>1 DEF Feed!Next
<1>2. CASE Head(queue) # Sentinel
  <2> DEFINE f == Head(queue).feed
  <2>1. f \in Feeds /\ Head(queue).n = delivered[f] + 1 /\ Head(queue).n <= Published(f)
    BY <1>2, HeadIsNext
  <2>2. delivered[f] < accepted[f]
    BY <2>1, QueueTypes DEF Published
  <2>3. delivered' = [delivered EXCEPT ![f] = delivered[f] + 1] /\ outcome' = outcome
    BY <1>2, <2>1 DEF HandOver
  <2>4. Feed!Deliver(f)
    BY <2>2, <2>3 DEF Feed!Deliver
  <2> QED BY <2>1, <2>4 DEF Feed!Next, Feed!Feeds, Feeds
<1> QED BY <1>1, <1>2

LEMMA MergeStop ==
    ASSUME outcome = "none", outcome' \in {"stopped", "setup", "none"}, UNCHANGED <<accepted, delivered>>
    PROVE  Feed!Next \/ UNCHANGED Feed!vars
<1>1. CASE outcome' = "none"
  BY <1>1 DEF Feed!vars
<1>2. CASE outcome' # "none"
  <2>1. Feed!Stop
    BY <1>2 DEF Feed!Stop, Kinds, Conn, Access
  <2> QED BY <2>1 DEF Feed!Next
<1> QED BY <1>1, <1>2

\* Everything that was taken on was handed over when an error goes up.
LEMMA MergeFail ==
    ASSUME TypeOK, EndInv, QueueInv, Drain, queue = <<>>
    PROVE  Feed!Fail
<1>1. \A f \in Feeds : reader[f] # "put" /\ Whole(f)
  BY DEF Drain, EndInv, ReadersGone, Alive, Whole
<1>2. ~(\E i \in 1..Len(queue) : TRUE)
  BY EmptySeq
<1>3. \A f \in Feeds : delivered[f] = accepted[f]
  <2> SUFFICES ASSUME NEW f \in Feeds, delivered[f] # accepted[f] PROVE FALSE
    OBVIOUS
  <2>1. delivered[f] < accepted[f] /\ accepted[f] \in Nat /\ Published(f) = accepted[f]
    BY <1>1, QueueTypes DEF Published, QueueInv
  <2>2. Queued(Frame(f, accepted[f]))
    BY <1>1, <2>1 DEF QueueInv, AllQueued
  <2> QED BY <2>2, <1>2 DEF Queued
<1>4. delivered = accepted
  BY <1>3, QueueTypes
<1>5. outcome = "none" /\ outcome' = ReaderError /\ UNCHANGED <<accepted, delivered>>
  BY DEF Drain, EndInv, Ends, readerVars
<1>6. outcome' \in Kinds /\ outcome' # "none"
  BY <1>5, ReaderErrorType DEF Kinds, Conn, Access
<1> QED BY <1>4, <1>5, <1>6 DEF Feed!Fail

LEMMA MergeNext ==
    TypeOK /\ EndInv /\ QueueInv /\ [Next]_vars => [Feed!Next]_Feed!vars
<1> SUFFICES ASSUME TypeOK, EndInv, QueueInv, [Next]_vars
             PROVE  Feed!Next \/ UNCHANGED Feed!vars
  OBVIOUS
<1> USE DEF stopVars, errorVars, readerVars, ownerVars
<1>s. ASSUME UNCHANGED <<accepted, delivered, outcome>> PROVE Feed!Next \/ UNCHANGED Feed!vars
  BY <1>s DEF Feed!vars
<1>1. ASSUME Negotiate PROVE (Feed!Next \/ UNCHANGED Feed!vars)
  <2>1. outcome = "none" /\ UNCHANGED <<accepted, delivered>>
    BY <1>1 DEF Negotiate, EndInv
  <2>2. outcome' \in {"none", "stopped", "setup"}
    BY <1>1, <2>1 DEF Negotiate, SetUp, Ends
  <2> QED BY <2>1, <2>2, MergeStop
<1>2. ASSUME Dial PROVE (Feed!Next \/ UNCHANGED Feed!vars)
  <2>1. outcome = "none" /\ UNCHANGED <<accepted, delivered>>
    BY <1>2 DEF Dial, EndInv
  <2>2. outcome' \in {"none", "stopped", "setup"}
    BY <1>2, <2>1 DEF Dial, SetUp, Ends
  <2> QED BY <2>1, <2>2, MergeStop
<1>3. ASSUME Subscribe PROVE (Feed!Next \/ UNCHANGED Feed!vars)
  <2>1. outcome = "none" /\ UNCHANGED <<accepted, delivered>>
    BY <1>3 DEF Subscribe, EndInv
  <2>2. outcome' \in {"none", "stopped", "setup"}
    BY <1>3, <2>1 DEF Subscribe, SetUp, Ends
  <2> QED BY <2>1, <2>2, MergeStop
<1>4. ASSUME StartReader PROVE (Feed!Next \/ UNCHANGED Feed!vars)
  <2>1. outcome = "none" /\ UNCHANGED <<accepted, delivered>>
    BY <1>4 DEF StartReader, EndInv
  <2>2. outcome' \in {"none", "stopped", "setup"}
    BY <1>4, <2>1 DEF StartReader, SetUp, Ends
  <2> QED BY <2>1, <2>2, MergeStop
<1>5. ASSUME RecvStopped PROVE (Feed!Next \/ UNCHANGED Feed!vars)
  <2>1. outcome = "none" /\ UNCHANGED <<accepted, delivered>>
    BY <1>5 DEF RecvStopped, EndInv, Calling
  <2>2. outcome' \in {"none", "stopped", "setup"}
    BY <1>5, <2>1 DEF RecvStopped, SetUp, Ends
  <2> QED BY <2>1, <2>2, MergeStop
<1>6. ASSUME RecvPending PROVE (Feed!Next \/ UNCHANGED Feed!vars)
  BY <1>6, <1>s DEF RecvPending
<1>7. ASSUME RecvItem PROVE (Feed!Next \/ UNCHANGED Feed!vars)
  <2>1. outcome = "none"
    BY <1>7 DEF RecvItem, Calling, EndInv
  <2> QED BY <1>7, <2>1, MergeHandOver DEF RecvItem
<1>8. ASSUME RecvEmpty PROVE (Feed!Next \/ UNCHANGED Feed!vars)
  BY <1>8, <1>s DEF RecvEmpty
<1>9. ASSUME AfterEmpty PROVE (Feed!Next \/ UNCHANGED Feed!vars)
  BY <1>9, <1>s DEF AfterEmpty
<1>10. ASSUME Drain PROVE (Feed!Next \/ UNCHANGED Feed!vars)
  <2>1. CASE queue # <<>>
    <3>1. outcome = "none"
      BY <1>10 DEF Drain, EndInv
    <3> QED BY <1>10, <2>1, <3>1, MergeHandOver DEF Drain
  <2>2. CASE queue = <<>>
    BY <1>10, <2>2, MergeFail DEF Feed!Next
  <2> QED BY <2>1, <2>2
<1>11. ASSUME Close PROVE (Feed!Next \/ UNCHANGED Feed!vars)
  BY <1>11, <1>s DEF Close, StopFlag
<1>12. ASSUME Join PROVE (Feed!Next \/ UNCHANGED Feed!vars)
  BY <1>12, <1>s DEF Join
<1>13. ASSUME Poll PROVE (Feed!Next \/ UNCHANGED Feed!vars)
  BY <1>13, <1>s DEF Poll
<1>14. ASSUME RequestStop PROVE (Feed!Next \/ UNCHANGED Feed!vars)
  BY <1>14, <1>s DEF RequestStop, StopFlag
<1>15. ASSUME RequestStopAbort PROVE (Feed!Next \/ UNCHANGED Feed!vars)
  BY <1>15, <1>s DEF RequestStopAbort
<1>16. ASSUME NEW f \in Feeds, Receive(f) PROVE (Feed!Next \/ UNCHANGED Feed!vars)
  <2>1. CASE stopped
    BY <1>16, <2>1, <1>s DEF Receive
  <2>2. CASE ~stopped
    <3>1. outcome \notin Kinds
      BY <1>16 DEF Receive, EndInv, Alive
    <3>2. Feed!Accept(f)
      BY <1>16, <2>2, <3>1 DEF Receive, Feed!Accept
    <3> QED BY <3>2 DEF Feed!Next, Feed!Feeds, Feeds
  <2> QED BY <2>1, <2>2
<1>17. ASSUME NEW f \in Feeds, Put(f) PROVE (Feed!Next \/ UNCHANGED Feed!vars)
  BY <1>17, <1>s DEF Put
<1>18. ASSUME NEW f \in Feeds, CheckReconnect(f) PROVE (Feed!Next \/ UNCHANGED Feed!vars)
  BY <1>18, <1>s DEF CheckReconnect
<1>19. ASSUME NEW f \in Feeds, ReaderFails(f) PROVE (Feed!Next \/ UNCHANGED Feed!vars)
  BY <1>19, <1>s DEF ReaderFails, Recorded
<1>20. ASSUME NEW f \in Feeds, ReaderExit(f) PROVE (Feed!Next \/ UNCHANGED Feed!vars)
  BY <1>20, <1>s DEF ReaderExit
<1>21. ASSUME NEW a \in Actors, Report(a) PROVE (Feed!Next \/ UNCHANGED Feed!vars)
  BY <1>21, <1>s DEF Report, ReportSteps
<1>22. ASSUME UNCHANGED vars PROVE (Feed!Next \/ UNCHANGED Feed!vars)
  BY <1>22, <1>s DEF vars
<1> QED BY ActorFacts, <1>1, <1>2, <1>3, <1>4, <1>5, <1>6, <1>7, <1>8, <1>9, <1>10, <1>11,
       <1>12, <1>13, <1>14, <1>15, <1>16, <1>17, <1>18, <1>19, <1>20, <1>21, <1>22
       DEF Next, OwnerStep, ReaderStep

\* Seen by its caller, the transport merges its connections: what it hands over is in
\* order and complete, and a failed connection is reported after the last of it
\* (public_transport.py:315).
THEOREM ImplementsMergedFeed == Spec => FeedSpec
<1>1. Init => TypeOK /\ EndInv /\ OwnedInv /\ QueueInv
  BY TypeInit, EndInit, OwnedInit, QueueInit
<1>2. TypeOK /\ EndInv /\ OwnedInv /\ QueueInv /\ [Next]_vars
      => (TypeOK /\ EndInv /\ OwnedInv /\ QueueInv)'
  BY TypeNext, EndNext, OwnedNext, QueueNext
<1> QED BY <1>1, <1>2, MergeInit, MergeNext, PTL DEF Spec, FeedSpec, Feed!Spec

-----------------------------------------------------------------------------
(* The download of a recording: types and the invariant.                   *)

\* chat.diagnostics, a RunResult, and the locals of the generators.
Diagnostics ==
    [reason : Reasons \cup {None}, complete : {None, TRUE}, loss : Nat, raw : Nat, skipped : Nat,
     filtered : Nat, duplicate : Nat, selected : Nat, emitted : Nat]

Parities == {"not_run", "not_requested", "passed", "failed"}

Runs == [pc : {"setup", "loop", "recovery", "closing", "timedout", "ended", "closed", "unverified",
               "verified", "recorded"},
         success : BOOLEAN, reason : Reasons, interrupted : BOOLEAN, parity : Parities, count : Nat,
         certified : BOOLEAN]

KickSources ==
    [pc : {"start", "ask", "fetch", "emit", "done", "failed"}, cursor : Nat \cup {None},
     requested : SUBSET Nat, pages : SUBSET (Seq(Records) \ {<<>>}), spool : Seq(Records),
     seen : Seq(Records), out : Seq(Records), last : Int \cup {None}, attempt : Nat]

TwitchSources ==
    [pc : {"ask", "fetch", "emit", "done", "failed"}, cursor : Nat, previous : Nat, empties : Nat,
     attempt : Nat, edges : Seq(Records), cursors : BOOLEAN, more : BOOLEAN]

ReplayTyped ==
    /\ world \in Worlds /\ cancelled \in BOOLEAN
    /\ run \in Runs /\ state \in Diagnostics
    /\ written \in Seq(Records) /\ ready \in Seq(Records)
    /\ window \in Windows \cup {None}
    /\ IF Kick THEN source \in KickSources ELSE source \in TwitchSources

Stages == {"webClip", "legacyVod", "channel", "webVod", "mobileClip", "found", "failed"}

Clips == {NoClip} \cup (IF world.site = "kick" /\ world.source = "clip" THEN WebClips ELSE {})

SetupTyped ==
    /\ setup \in [stage : Stages, attempt : Nat, clip : Clips, channel : Int \cup {None},
                  duration : Int \cup {None}]
    /\ told \in [channels : SUBSET Int, durations : SUBSET Int]

\* What was accepted is from one answer, or agrees with it.
RightlyTold ==
    CASE setup.stage = "webClip" -> world.source = "clip" /\ told = NothingTold
      [] setup.stage \in {"legacyVod", "channel", "webVod"} ->
           \/ setup.clip = NoClip /\ told = NothingTold /\ world.source = "vod"
           \/ /\ setup.clip # NoClip /\ world.source = "clip"
              /\ setup.clip.offset \in Nat /\ setup.clip.duration \in Nat
              /\ told = [channels |-> {setup.clip.channel}, durations |-> {setup.clip.duration}]
      [] setup.stage = "mobileClip" ->
           /\ world.source = "clip"
           /\ told = [channels |-> {setup.channel} \ {None}, durations |-> {setup.duration} \ {None}]
      [] setup.stage = "found" -> Cardinality(told.channels) <= 1 /\ Cardinality(told.durations) <= 1
      [] OTHER -> TRUE

\* The part of the recording that was found lies in the window that is reported.
WindowFits ==
    /\ window \in Windows
    /\ window.start <= window.from - window.origin
    /\ window.end # None => window.to # None /\ window.to - window.origin <= window.end
    /\ Kick => window.to # None /\ window.end # None
    /\ Kick /\ world.source = "vod" => window.from = Begins(world)
    /\ world.site = "twitch" => window = TwitchWindow

\* Until the recording is found nothing is retrieved.
SettingUp ==
    /\ SetupTyped
    /\ run.pc = "setup" =>
         /\ source = IF Kick THEN KickStart ELSE TwitchStart
         /\ state = NoState /\ cancelled = FALSE /\ ready = <<>> /\ written = <<>>
    /\ run.pc \in {"loop", "recovery", "closing", "timedout"} => setup.stage = "found"
    /\ run.pc # "setup" => setup.stage \in {"found", "failed"}
    /\ setup.stage # "found" => window = None
    /\ setup.stage # "found" => source = (IF Kick THEN KickStart ELSE TwitchStart) /\ written = <<>> /\ ready = <<>>
    /\ setup.stage = "found" => WindowFits
    /\ world.site = "kick" => RightlyTold
    /\ world.site # "kick" => told = NothingTold
    /\ world.site = "backfill" => setup.stage # "failed"

\* What the retrieval has given out, the oldest first.
Given == written \o ready

\* What was given out was asked for, each record once and in the order of time.
GivenRight ==
    /\ IsInjective(Given)
    /\ ToSet(Given) \subseteq {i \in Wanted : Kind(i) = "chat"}
    /\ \A a, b \in DOMAIN Given : a < b => At(Given[a]) <= At(Given[b])

\* The diagnostics tell of a record that was lost.
Lost == state.loss > 0
\* The reasons that do not claim completeness.
Stops == {"message_limit", "timeout", "error", "pagination_stalled"}

\* The message that reaches the limit is the last.
Limits ==
    world.limit # None =>
        state.emitted <= world.limit /\ (state.emitted = world.limit => state.reason \in Stops)

\* i is among the last d of s.
Recent(s, i, d) == \E k \in DOMAIN s : s[k] = i /\ Len(s) - k < d

\* What is in the spool is remembered as long as a page may repeat it: p is the first
\* record behind the next cursor.
SpoolSound(seen, spool, p) ==
    /\ IsInjective(spool) /\ IsInjective(seen) /\ Len(seen) <= SeenLimit
    /\ \A i \in ToSet(spool) : Class(i) = "selected"
    /\ ToSet(seen) \subseteq ToSet(spool)
    /\ world.digits =>
         /\ \A i \in ToSet(spool) : i >= p
         /\ p \in ToSet(spool) => Recent(seen, p, PageSize)
    /\ ~world.digits => ToSet(spool) \subseteq ToSet(seen)

\* All of the window that is newer than the cursor has been put away, or counted.
Collecting ==
    /\ source.cursor \in 1..(2 * Len(world.history) + 1)
    /\ window.to > window.from
    /\ Given = <<>> /\ state.emitted = 0
    /\ SpoolSound(source.seen, source.spool, Position(source.cursor))
    /\ \A i \in Wanted : i > Position(source.cursor) => Lost \/ i \in ToSet(source.spool)
    /\ state.reason \in {"interrupted"} \cup Stops

\* All of the window has been given out, is still to be, or was counted.
Emitting ==
    /\ window.to > window.from
    /\ IsInjective(source.out) /\ \A i \in ToSet(source.out) : Class(i) = "selected"
    /\ ToSet(source.out) \cap ToSet(Given) = {}
    /\ Given # <<>> => source.last # None /\ At(Given[Len(Given)]) <= source.last
    /\ run.pc = "loop" => \A i \in Wanted : Lost \/ i \in ToSet(source.out) \cup ToSet(Given)
    /\ state.reason \in {"interrupted"} \cup Stops

KickReplaySound ==
    world.site = "kick" /\ setup.stage = "found" =>
        /\ source.pc = "start" => /\ Given = <<>> /\ state.emitted = 0
                                 /\ source.seen = <<>> /\ source.spool = <<>>
        /\ source.pc \in {"ask", "fetch"} => Collecting
        /\ source.pc = "emit" => Emitting
        /\ source.pc # "start" => state.reason # None
        /\ state.reason \in {"completed", "empty_window"} => source.pc = "done"
        /\ state.reason = "empty_window" => EmptyWindow
        /\ state.reason = "completed" /\ run.pc = "loop" =>
             \A i \in Wanted : Lost \/ i \in ToSet(Given)

DatedWorld == world.site = "twitch" => \A i \in Records : Kind(i) # "undated"

\* The edges begin at record n; all of the window before it has been given out, or
\* counted.
PageAt(n) ==
    /\ source.edges = [j \in 1..Len(source.edges) |-> n + j - 1]
    /\ n + Len(source.edges) <= Count + 1
    /\ ~source.more => n + Len(source.edges) = Count + 1
    /\ source.cursor # source.previous => source.cursor = n - 1
    /\ ~source.cursors => source.cursor = source.previous
    /\ source.cursor < n
    /\ \A i \in ToSet(Given) : i < n
    /\ run.pc = "loop" => \A i \in Wanted : i >= n \/ Lost \/ i \in ToSet(Given)

TwitchReplaySound ==
    world.site = "twitch" /\ setup.stage = "found" =>
        /\ \A a, b \in DOMAIN Given : a < b => Given[a] < Given[b]
        /\ source.pc \in {"ask", "fetch"} =>
             /\ source.cursor <= Count
             /\ \A i \in ToSet(Given) : i <= source.cursor
             /\ run.pc = "loop" /\ source.cursor # 0 =>
                  \A i \in Wanted : i > source.cursor \/ Lost \/ i \in ToSet(Given)
        /\ source.pc = "emit" => \E n \in 1..(Count + 1) : PageAt(n)
        /\ state.reason \in Stops \cup {None}
        /\ source.pc = "done" /\ state.reason = None /\ run.pc = "loop" =>
             \A i \in Wanted : Lost \/ i \in ToSet(Given)

\* A recovery has all that is newer than the cursor.
RecoverySound ==
    world.site = "backfill" =>
        /\ run.pc \in {"setup", "recovery", "recorded"}
        /\ Given = <<>> /\ ~run.success /\ ~run.certified
        /\ state.emitted = 0 /\ source.pc # "emit"
        /\ source.pc = "start" => source.seen = <<>> /\ source.out = <<>>
        /\ source.pc \in {"ask", "fetch"} =>
             /\ source.cursor \in 1..(2 * Len(world.history) + 1)
             /\ source.seen = source.out
             /\ \A i \in Wanted : i > Position(source.cursor) /\ Kind(i) # "undated" =>
                  i \in ToSet(source.out)
        /\ source.pc = "done" /\ ~cancelled =>
             \A i \in Wanted : Kind(i) # "undated" => i \in ToSet(source.out)

\* What the run and its report say is so.
Claims ==
    /\ run.pc \in {"setup", "loop", "recovery", "closing", "timedout"} => ~run.success
    /\ run.pc = "timedout" => state.reason \in Stops
    /\ run.success /\ run.reason \in {"completed", "empty_window"} /\ ~Lost =>
         Wanted \subseteq ToSet(written)
    /\ run.certified => run.pc = "recorded" /\ Wanted \subseteq ToSet(written)

DatedSound ==
    /\ ReplayTyped /\ SettingUp /\ GivenRight /\ Limits
    /\ KickReplaySound /\ TwitchReplaySound /\ RecoverySound /\ Claims

\* A comment without an offset is taken to be at 0, wherever it was made.
ReplayInv == DatedWorld => DatedSound

-----------------------------------------------------------------------------
(* The constants, and the world.                                           *)

\* What the limits are.
LEMMA Parameters ==
    /\ PageSize \in Nat /\ PageSize >= 1 /\ SeenLimit \in Nat /\ SeenLimit >= 1
    /\ MaxAttempts \in Nat /\ MaxAttempts >= 1
    /\ MaxPages \in Nat /\ MaxRecords \in Nat /\ MaxEmptyPages \in Nat
    /\ None \notin Int /\ None \notin Reasons /\ None \notin Windows
  BY ReplayAssumption

\* What a recording and a request are.
LEMMA World ==
    ASSUME world \in Worlds
    PROVE  /\ world.site \in {"kick", "backfill", "twitch"} /\ world.source \in {"vod", "clip"}
           /\ world.history \in Seq([at : Int, kind : {"chat", "other", "broken", "undated"}])
           /\ world.start \in Int \cup {None} /\ world.end \in Int \cup {None}
           /\ world.limit \in (Nat \ {0}) \cup {None}
           /\ {world.timed, world.digits, world.fallback, world.verify} \subseteq BOOLEAN
           /\ {world.require, world.faults} \subseteq BOOLEAN
           /\ world.site = "backfill" => world.start \in Int /\ world.end \in Int
           /\ world.site = "kick" => world.began \in Int /\ world.length \in Nat
           /\ world.site = "kick" /\ world.source = "clip" =>
                world.offset \in Nat /\ world.duration \in Nat
           /\ world.site = "twitch" =>
                world.offset \in Nat \cup {None} /\ world.duration \in Nat \cup {None}
           /\ Ordered(world) /\ Remembered(world)
<1>1. Replayable(world)
  BY ReplayAssumption
<1> QED BY <1>1 DEF Replayable

\* The records are numbered, and each has its time and its kind.
LEMMA RecordsAre ==
    ASSUME world \in Worlds
    PROVE  /\ Len(world.history) \in Nat /\ Records = 1..Len(world.history)
           /\ Count = Len(world.history)
           /\ \A i \in Records : /\ At(i) \in Int
                                 /\ Kind(i) \in {"chat", "other", "broken", "undated"}
<1> DEFINE h == world.history
           R == [at : Int, kind : {"chat", "other", "broken", "undated"}]
<1>1. h \in Seq(R)
  BY World
<1>2. Len(h) \in Nat /\ DOMAIN h = 1..Len(h) /\ \A i \in DOMAIN h : h[i] \in R
  <2> HIDE DEF h, R
  <2> QED BY <1>1
<1>3. \A i \in DOMAIN h : /\ h[i].at \in Int
                         /\ h[i].kind \in {"chat", "other", "broken", "undated"}
  <2> HIDE DEF h
  <2> QED BY <1>2
<1> QED BY <1>2, <1>3 DEF Records, At, Kind, Count

-----------------------------------------------------------------------------
(* Sequences and bounds.                                                   *)

LEMMA MinOfTwo == \A a, b \in Int : Min({a, b}) = IF a <= b THEN a ELSE b
<1> SUFFICES ASSUME NEW a \in Int, NEW b \in Int PROVE Min({a, b}) = IF a <= b THEN a ELSE b
  OBVIOUS
<1>1. \E x \in {a, b} : \A y \in {a, b} : x <= y
  OBVIOUS
<1>2. Min({a, b}) \in {a, b} /\ \A y \in {a, b} : Min({a, b}) <= y
  BY <1>1 DEF Min
<1> QED BY <1>2

LEMMA MaxOfTwo == \A a, b \in Int : Max({a, b}) = IF a >= b THEN a ELSE b
<1> SUFFICES ASSUME NEW a \in Int, NEW b \in Int PROVE Max({a, b}) = IF a >= b THEN a ELSE b
  OBVIOUS
<1>1. \E x \in {a, b} : \A y \in {a, b} : x >= y
  OBVIOUS
<1>2. Max({a, b}) \in {a, b} /\ \A y \in {a, b} : Max({a, b}) >= y
  BY <1>1 DEF Max
<1> QED BY <1>2

\* A time that is kept inside the recording.
LEMMA Clamped ==
    ASSUME NEW x \in Int, NEW most \in Nat
    PROVE  /\ Clamp(x, most) = IF x < 0 THEN 0 ELSE IF x > most THEN most ELSE x
           /\ Clamp(x, most) \in Nat /\ Clamp(x, most) <= most
<1>1. Max({x, 0}) = IF x >= 0 THEN x ELSE 0
  BY MaxOfTwo
<1> DEFINE y == IF x >= 0 THEN x ELSE 0
<1>2. y \in Int
  OBVIOUS
<1>3. Min({y, most}) = IF y <= most THEN y ELSE most
  <2> HIDE DEF y
  <2> QED BY <1>2, MinOfTwo
<1> QED BY <1>1, <1>3 DEF Clamp

\* What two sequences hold, one behind the other.
LEMMA Concatenated ==
    ASSUME NEW X, NEW s \in Seq(X), NEW t \in Seq(X)
    PROVE  /\ s \o t \in Seq(X) /\ ToSet(s \o t) = ToSet(s) \cup ToSet(t)
           /\ IsInjective(s \o t) <=>
                IsInjective(s) /\ IsInjective(t) /\ ToSet(s) \cap ToSet(t) = {}
<1> DEFINE u == s \o t
           m == Len(s)
           n == Len(t)
<1>1. /\ u \in Seq(X) /\ m \in Nat /\ n \in Nat /\ DOMAIN u = 1..(m + n)
      /\ DOMAIN s = 1..m /\ DOMAIN t = 1..n
      /\ \A k \in 1..m : u[k] = s[k]
  OBVIOUS
<1>2. \A k \in 1..n : m + k \in 1..(m + n) /\ u[m + k] = t[k]
  OBVIOUS
<1>3. \A k \in 1..(m + n) : k \in 1..m \/ (k - m \in 1..n /\ m + (k - m) = k)
  BY <1>1
<1>4. \A k \in 1..m : k \in 1..(m + n)
  BY <1>1
<1> HIDE DEF u, m, n
<1>5. ToSet(u) = ToSet(s) \cup ToSet(t)
  <2>1. \A k \in DOMAIN u : u[k] \in ToSet(s) \cup ToSet(t)
    BY <1>1, <1>2, <1>3 DEF ToSet
  <2>2. \A k \in DOMAIN s : s[k] \in ToSet(u)
    BY <1>1, <1>4 DEF ToSet
  <2>3. \A k \in DOMAIN t : t[k] \in ToSet(u)
    BY <1>1, <1>2 DEF ToSet
  <2> QED BY <2>1, <2>2, <2>3 DEF ToSet
<1>6. ASSUME IsInjective(s), IsInjective(t), ToSet(s) \cap ToSet(t) = {} PROVE IsInjective(u)
  <2> SUFFICES ASSUME NEW a \in DOMAIN u, NEW b \in DOMAIN u, u[a] = u[b] PROVE a = b
    BY DEF IsInjective
  <2>1. CASE a \in 1..m /\ b \in 1..m
    BY <1>1, <1>6, <2>1 DEF IsInjective
  <2>2. CASE a - m \in 1..n /\ b - m \in 1..n
    <3>1. t[a - m] = t[b - m]
      BY <1>1, <1>2, <1>3, <2>2
    <3>2. a - m = b - m
      BY <1>1, <1>6, <2>2, <3>1 DEF IsInjective
    <3> QED BY <1>1, <3>2
  <2>3. CASE a \in 1..m /\ b - m \in 1..n
    <3>1. s[a] = t[b - m] /\ s[a] \in ToSet(s) /\ t[b - m] \in ToSet(t)
      BY <1>1, <1>2, <1>3, <2>3 DEF ToSet
    <3> QED BY <1>6, <3>1
  <2>4. CASE b \in 1..m /\ a - m \in 1..n
    <3>1. s[b] = t[a - m] /\ s[b] \in ToSet(s) /\ t[a - m] \in ToSet(t)
      BY <1>1, <1>2, <1>3, <2>4 DEF ToSet
    <3> QED BY <1>6, <3>1
  <2> QED BY <1>1, <1>3, <2>1, <2>2, <2>3, <2>4
<1>7. ASSUME IsInjective(u) PROVE IsInjective(s) /\ IsInjective(t) /\ ToSet(s) \cap ToSet(t) = {}
  <2>1. IsInjective(s)
    BY <1>1, <1>4, <1>7 DEF IsInjective
  <2>2. IsInjective(t)
    <3> SUFFICES ASSUME NEW a \in 1..n, NEW b \in 1..n, t[a] = t[b] PROVE a = b
      BY <1>1 DEF IsInjective
    <3>1. u[m + a] = u[m + b] /\ m + a \in DOMAIN u /\ m + b \in DOMAIN u
      BY <1>1, <1>2
    <3>2. m + a = m + b
      BY <1>7, <3>1 DEF IsInjective
    <3> QED BY <1>1, <3>2
  <2>3. ASSUME NEW a \in 1..m, NEW b \in 1..n, s[a] = t[b] PROVE FALSE
    <3>1. u[a] = u[m + b] /\ a \in DOMAIN u /\ m + b \in DOMAIN u
      BY <1>1, <1>2, <1>4, <2>3
    <3>2. a = m + b
      BY <1>7, <3>1 DEF IsInjective
    <3> QED BY <1>1, <3>2
  <2> QED BY <1>1, <2>1, <2>2, <2>3 DEF ToSet
<1> QED BY <1>1, <1>5, <1>6, <1>7 DEF u

LEMMA Single ==
    \A x : ToSet(<<x>>) = {x} /\ IsInjective(<<x>>) /\ ToSet(<<>>) = {} /\ IsInjective(<<>>)
<1> TAKE x
<1>1. DOMAIN <<x>> = {1} /\ <<x>>[1] = x /\ DOMAIN <<>> = {}
  OBVIOUS
<1> QED BY <1>1 DEF ToSet, IsInjective

\* One more at the end.
LEMMA AppendMeans ==
    ASSUME NEW X, NEW s \in Seq(X), NEW x \in X
    PROVE  /\ Append(s, x) \in Seq(X) /\ ToSet(Append(s, x)) = ToSet(s) \cup {x}
           /\ IsInjective(s) /\ x \notin ToSet(s) => IsInjective(Append(s, x))
<1> DEFINE one == <<x>>
<1>1. Append(s, x) = s \o one /\ one \in Seq(X)
  OBVIOUS
<1>2. ToSet(one) = {x} /\ IsInjective(one)
  BY Single
<1> HIDE DEF one
<1> QED BY <1>1, <1>2, Concatenated

\* The first one taken off.
LEMMA Shortened ==
    ASSUME NEW X, NEW s \in Seq(X), s # <<>>
    PROVE  /\ Head(s) \in X /\ Tail(s) \in Seq(X) /\ s = <<Head(s)>> \o Tail(s)
           /\ ToSet(s) = {Head(s)} \cup ToSet(Tail(s))
           /\ IsInjective(s) => IsInjective(Tail(s)) /\ Head(s) \notin ToSet(Tail(s))
<1>1. Head(s) \in X /\ Tail(s) \in Seq(X) /\ <<Head(s)>> \in Seq(X)
  OBVIOUS
<1>2. s = <<Head(s)>> \o Tail(s)
  OBVIOUS
<1> DEFINE h == <<Head(s)>>
           r == Tail(s)
<1>3. ToSet(h) = {Head(s)}
  BY Single
<1> HIDE DEF h, r
<1>4. ToSet(h \o r) = ToSet(h) \cup ToSet(r)
      /\ (IsInjective(h \o r) => IsInjective(r) /\ ToSet(h) \cap ToSet(r) = {})
  BY <1>1, Concatenated DEF h, r
<1> QED BY <1>1, <1>2, <1>3, <1>4 DEF h, r

\* Read from the other end.
LEMMA Reversed ==
    ASSUME NEW X, NEW s \in Seq(X)
    PROVE  /\ Reverse(s) \in Seq(X) /\ ToSet(Reverse(s)) = ToSet(s)
           /\ IsInjective(s) => IsInjective(Reverse(s))
<1> DEFINE n == Len(s)
           r == Reverse(s)
<1>1. n \in Nat /\ DOMAIN s = 1..n /\ \A k \in 1..n : s[k] \in X /\ n - k + 1 \in 1..n
  OBVIOUS
<1>2. r = [i \in 1..n |-> s[(n - i) + 1]]
  BY DEF Reverse
<1>3. r \in Seq(X) /\ DOMAIN r = 1..n /\ \A k \in 1..n : r[k] = s[n - k + 1]
  <2> HIDE DEF n, r
  <2> QED BY <1>1, <1>2
<1>4. \A k \in 1..n : s[k] = r[n - k + 1] /\ n - (n - k + 1) + 1 = k
  BY <1>1, <1>3
<1> HIDE DEF n, r
<1>5. ToSet(r) = ToSet(s)
  <2>1. \A k \in 1..n : r[k] \in ToSet(s)
    BY <1>1, <1>3 DEF ToSet
  <2>2. \A k \in 1..n : s[k] \in ToSet(r)
    BY <1>1, <1>3, <1>4 DEF ToSet
  <2> QED BY <1>1, <1>3, <2>1, <2>2 DEF ToSet
<1>6. ASSUME IsInjective(s) PROVE IsInjective(r)
  <2> SUFFICES ASSUME NEW a \in 1..n, NEW b \in 1..n, r[a] = r[b] PROVE a = b
    BY <1>3 DEF IsInjective
  <2>1. s[n - a + 1] = s[n - b + 1] /\ n - a + 1 \in DOMAIN s /\ n - b + 1 \in DOMAIN s
    BY <1>1, <1>3
  <2>2. n - a + 1 = n - b + 1
    BY <1>6, <2>1 DEF IsInjective
  <2> QED BY <1>1, <2>2
<1> QED BY <1>3, <1>5, <1>6 DEF r

-----------------------------------------------------------------------------
(* The order of a page.                                                    *)

\* _newest_first() puts a record behind those that are as new, and leaves nothing out.
LEMMA InsertedMeans ==
    ASSUME NEW order \in Seq(Records), NEW i \in Records, world \in Worlds
    PROVE  /\ Inserted(order, i) \in Seq(Records)
           /\ Len(Inserted(order, i)) = Len(order) + 1
           /\ ToSet(Inserted(order, i)) = ToSet(order) \cup {i}
           /\ IsInjective(order) /\ i \notin ToSet(order) => IsInjective(Inserted(order, i))
<1> DEFINE n == Len(order)
           places == {0} \cup {j \in DOMAIN order : Stamp(order[j]) >= Stamp(i)}
           k == Max(places)
           first == SubSeq(order, 1, k)
           rest == SubSeq(order, k + 1, n)
           one == <<i>>
<1>1. n \in Nat /\ DOMAIN order = 1..n
  OBVIOUS
<1>2. k \in 0..n
  <2>1. places \in SUBSET Int /\ places # {} /\ places \subseteq 0..n /\ n \in Int
        /\ \A x \in places : x <= n
    BY <1>1
  <2> HIDE DEF places, n, first, rest, one
  <2>2. k \in places
    BY <2>1, MaxMember
  <2> QED BY <2>1, <2>2
<1> HIDE DEF k
<1>3. first \in Seq(Records) /\ rest \in Seq(Records) /\ one \in Seq(Records)
  BY <1>1, <1>2
<1>4. order = first \o rest /\ Len(first) + Len(rest) = n
  <2>1. 1 \in 1..(n + 1) /\ k \in (1 - 1)..n /\ n \in k..n
    BY <1>1, <1>2
  <2>2. first \o rest = SubSeq(order, 1, n)
    <3> HIDE DEF n
    <3> QED BY <2>1, ConcatAdjacentSubSeq DEF n
  <2>3. SubSeq(order, 1, n) = order
    BY SubSeqFull
  <2>4. Len(first \o rest) = Len(first) + Len(rest)
    <3> HIDE DEF first, rest
    <3> QED BY <1>3, ConcatProperties
  <2> QED BY <2>2, <2>3, <2>4
<1>5. Inserted(order, i) = first \o one \o rest
  <2>1. (k + 1) - 1 = k
    BY <1>2
  <2> QED BY <2>1 DEF Inserted, InsertAt, k
<1>6. Len(first \o one \o rest) = n + 1
  <2>1. Len(one) = 1 /\ Len(first) \in Nat /\ Len(rest) \in Nat
    BY <1>3
  <2>2. \A s, t \in Seq(Records) : s \o t \in Seq(Records) /\ Len(s \o t) = Len(s) + Len(t)
    BY ConcatProperties
  <2> HIDE DEF first, rest, one
  <2>3. first \o one \in Seq(Records) /\ Len(first \o one) = Len(first) + 1
    <3>1. first \o one \in Seq(Records) /\ Len(first \o one) = Len(first) + Len(one)
      BY <1>3, <2>2, Zenon
    <3> QED BY <2>1, <3>1
  <2>4. Len((first \o one) \o rest) = (Len(first) + 1) + Len(rest)
    BY <1>3, <2>2, <2>3
  <2> QED BY <1>4, <2>1, <2>4
<1>7. ToSet(one) = {i} /\ IsInjective(one)
  BY Single
<1> HIDE DEF first, rest, one
<1>8. first \o one \in Seq(Records) /\ first \o one \o rest \in Seq(Records)
  BY <1>3
<1>9. ToSet(order) = ToSet(first) \cup ToSet(rest)
      /\ (IsInjective(order) => IsInjective(first) /\ IsInjective(rest)
                                  /\ ToSet(first) \cap ToSet(rest) = {})
  BY <1>3, <1>4, Concatenated
<1>10. ToSet(first \o one) = ToSet(first) \cup {i}
       /\ (IsInjective(first) /\ i \notin ToSet(first) => IsInjective(first \o one))
  <2>1. i \notin ToSet(first) => ToSet(first) \cap ToSet(one) = {}
    BY <1>7
  <2> QED BY <1>3, <1>7, <2>1, Concatenated
<1>11. ToSet(first \o one \o rest) = (ToSet(first) \cup {i}) \cup ToSet(rest)
       /\ (IsInjective(first \o one) /\ IsInjective(rest)
             /\ (ToSet(first) \cup {i}) \cap ToSet(rest) = {} => IsInjective(first \o one \o rest))
  <2> DEFINE u == first \o one
  <2>1. u \in Seq(Records)
    BY <1>8
  <2>2. ToSet(u) = ToSet(first) \cup {i}
    BY <1>10
  <2> HIDE DEF u
  <2>3. /\ ToSet(u \o rest) = ToSet(u) \cup ToSet(rest)
        /\ IsInjective(u) /\ IsInjective(rest) /\ ToSet(u) \cap ToSet(rest) = {} => IsInjective(u \o rest)
    BY <1>3, <2>1, Concatenated
  <2> QED BY <2>2, <2>3 DEF u
<1>12. ToSet(first \o one \o rest) = ToSet(order) \cup {i}
  BY <1>9, <1>11
<1>13. ASSUME IsInjective(order), i \notin ToSet(order) PROVE IsInjective(first \o one \o rest)
  <2>1. (ToSet(first) \cup {i}) \cap ToSet(rest) = {}
    BY <1>9, <1>13
  <2> QED BY <1>9, <1>10, <1>11, <1>13, <2>1
<1> QED BY <1>5, <1>6, <1>8, <1>12, <1>13

\* The page, record by record.
LEMMA Sorted ==
    ASSUME world \in Worlds, NEW s \in Seq(Records)
    PROVE  \E F : /\ F[0] = <<>>
                  /\ \A k \in 1..Len(s) : F[k] = Inserted(F[k - 1], s[k])
                  /\ \A k \in 0..Len(s) : F[k] \in Seq(Records)
                  /\ NewestFirst(s) = F[Len(s)]
<1> DEFINE n == Len(s)
           Step == [p \in Seq(Records) \X Records |-> Inserted(p[1], p[2])]
           G == CHOOSE f : f = [t \in SUBSET (1..n) |->
                                  IF t = {} THEN <<>> ELSE Inserted(f[t \ {Max(t)}], s[Max(t)])]
           F == [k \in 0..n |-> G[1..k]]
<1>1. n \in Nat /\ DOMAIN s = 1..n /\ n \in 0..n /\ \A k \in 1..n : s[k] \in Records
  OBVIOUS
<1>2. NewestFirst(s) = G[1..n]
  BY <1>1 DEF NewestFirst, FoldLeft, MapThenFoldSet
<1>3. \A a \in Seq(Records), x \in Records : Inserted(a, x) \in Seq(Records)
  BY InsertedMeans
<1>4. Step \in [Seq(Records) \X Records -> Seq(Records)] /\ <<>> \in Seq(Records)
  BY <1>3
<1>5. PICK f : Iterates(f, Seq(Records), <<>>, s, Step)
  <2> HIDE DEF Step, G, F
  <2> QED BY <1>4, IterationExists
<1>6. f = [t \in SUBSET (1..n) |-> IF t = {} THEN <<>> ELSE Inserted(f[t \ {Max(t)}], s[Max(t)])]
  <2>1. ASSUME NEW t \in SUBSET (1..n), t # {}
        PROVE  Step[<<f[t \ {Max(t)}], s[Max(t)]>>] = Inserted(f[t \ {Max(t)}], s[Max(t)])
    <3>1. Max(t) \in 1..n /\ t \ {Max(t)} \in SUBSET (1..n)
      <4> HIDE DEF n, G, F
      <4> QED BY <1>1, <2>1, MaxAmong
    <3>2. s[Max(t)] \in Records /\ f[t \ {Max(t)}] \in Seq(Records)
      BY <1>1, <1>5, <3>1 DEF Iterates
    <3> QED BY <3>2
  <2> HIDE DEF Step
  <2> QED BY <1>5, <2>1 DEF Iterates
<1>7. G = [t \in SUBSET (1..n) |-> IF t = {} THEN <<>> ELSE Inserted(G[t \ {Max(t)}], s[Max(t)])]
  BY <1>6
<1> HIDE DEF G
<1>8. F[0] = <<>>
  BY <1>1, <1>7
<1>9. ASSUME NEW k \in 1..n PROVE F[k] = Inserted(F[k - 1], s[k])
  <2>1. 1..k \in SUBSET (1..n) /\ 1..k # {} /\ (1..k) \ {k} = 1..(k - 1) /\ Max(1..k) = k
    BY <1>1, Peeled
  <2>2. k \in 0..n /\ k - 1 \in 0..n
    BY <1>1
  <2> QED BY <1>7, <2>1, <2>2
<1> HIDE DEF F, Step
<1>10. \A k \in 0..n : F[k] \in Seq(Records)
  <2> DEFINE T == {k \in 0..n : F[k] \in Seq(Records)}
  <2>1. 0 \in T
    <3>1. F[0] \in Seq(Records)
      BY <1>4, <1>8
    <3> QED BY <1>1, <3>1
  <2>2. ASSUME NEW k \in 0..(n - 1), k \in T PROVE k + 1 \in T
    <3>1. k + 1 \in 1..n /\ (k + 1) - 1 = k /\ k + 1 \in 0..n
      BY <1>1
    <3>2. F[k + 1] = Inserted(F[k], s[k + 1])
      BY <1>9, <3>1
    <3> QED BY <1>1, <1>3, <2>2, <3>1, <3>2
  <2> HIDE DEF T
  <2>3. \A k \in 0..n : k \in T
    BY <1>1, <2>1, <2>2, NatInductTo
  <2> QED BY <2>3 DEF T
<1> QED BY <1>1, <1>2, <1>8, <1>9, <1>10 DEF F

\* Sorting leaves out nothing and doubles nothing.
LEMMA NewestFirstMeans ==
    ASSUME world \in Worlds, NEW page \in Seq(Records), IsInjective(page)
    PROVE  /\ NewestFirst(page) \in Seq(Records) /\ IsInjective(NewestFirst(page))
           /\ Len(NewestFirst(page)) = Len(page) /\ ToSet(NewestFirst(page)) = ToSet(page)
<1> DEFINE n == Len(page)
<1>1. PICK F : /\ F[0] = <<>>
               /\ \A k \in 1..n : F[k] = Inserted(F[k - 1], page[k])
               /\ \A k \in 0..n : F[k] \in Seq(Records)
               /\ NewestFirst(page) = F[n]
  BY Sorted
<1>2. n \in Nat /\ DOMAIN page = 1..n /\ n \in 0..n
  OBVIOUS
<1> DEFINE T == {k \in 0..n : /\ Len(F[k]) = k /\ IsInjective(F[k])
                               /\ ToSet(F[k]) = {page[j] : j \in 1..k}}
<1>3. 0 \in T
  <2>1. IsInjective(<<>>) /\ ToSet(<<>>) = {} /\ Len(<<>>) = 0
    BY Single
  <2>2. {page[j] : j \in 1..0} = {} /\ 0 \in 0..n
    BY <1>2
  <2> QED BY <1>1, <2>1, <2>2
<1>4. ASSUME NEW k \in 0..(n - 1), k \in T PROVE k + 1 \in T
  <2>1. k + 1 \in 1..n /\ (k + 1) - 1 = k /\ k + 1 \in 0..n /\ k \in 0..n /\ k \in Nat
    BY <1>2
  <2>2. F[k + 1] = Inserted(F[k], page[k + 1]) /\ F[k] \in Seq(Records) /\ page[k + 1] \in Records
    BY <1>1, <1>2, <2>1
  <2>3. Len(F[k]) = k /\ IsInjective(F[k]) /\ ToSet(F[k]) = {page[j] : j \in 1..k}
    BY <1>4
  <2>4. page[k + 1] \notin ToSet(F[k])
    <3>1. \A j \in 1..k : j \in 1..n /\ j # k + 1
      BY <1>2, <2>1
    <3> QED BY <1>2, <2>1, <2>3, <3>1 DEF IsInjective
  <2>5. {page[j] : j \in 1..(k + 1)} = {page[j] : j \in 1..k} \cup {page[k + 1]}
    <3>1. 1..(k + 1) = (1..k) \cup {k + 1}
      BY <2>1
    <3> QED BY <3>1
  <2>6. Len(F[k + 1]) = k + 1 /\ IsInjective(F[k + 1])
        /\ ToSet(F[k + 1]) = {page[j] : j \in 1..(k + 1)}
    <3> HIDE DEF n
    <3> QED BY <2>2, <2>3, <2>4, <2>5, InsertedMeans
  <2> QED BY <2>1, <2>6
<1> HIDE DEF T
<1>5. n \in T
  BY <1>2, <1>3, <1>4, NatInductTo
<1>6. Len(F[n]) = n /\ IsInjective(F[n]) /\ ToSet(F[n]) = {page[j] : j \in 1..n}
  BY <1>5 DEF T
<1> QED BY <1>1, <1>2, <1>6 DEF ToSet

-----------------------------------------------------------------------------
(* What a page of a replay adds to what was put away.                      *)

\* There are no more places than things, if no thing is at two places.
LEMMA NoMoreThan ==
    ASSUME NEW n \in Nat, NEW s \in Seq(1..n), IsInjective(s)
    PROVE  Len(s) <= n
<1>1. Len(s) \in Nat /\ DOMAIN s = 1..Len(s) /\ \A k \in 1..Len(s) : s[k] \in 1..n
  OBVIOUS
<1>2. s \in [1..Len(s) -> 1..n]
  BY <1>1
<1>3. s \in Injection(1..Len(s), 1..n)
  BY <1>1, <1>2 DEF Injection, IsInjective
<1>4. IsFiniteSet(1..n) /\ Cardinality(1..n) = n /\ Cardinality(1..Len(s)) = Len(s)
  <2>1. \A m \in Nat : IsFiniteSet(1..m) /\ Cardinality(1..m) = m
    <3> SUFFICES ASSUME NEW m \in Nat PROVE IsFiniteSet(1..m) /\ Cardinality(1..m) = m
      OBVIOUS
    <3>1. 1 \in Int /\ m \in Int
      OBVIOUS
    <3>2. IsFiniteSet(1..m) /\ Cardinality(1..m) = IF 1 > m THEN 0 ELSE m - 1 + 1
      BY <3>1, FS_Interval
    <3> QED BY <3>2
  <2> QED BY <1>1, <2>1
<1>5. Cardinality(1..Len(s)) <= Cardinality(1..n)
  BY <1>3, <1>4, FS_Injection
<1> QED BY <1>4, <1>5

\* What is remembered last is forgotten last, and nothing is held twice.
LEMMA RegisteredMeans ==
    ASSUME NEW X, NEW seen \in Seq(X), NEW i \in X, NEW limit \in Nat \ {0},
           IsInjective(seen), Len(seen) <= limit, i \notin ToSet(seen)
    PROVE  LET r == Registered(seen, i, limit)
           IN  /\ r \in Seq(X) /\ IsInjective(r) /\ Len(r) <= limit
               /\ ToSet(r) \subseteq ToSet(seen) \cup {i} /\ Recent(r, i, 1)
               /\ Len(seen) < limit => ToSet(r) = ToSet(seen) \cup {i}
               /\ \A x, d : d \in Nat /\ d < limit /\ Recent(seen, x, d) => Recent(r, x, d + 1)
<1> DEFINE n == Len(seen)
           a == Append(seen, i)
           r == Registered(seen, i, limit)
<1>1. n \in Nat /\ DOMAIN seen = 1..n /\ n <= limit
  OBVIOUS
<1>2. /\ a \in Seq(X) /\ Len(a) = n + 1 /\ a # <<>> /\ DOMAIN a = 1..(n + 1)
      /\ a[n + 1] = i /\ \A k \in 1..n : a[k] = seen[k]
  OBVIOUS
<1>3. ToSet(a) = ToSet(seen) \cup {i} /\ IsInjective(a)
  BY AppendMeans
<1>4. ~Known(seen, i)
  BY DEF Known, ToSet
<1>5. r = IF n + 1 > limit THEN Tail(a) ELSE a
  BY <1>4 DEF Registered
<1> HIDE DEF a, n, r
<1>6. CASE n + 1 > limit
  <2>1. /\ Tail(a) \in Seq(X) /\ Len(Tail(a)) = n /\ DOMAIN Tail(a) = 1..n
        /\ \A k \in 1..n : Tail(a)[k] = a[k + 1]
    BY <1>1, <1>2
  <2>2. IsInjective(Tail(a)) /\ ToSet(Tail(a)) \subseteq ToSet(a)
    <3>1. \A s \in Seq(X) : s # <<>> => /\ ToSet(s) = {Head(s)} \cup ToSet(Tail(s))
                                        /\ IsInjective(s) => IsInjective(Tail(s))
      BY Shortened
    <3> QED BY <1>2, <1>3, <3>1
  <2>3. n = limit /\ n >= 1
    BY <1>1, <1>6
  <2>4. Recent(Tail(a), i, 1)
    BY <1>1, <1>2, <2>1, <2>3 DEF Recent
  <2>5. ASSUME NEW x, NEW d \in Nat, d < limit, Recent(seen, x, d) PROVE Recent(Tail(a), x, d + 1)
    <3>1. PICK k \in 1..n : seen[k] = x /\ n - k < d
      BY <1>1, <2>5 DEF Recent, n
    <3>2. k - 1 \in 1..n /\ (k - 1) + 1 = k /\ n - (k - 1) < d + 1
      BY <1>1, <2>3, <2>5, <3>1
    <3>3. Tail(a)[k - 1] = x
      BY <1>2, <2>1, <3>1, <3>2
    <3> QED BY <2>1, <3>2, <3>3 DEF Recent
  <2> QED BY <1>1, <1>3, <1>5, <1>6, <2>1, <2>2, <2>3, <2>4, <2>5 DEF r, n
<1>7. CASE ~(n + 1 > limit)
  <2>1. Recent(a, i, 1)
    BY <1>1, <1>2 DEF Recent
  <2>2. ASSUME NEW x, NEW d \in Nat, Recent(seen, x, d) PROVE Recent(a, x, d + 1)
    <3>1. PICK k \in 1..n : seen[k] = x /\ n - k < d
      BY <1>1, <2>2 DEF Recent, n
    <3>2. k \in 1..(n + 1) /\ (n + 1) - k < d + 1
      BY <1>1, <3>1
    <3> QED BY <1>2, <3>1, <3>2 DEF Recent
  <2> QED BY <1>1, <1>2, <1>3, <1>5, <1>7, <2>1, <2>2 DEF r, n
<1> QED BY <1>1, <1>6, <1>7

Selections == [seen : Seq(Records), kept : Seq(Records), state : Diagnostics]

\* What becomes of a record of a Kick replay.
LEMMA ClassIs ==
    ASSUME world \in Worlds, window \in Windows, window.to \in Int, NEW i \in Records
    PROVE  /\ Class(i) \in {"malformed", "before", "after", "parseError", "filtered", "selected"}
           /\ Class(i) = "selected" <=>
                Kind(i) = "chat" /\ At(i) >= window.from /\ At(i) <= window.to
           /\ At(i) >= window.from /\ At(i) <= window.to /\ Kind(i) \in {"broken", "undated"} =>
                Class(i) \in {"malformed", "parseError"}
           /\ Class(i) = "before" => At(i) < window.from
<1>1. At(i) \in Int /\ Kind(i) \in {"chat", "other", "broken", "undated"} /\ window.from \in Int
  BY RecordsAre DEF Windows
<1> QED BY <1>1 DEF Class

\* The changes that are made to the diagnostics.
LEMMA DiagnosticsAre ==
    ASSUME NEW s \in Diagnostics
    PROVE  /\ s.reason \in Reasons \cup {None} /\ s.complete \in {None, TRUE}
           /\ s.loss \in Nat /\ s.raw \in Nat /\ s.skipped \in Nat /\ s.filtered \in Nat
           /\ s.duplicate \in Nat /\ s.selected \in Nat /\ s.emitted \in Nat
  BY DEF Diagnostics

LEMMA DiagnosticsChanged ==
    ASSUME NEW s \in Diagnostics, NEW a \in Nat, NEW b \in Nat, NEW c \in Nat,
           NEW r \in Reasons \cup {None}
    PROVE  /\ [s EXCEPT !.skipped = a, !.loss = b, !.filtered = c] \in Diagnostics
           /\ [s EXCEPT !.duplicate = a] \in Diagnostics /\ [s EXCEPT !.selected = a] \in Diagnostics
           /\ [s EXCEPT !.raw = a] \in Diagnostics /\ [s EXCEPT !.reason = r] \in Diagnostics
           /\ [s EXCEPT !.complete = TRUE] \in Diagnostics /\ [s EXCEPT !.loss = a] \in Diagnostics
           /\ [s EXCEPT !.emitted = a, !.reason = r] \in Diagnostics
  BY DEF Diagnostics

\* A record that is counted as lost stays counted.
LEMMA TallyMeans ==
    ASSUME NEW s \in Diagnostics, NEW class
    PROVE  LET t == Tally(s, class)
           IN  /\ t \in Diagnostics /\ t.loss >= s.loss
               /\ class \in {"malformed", "parseError"} => t.loss > 0
               /\ t.reason = s.reason /\ t.complete = s.complete
               /\ t.emitted = s.emitted
<1> DEFINE a == s.skipped + (IF class \in {"malformed", "before", "after", "parseError"} THEN 1 ELSE 0)
           b == s.loss + (IF class \in {"malformed", "parseError"} THEN 1 ELSE 0)
           c == s.filtered + (IF class = "filtered" THEN 1 ELSE 0)
           t == [s EXCEPT !.skipped = a, !.loss = b, !.filtered = c]
<1>0. s.skipped \in Nat /\ s.loss \in Nat /\ s.filtered \in Nat
  BY DiagnosticsAre
<1>1. a \in Nat /\ b \in Nat /\ c \in Nat /\ b >= s.loss
      /\ (class \in {"malformed", "parseError"} => b > 0)
  BY <1>0
<1>2. Tally(s, class) = t
  BY DEF Tally
<1> HIDE DEF a, b, c
<1>3. t \in Diagnostics
  BY <1>1, DiagnosticsChanged, DiagnosticsAre
<1>4. t.loss = b /\ t.reason = s.reason /\ t.complete = s.complete /\ t.emitted = s.emitted
  BY DEF Diagnostics
<1> QED BY <1>1, <1>2, <1>3, <1>4

\* A record of a page, whatever becomes of it.
LEMMA SelectRecordTyped ==
    ASSUME world \in Worlds, NEW acc \in Selections, NEW i \in Records
    PROVE  SelectRecord(acc, i) \in Selections
<1> DEFINE s == Tally(acc.state, Class(i))
<1>1. acc.seen \in Seq(Records) /\ acc.kept \in Seq(Records) /\ acc.state \in Diagnostics
  BY DEF Selections
<1>2. s \in Diagnostics
  BY <1>1, TallyMeans
<1>3. [s EXCEPT !.duplicate = @ + 1] \in Diagnostics /\ [s EXCEPT !.selected = @ + 1] \in Diagnostics
  <2> HIDE DEF s
  <2>0. s.duplicate \in Nat /\ s.selected \in Nat
    BY <1>2, DiagnosticsAre
  <2>1. s.duplicate + 1 \in Nat /\ s.selected + 1 \in Nat
    BY <2>0
  <2> QED BY <1>2, <2>1, DiagnosticsAre, DiagnosticsChanged
<1>4. Registered(acc.seen, i, SeenLimit) \in Seq(Records)
  <2>1. Append(acc.seen, i) \in Seq(Records) /\ Append(acc.seen, i) # <<>>
    BY <1>1
  <2>2. Tail(Append(acc.seen, i)) \in Seq(Records)
    BY <2>1
  <2> QED BY <1>1, <2>1, <2>2 DEF Registered
<1>5. Append(acc.kept, i) \in Seq(Records)
  BY <1>1
<1> HIDE DEF s
<1> QED BY <1>1, <1>2, <1>3, <1>4, <1>5 DEF SelectRecord, Selections, s

\* A page, record by record.
LEMMA SelectedOneByOne ==
    ASSUME world \in Worlds, NEW first \in Selections, NEW s \in Seq(Records)
    PROVE  \E F : /\ F[0] = first
                  /\ \A k \in 1..Len(s) : F[k] = SelectRecord(F[k - 1], s[k])
                  /\ \A k \in 0..Len(s) : F[k] \in Selections
                  /\ FoldLeft(SelectRecord, first, s) = F[Len(s)]
<1> DEFINE n == Len(s)
           Step == [p \in Selections \X Records |-> SelectRecord(p[1], p[2])]
           G == CHOOSE f : f = [t \in SUBSET (1..n) |->
                                  IF t = {} THEN first ELSE SelectRecord(f[t \ {Max(t)}], s[Max(t)])]
           F == [k \in 0..n |-> G[1..k]]
<1>1. n \in Nat /\ DOMAIN s = 1..n /\ n \in 0..n /\ \A k \in 1..n : s[k] \in Records
  OBVIOUS
<1>2. FoldLeft(SelectRecord, first, s) = G[1..n]
  BY <1>1 DEF FoldLeft, MapThenFoldSet
<1>3. \A a \in Selections, x \in Records : SelectRecord(a, x) \in Selections
  BY SelectRecordTyped
<1>4. Step \in [Selections \X Records -> Selections] /\ first \in Selections
  BY <1>3
<1>5. PICK f : Iterates(f, Selections, first, s, Step)
  <2> HIDE DEF Step, G, F
  <2> QED BY <1>4, IterationExists
<1>6. f = [t \in SUBSET (1..n) |-> IF t = {} THEN first ELSE SelectRecord(f[t \ {Max(t)}], s[Max(t)])]
  <2>1. ASSUME NEW t \in SUBSET (1..n), t # {}
        PROVE  Step[<<f[t \ {Max(t)}], s[Max(t)]>>] = SelectRecord(f[t \ {Max(t)}], s[Max(t)])
    <3>1. Max(t) \in 1..n /\ t \ {Max(t)} \in SUBSET (1..n)
      <4> HIDE DEF n, G, F
      <4> QED BY <1>1, <2>1, MaxAmong
    <3>2. s[Max(t)] \in Records /\ f[t \ {Max(t)}] \in Selections
      BY <1>1, <1>5, <3>1 DEF Iterates
    <3> QED BY <3>2
  <2> HIDE DEF Step
  <2> QED BY <1>5, <2>1 DEF Iterates
<1>7. G = [t \in SUBSET (1..n) |-> IF t = {} THEN first ELSE SelectRecord(G[t \ {Max(t)}], s[Max(t)])]
  BY <1>6
<1> HIDE DEF G
<1>8. F[0] = first
  BY <1>1, <1>7
<1>9. ASSUME NEW k \in 1..n PROVE F[k] = SelectRecord(F[k - 1], s[k])
  <2>1. 1..k \in SUBSET (1..n) /\ 1..k # {} /\ (1..k) \ {k} = 1..(k - 1) /\ Max(1..k) = k
    BY <1>1, Peeled
  <2>2. k \in 0..n /\ k - 1 \in 0..n
    BY <1>1
  <2> QED BY <1>7, <2>1, <2>2
<1> HIDE DEF F, Step
<1>10. \A k \in 0..n : F[k] \in Selections
  <2> DEFINE T == {k \in 0..n : F[k] \in Selections}
  <2>1. 0 \in T
    <3>1. F[0] \in Selections
      BY <1>4, <1>8
    <3> QED BY <1>1, <3>1
  <2>2. ASSUME NEW k \in 0..(n - 1), k \in T PROVE k + 1 \in T
    <3>1. k + 1 \in 1..n /\ (k + 1) - 1 = k /\ k + 1 \in 0..n
      BY <1>1
    <3>2. F[k + 1] = SelectRecord(F[k], s[k + 1])
      BY <1>9, <3>1
    <3> QED BY <1>1, <1>3, <2>2, <3>1, <3>2
  <2> HIDE DEF T
  <2>3. \A k \in 0..n : k \in T
    BY <1>1, <2>1, <2>2, NatInductTo
  <2> QED BY <2>3 DEF T
<1> QED BY <1>1, <1>2, <1>8, <1>9, <1>10 DEF F

\* A page that is read record by record: what of it was put away, and what is known.
Picked(acc, order, j, p, s) ==
    /\ IsInjective(acc.kept) /\ IsInjective(acc.seen) /\ Len(acc.seen) <= SeenLimit
    /\ ToSet(acc.kept) \subseteq {order[l] : l \in 1..j} /\ Len(acc.kept) <= j
    /\ \A i \in ToSet(acc.kept) : Class(i) = "selected" /\ i \notin ToSet(source.spool)
    /\ ToSet(acc.seen) \subseteq ToSet(source.spool) \cup ToSet(acc.kept)
    /\ \A l \in 1..j :
         /\ Class(order[l]) = "selected" => order[l] \in ToSet(source.spool) \cup ToSet(acc.kept)
         /\ Class(order[l]) \in {"malformed", "parseError"} => acc.state.loss > 0
    /\ acc.state.loss >= s.loss /\ acc.state.reason = s.reason
    /\ acc.state.complete = s.complete /\ acc.state.emitted = s.emitted
    /\ world.digits =>
         /\ \A i \in ToSet(acc.kept) : Recent(acc.seen, i, Len(acc.kept))
         /\ p \in ToSet(source.spool) =>
              /\ Recent(acc.seen, p, PageSize + Len(acc.kept))
              /\ (\E l \in 1..j : order[l] = p) => Len(acc.kept) <= j - 1
    /\ ~world.digits => ToSet(source.spool) \cup ToSet(acc.kept) \subseteq ToSet(acc.seen)

LEMMA KnownIs ==
    ASSUME NEW seen, NEW i
    PROVE  Known(seen, i) <=> i \in ToSet(seen)
  BY DEF Known, ToSet

\* What was remembered lately is known.
LEMMA RecentIsSeen ==
    ASSUME NEW seen, NEW i, NEW d, Recent(seen, i, d)
    PROVE  i \in ToSet(seen)
  BY DEF Recent, ToSet

\* What is recent within a span is recent within a longer one.
LEMMA RecentWithin ==
    ASSUME NEW X, NEW seen \in Seq(X), NEW i, NEW d \in Int, NEW e \in Int, d <= e, Recent(seen, i, d)
    PROVE  Recent(seen, i, e)
<1>1. Len(seen) \in Nat /\ DOMAIN seen = 1..Len(seen)
  OBVIOUS
<1> QED BY <1>1 DEF Recent

LEMMA UpTo ==
    ASSUME NEW j \in Nat
    PROVE  1..(j + 1) = (1..j) \cup {j + 1}
  OBVIOUS

\* A record is put away, or it is not, and the counters say so.
LEMMA PicksOne ==
    ASSUME world \in Worlds, world.site = "kick", window \in Windows, window.to \in Int,
           NEW s \in Diagnostics, NEW order \in Seq(Records), IsInjective(order),
           Len(order) <= PageSize, NEW p \in Records, p \in ToSet(order),
           \A i \in ToSet(order) : i <= p,
           source.spool \in Seq(Records), SpoolSound(source.seen, source.spool, p),
           NEW j \in 0..(Len(order) - 1), NEW acc \in Selections, Picked(acc, order, j, p, s)
    PROVE  Picked(SelectRecord(acc, order[j + 1]), order, j + 1, p, s)
<1> DEFINE i == order[j + 1]
           n == Len(order)
           spool == source.spool
           t == Tally(acc.state, Class(i))
           new == SelectRecord(acc, i)
<1>1. /\ n \in Nat /\ j \in Nat /\ j + 1 \in 1..n /\ DOMAIN order = 1..n /\ n <= PageSize
      /\ \A l \in 1..n : order[l] \in Records /\ order[l] \in ToSet(order)
      /\ i \in Records /\ i \in ToSet(order)
  BY DEF ToSet
<1>2. acc.seen \in Seq(Records) /\ acc.kept \in Seq(Records) /\ acc.state \in Diagnostics
  BY DEF Selections
<1>3. /\ t \in Diagnostics /\ t.loss >= acc.state.loss
      /\ Class(i) \in {"malformed", "parseError"} => t.loss > 0
      /\ t.reason = acc.state.reason /\ t.complete = acc.state.complete
      /\ t.emitted = acc.state.emitted
  BY <1>2, TallyMeans
<1>4. /\ \A l \in 1..(j + 1) : l \in 1..j \/ l = j + 1
      /\ \A l \in 1..j : l \in 1..(j + 1) /\ l \in 1..n /\ l # j + 1
  BY <1>1
<1>5. t.loss \in Nat /\ acc.state.loss \in Nat /\ s.loss \in Nat
  BY <1>2, <1>3, DiagnosticsAre
<1>6. Records = 1..Len(world.history) /\ Len(world.history) \in Nat
  BY RecordsAre
<1>7. Len(acc.kept) \in Nat /\ Len(acc.seen) \in Nat /\ PageSize \in Nat /\ PageSize >= 1 /\ SeenLimit \in Nat
      /\ SeenLimit >= 1
  BY <1>2, Parameters
<1> HIDE DEF n, t, i
<1>8. CASE Class(i) # "selected"
  <2>1. new.kept = acc.kept /\ new.seen = acc.seen /\ new.state = t
    BY <1>8 DEF SelectRecord, Selections, t
  <2> HIDE DEF new
  <2>2. \A l \in 1..(j + 1) :
         /\ Class(order[l]) = "selected" => order[l] \in ToSet(spool) \cup ToSet(acc.kept)
         /\ Class(order[l]) \in {"malformed", "parseError"} => t.loss > 0
    BY <1>3, <1>4, <1>5, <1>8 DEF Picked, i
  <2>3. ToSet(acc.kept) \subseteq {order[l] : l \in 1..(j + 1)} /\ Len(acc.kept) <= j + 1
    BY <1>1, <1>4, <1>7 DEF Picked
  <2>4. ASSUME world.digits, p \in ToSet(spool), \E l \in 1..(j + 1) : order[l] = p
        PROVE  Len(acc.kept) <= (j + 1) - 1
    BY <1>1, <1>4, <1>7, <2>4 DEF Picked
  <2>5. t.loss >= s.loss /\ t.reason = s.reason /\ t.complete = s.complete /\ t.emitted = s.emitted
    BY <1>3, <1>5 DEF Picked
  <2>6. Picked(new, order, j + 1, p, s)
    BY <2>1, <2>2, <2>3, <2>4, <2>5 DEF Picked
  <2> QED BY <2>6 DEF new, i
<1>9. CASE Class(i) = "selected" /\ Known(acc.seen, i)
  <2>1. new.kept = acc.kept /\ new.seen = acc.seen /\ new.state = [t EXCEPT !.duplicate = @ + 1]
    BY <1>9 DEF SelectRecord, Selections, t
  <2>2. new.state.loss = t.loss /\ new.state.reason = t.reason /\ new.state.complete = t.complete
        /\ new.state.emitted = t.emitted
    BY <1>3, <2>1 DEF Diagnostics
  <2> HIDE DEF new
  <2>3. i \in ToSet(spool) \cup ToSet(acc.kept)
    BY <1>9, KnownIs DEF Picked
  <2>4. \A l \in 1..(j + 1) :
         /\ Class(order[l]) = "selected" => order[l] \in ToSet(spool) \cup ToSet(acc.kept)
         /\ Class(order[l]) \in {"malformed", "parseError"} => t.loss > 0
    BY <1>3, <1>4, <1>5, <1>9, <2>3 DEF Picked, i
  <2>5. ToSet(acc.kept) \subseteq {order[l] : l \in 1..(j + 1)} /\ Len(acc.kept) <= j + 1
    BY <1>1, <1>4, <1>7 DEF Picked
  <2>6. ASSUME world.digits, p \in ToSet(spool), \E l \in 1..(j + 1) : order[l] = p
        PROVE  Len(acc.kept) <= (j + 1) - 1
    BY <1>1, <1>4, <1>7, <2>6 DEF Picked
  <2>7. t.loss >= s.loss /\ t.reason = s.reason /\ t.complete = s.complete /\ t.emitted = s.emitted
    BY <1>3, <1>5 DEF Picked
  <2>8. Picked(new, order, j + 1, p, s)
    BY <2>1, <2>2, <2>4, <2>5, <2>6, <2>7 DEF Picked
  <2> QED BY <2>8 DEF new, i
<1>10. CASE Class(i) = "selected" /\ ~Known(acc.seen, i)
  <2>1. new.kept = Append(acc.kept, i) /\ new.seen = Registered(acc.seen, i, SeenLimit)
        /\ new.state = [t EXCEPT !.selected = @ + 1]
    BY <1>10 DEF SelectRecord, Selections, t
  <2>2. new.state.loss = t.loss /\ new.state.reason = t.reason /\ new.state.complete = t.complete
        /\ new.state.emitted = t.emitted
    BY <1>3, <2>1 DEF Diagnostics
  <2> HIDE DEF new
  <2>3. i \notin ToSet(acc.seen)
    BY <1>10, KnownIs
  <2>4. i \notin ToSet(acc.kept)
    <3>1. \A l \in 1..j : order[l] # i
      BY <1>1, <1>4 DEF IsInjective, i
    <3> QED BY <3>1 DEF Picked
  <2>5. i \notin ToSet(spool)
    <3>1. CASE world.digits
      <4>1. ASSUME i \in ToSet(spool) PROVE FALSE
        <5>1. i >= p /\ i <= p /\ p \in Nat
          BY <1>1, <1>6, <3>1, <4>1 DEF SpoolSound
        <5>2. i = p
          BY <1>1, <1>6, <5>1
        <5>3. Recent(acc.seen, p, PageSize + Len(acc.kept))
          BY <3>1, <4>1, <5>2 DEF Picked
        <5> QED BY <2>3, <5>2, <5>3, RecentIsSeen
      <4> QED BY <4>1
    <3>2. CASE ~world.digits
      BY <2>3, <3>2 DEF Picked
    <3> QED BY <3>1, <3>2
  <2>6. /\ Append(acc.kept, i) \in Seq(Records) /\ IsInjective(Append(acc.kept, i))
        /\ ToSet(Append(acc.kept, i)) = ToSet(acc.kept) \cup {i}
        /\ Len(Append(acc.kept, i)) = Len(acc.kept) + 1
    BY <1>1, <1>2, <2>4, AppendMeans DEF Picked
  <2> DEFINE r == Registered(acc.seen, i, SeenLimit)
  <2>7. /\ r \in Seq(Records) /\ IsInjective(r) /\ Len(r) <= SeenLimit
        /\ ToSet(r) \subseteq ToSet(acc.seen) \cup {i} /\ Recent(r, i, 1)
        /\ Len(acc.seen) < SeenLimit => ToSet(r) = ToSet(acc.seen) \cup {i}
        /\ \A x, d : d \in Nat /\ d < SeenLimit /\ Recent(acc.seen, x, d) => Recent(r, x, d + 1)
    BY <1>1, <1>2, <1>7, <2>3, RegisteredMeans DEF Picked
  <2> HIDE DEF r
  <2>8. \A l \in 1..(j + 1) :
         /\ Class(order[l]) = "selected" => order[l] \in ToSet(spool) \cup (ToSet(acc.kept) \cup {i})
         /\ Class(order[l]) \in {"malformed", "parseError"} => t.loss > 0
    BY <1>3, <1>4, <1>5, <1>10 DEF Picked, i
  <2>9. /\ ToSet(acc.kept) \cup {i} \subseteq {order[l] : l \in 1..(j + 1)}
        /\ Len(acc.kept) + 1 <= j + 1
    BY <1>1, <1>4, <1>7 DEF Picked, i
  <2>10. \A x \in ToSet(acc.kept) \cup {i} : Class(x) = "selected" /\ x \notin ToSet(spool)
    BY <1>10, <2>5 DEF Picked
  <2>11. ToSet(r) \subseteq ToSet(spool) \cup (ToSet(acc.kept) \cup {i})
    BY <2>7 DEF Picked
  <2>12. ASSUME world.digits
         PROVE  /\ \A x \in ToSet(acc.kept) \cup {i} : Recent(r, x, Len(acc.kept) + 1)
                /\ p \in ToSet(spool) =>
                     /\ Recent(r, p, PageSize + (Len(acc.kept) + 1))
                     /\ (\E l \in 1..(j + 1) : order[l] = p) => Len(acc.kept) + 1 <= (j + 1) - 1
    <3>1. 2 * PageSize - 1 <= SeenLimit
      BY World, <2>12 DEF Remembered
    <3>2. Len(acc.kept) < SeenLimit /\ Len(acc.kept) <= j
      BY <1>1, <1>7, <3>1 DEF Picked
    <3>3. Recent(r, i, Len(acc.kept) + 1)
      <4>1. 1 <= Len(acc.kept) + 1
        BY <1>7
      <4> QED BY <1>7, <2>7, <4>1, RecentWithin
    <3>4. \A x \in ToSet(acc.kept) : Recent(r, x, Len(acc.kept) + 1)
      BY <1>7, <2>7, <2>12, <3>2 DEF Picked
    <3>5. ASSUME p \in ToSet(spool)
          PROVE  /\ Recent(r, p, PageSize + (Len(acc.kept) + 1))
                 /\ (\E l \in 1..(j + 1) : order[l] = p) => Len(acc.kept) + 1 <= (j + 1) - 1
      <4>1. p # i
        BY <2>5, <3>5
      <4>2. PICK m \in 1..n : order[m] = p
        BY <1>1 DEF ToSet
      <4>3. m # j + 1
        BY <4>1, <4>2 DEF i
      <4>4. m \in 1..j => Len(acc.kept) <= j - 1
        BY <2>12, <3>5, <4>2 DEF Picked
      <4>5. PageSize + Len(acc.kept) < SeenLimit
        BY <1>1, <1>7, <3>1, <3>2, <4>3, <4>4
      <4>6. Recent(acc.seen, p, PageSize + Len(acc.kept))
        BY <2>12, <3>5 DEF Picked
      <4>7. PageSize + Len(acc.kept) \in Nat
            /\ (PageSize + Len(acc.kept)) + 1 = PageSize + (Len(acc.kept) + 1)
        BY <1>7
      <4>8. Recent(r, p, PageSize + (Len(acc.kept) + 1))
        BY <2>7, <4>5, <4>6, <4>7
      <4>9. ASSUME NEW l \in 1..(j + 1), order[l] = p PROVE Len(acc.kept) + 1 <= (j + 1) - 1
        <5>1. l \in 1..j
          BY <1>4, <4>1, <4>9 DEF i
        <5>2. Len(acc.kept) <= j - 1
          BY <2>12, <3>5, <4>9, <5>1 DEF Picked
        <5> QED BY <1>1, <1>7, <5>2
      <4> QED BY <4>8, <4>9
    <3> QED BY <3>3, <3>4, <3>5
  <2>13. ASSUME ~world.digits
         PROVE  ToSet(spool) \cup (ToSet(acc.kept) \cup {i}) \subseteq ToSet(r)
    <3>1. Len(world.history) <= SeenLimit
      BY World, <2>13 DEF Remembered
    <3>2. Append(acc.seen, i) \in Seq(1..Len(world.history)) /\ IsInjective(Append(acc.seen, i))
          /\ Len(Append(acc.seen, i)) = Len(acc.seen) + 1
      BY <1>1, <1>2, <1>6, <2>3, AppendMeans DEF Picked
    <3>3. Len(acc.seen) + 1 <= Len(world.history)
      BY <1>6, <3>2, NoMoreThan
    <3>4. Len(acc.seen) < SeenLimit
      BY <1>6, <1>7, <3>1, <3>3
    <3> QED BY <2>7, <2>13, <3>4 DEF Picked
  <2>14. /\ new.seen = r /\ IsInjective(new.kept) /\ ToSet(new.kept) = ToSet(acc.kept) \cup {i}
         /\ Len(new.kept) = Len(acc.kept) + 1
    BY <2>1, <2>6 DEF r
  <2>16. t.loss >= s.loss /\ t.reason = s.reason /\ t.complete = s.complete /\ t.emitted = s.emitted
    BY <1>3, <1>5 DEF Picked
  <2>15. Picked(new, order, j + 1, p, s)
    BY <2>2, <2>7, <2>8, <2>9, <2>10, <2>11, <2>12, <2>13, <2>14, <2>16 DEF Picked
  <2> QED BY <2>15 DEF new, i
<1> QED BY <1>8, <1>9, <1>10 DEF i

\* A page holds the records of its span, each once.
LEMMA PageIs ==
    ASSUME world \in Worlds, NEW p \in 0..Len(world.history), NEW k \in 0..p
    PROVE  /\ Page(p, k) \in Seq(Records) /\ IsInjective(Page(p, k)) /\ Len(Page(p, k)) = k
           /\ ToSet(Page(p, k)) = (p - k + 1)..p
           /\ Page(p, k) = <<>> <=> k = 0
<1> DEFINE n == Len(world.history)
           s == Page(p, k)
<1>1. n \in Nat /\ Records = 1..n
  BY RecordsAre
<1> HIDE DEF n
<1>2. p \in Nat /\ k \in Nat /\ k <= p /\ p <= n
  BY <1>1 DEF n
<1>3. s = [j \in 1..k |-> p + 1 - j] /\ \A j \in 1..k : p + 1 - j \in Records
  BY <1>1, <1>2 DEF Page
<1>4. s \in Seq(Records) /\ Len(s) = k /\ DOMAIN s = 1..k /\ \A j \in 1..k : s[j] = p + 1 - j
  <2> HIDE DEF s
  <2> QED BY <1>2, <1>3
<1> HIDE DEF s
<1>5. IsInjective(s)
  BY <1>2, <1>4 DEF IsInjective
<1>6. ToSet(s) = (p - k + 1)..p
  <2>1. \A j \in 1..k : s[j] \in (p - k + 1)..p
    BY <1>2, <1>4
  <2>2. \A i \in (p - k + 1)..p : p + 1 - i \in 1..k /\ s[p + 1 - i] = i
    BY <1>2, <1>4
  <2> QED BY <1>4, <2>1, <2>2 DEF ToSet
<1>7. s = <<>> <=> k = 0
  <2>1. \A t \in Seq(Records) : t = <<>> <=> Len(t) = 0
    BY EmptySeq
  <2> QED BY <1>4, <2>1
<1> QED BY <1>4, <1>5, <1>6, <1>7 DEF s

\* A page of a replay: nothing selected is missed, and nothing is put away twice.
LEMMA SelectionMeans ==
    ASSUME world \in Worlds, world.site = "kick", window \in Windows, window.to \in Int,
           source.seen \in Seq(Records), source.spool \in Seq(Records), NEW s \in Diagnostics,
           NEW p \in Records, NEW k \in 1..p, k <= PageSize,
           SpoolSound(source.seen, source.spool, p)
    PROVE  LET chosen == Selection(Page(p, k), s)
               spool == source.spool \o chosen.kept
           IN  /\ chosen \in Selections /\ spool \in Seq(Records)
               /\ SpoolSound(chosen.seen, spool, p - k)
               /\ SpoolSound(chosen.seen, spool, p - k + 1)
               /\ ToSet(source.spool) \subseteq ToSet(spool)
               /\ \A i \in (p - k + 1)..p :
                    /\ Class(i) = "selected" => i \in ToSet(spool)
                    /\ Class(i) \in {"malformed", "parseError"} => chosen.state.loss > 0
               /\ chosen.state.loss >= s.loss /\ chosen.state.reason = s.reason
               /\ chosen.state.complete = s.complete /\ chosen.state.emitted = s.emitted
<1> DEFINE order == NewestFirst(Page(p, k))
           first == [seen |-> source.seen, kept |-> <<>>, state |-> s]
           chosen == Selection(Page(p, k), s)
           spool == source.spool \o chosen.kept
<1>1. p \in Nat /\ p \in 0..Len(world.history) /\ k \in 0..p /\ k \in Nat /\ k >= 1 /\ k <= p
      /\ Records = 1..Len(world.history) /\ Len(world.history) \in Nat
  BY RecordsAre
<1>2. /\ order \in Seq(Records) /\ IsInjective(order) /\ Len(order) = k
      /\ ToSet(order) = (p - k + 1)..p
  BY <1>1, PageIs, NewestFirstMeans
<1>3. first \in Selections
  BY DEF Selections
<1>4. chosen = FoldLeft(SelectRecord, first, order)
  BY DEF Selection
<1> HIDE DEF order, first, chosen, spool
<1>5. PICK F : /\ F[0] = first
               /\ \A j \in 1..Len(order) : F[j] = SelectRecord(F[j - 1], order[j])
               /\ \A j \in 0..Len(order) : F[j] \in Selections
               /\ FoldLeft(SelectRecord, first, order) = F[Len(order)]
  BY <1>2, <1>3, SelectedOneByOne
<1>6. p \in ToSet(order) /\ \A i \in ToSet(order) : i <= p
  BY <1>1, <1>2
<1> DEFINE T == {j \in 0..k : Picked(F[j], order, j, p, s)}
<1>7. 0 \in T
  <2>1. first.seen = source.seen /\ first.kept = <<>> /\ first.state = s /\ Len(<<>>) = 0
    BY DEF first
  <2>2. ToSet(<<>>) = {} /\ IsInjective(<<>>)
    BY Single
  <2>7. 1..0 = {}
    OBVIOUS
  <2>3. PageSize + 0 = PageSize
    BY Parameters
  <2>4. s.loss \in Nat
    BY DiagnosticsAre
  <2>5. ASSUME world.digits
        PROVE  p \in ToSet(source.spool) => Recent(source.seen, p, PageSize)
    BY <2>5 DEF SpoolSound
  <2>6. Picked(first, order, 0, p, s)
    BY <2>1, <2>2, <2>3, <2>4, <2>5, <2>7 DEF Picked, SpoolSound
  <2> QED BY <1>1, <1>5, <2>6
<1>8. ASSUME NEW j \in 0..(k - 1), j \in T PROVE j + 1 \in T
  <2>1. j + 1 \in 1..Len(order) /\ (j + 1) - 1 = j /\ j \in 0..Len(order) /\ j + 1 \in 0..k
        /\ j \in 0..(Len(order) - 1)
    BY <1>1, <1>2
  <2>2. F[j + 1] = SelectRecord(F[j], order[j + 1]) /\ F[j] \in Selections
    BY <1>5, <2>1
  <2>3. Picked(F[j], order, j, p, s) /\ Len(order) <= PageSize
    BY <1>2, <1>8
  <2>4. Picked(SelectRecord(F[j], order[j + 1]), order, j + 1, p, s)
    BY <1>2, <1>6, <2>1, <2>2, <2>3, PicksOne
  <2> QED BY <2>1, <2>2, <2>4
<1> HIDE DEF T
<1>9. k \in T
  <2>1. k \in 0..k
    BY <1>1
  <2> QED BY <1>1, <1>7, <1>8, <2>1, NatInductTo
<1>10. chosen \in Selections /\ Picked(chosen, order, k, p, s)
  <2>1. k \in 0..Len(order)
    BY <1>1, <1>2
  <2> QED BY <1>2, <1>4, <1>5, <1>9, <2>1 DEF T
<1>11. chosen.seen \in Seq(Records) /\ chosen.kept \in Seq(Records) /\ chosen.state \in Diagnostics
  BY <1>10 DEF Selections
<1>12. ToSet(source.spool) \cap ToSet(chosen.kept) = {}
  BY <1>10 DEF Picked
<1>13. /\ spool \in Seq(Records) /\ ToSet(spool) = ToSet(source.spool) \cup ToSet(chosen.kept)
       /\ IsInjective(spool)
  <2>1. IsInjective(source.spool) /\ IsInjective(chosen.kept)
    BY <1>10 DEF Picked, SpoolSound
  <2> DEFINE a == source.spool
             b == chosen.kept
  <2> HIDE DEF a, b
  <2>2. a \in Seq(Records) /\ b \in Seq(Records) /\ IsInjective(a) /\ IsInjective(b)
        /\ ToSet(a) \cap ToSet(b) = {}
    BY <1>11, <1>12, <2>1 DEF a, b
  <2>3. a \o b \in Seq(Records) /\ ToSet(a \o b) = ToSet(a) \cup ToSet(b) /\ IsInjective(a \o b)
    BY <2>2, Concatenated
  <2> QED BY <2>3 DEF a, b, spool
<1>14. \A i \in ToSet(chosen.kept) : i >= p - k + 1 /\ i <= p /\ i \in Nat
  <2>1. ToSet(chosen.kept) \subseteq ToSet(order)
    <3>1. {order[l] : l \in 1..k} \subseteq ToSet(order)
      BY <1>2 DEF ToSet
    <3> QED BY <1>10, <3>1 DEF Picked
  <2> QED BY <1>1, <1>2, <2>1
<1>15. \A i \in (p - k + 1)..p : /\ Class(i) = "selected" => i \in ToSet(spool)
                                 /\ Class(i) \in {"malformed", "parseError"} => chosen.state.loss > 0
  <2> SUFFICES ASSUME NEW i \in (p - k + 1)..p
               PROVE  /\ Class(i) = "selected" => i \in ToSet(spool)
                      /\ Class(i) \in {"malformed", "parseError"} => chosen.state.loss > 0
    OBVIOUS
  <2>1. PICK l \in 1..k : order[l] = i
    BY <1>2 DEF ToSet
  <2> QED BY <1>10, <1>13, <2>1 DEF Picked
<1>16. Len(chosen.kept) \in Nat /\ Len(chosen.kept) <= k /\ PageSize \in Nat /\ PageSize >= 1
  BY <1>10, <1>11, Parameters DEF Picked
<1>17. ASSUME NEW q \in {p - k, p - k + 1}
       PROVE  SpoolSound(chosen.seen, spool, q)
  <2>1. /\ IsInjective(chosen.seen) /\ Len(chosen.seen) <= SeenLimit
        /\ \A i \in ToSet(spool) : Class(i) = "selected"
        /\ ToSet(chosen.seen) \subseteq ToSet(spool)
        /\ ~world.digits => ToSet(spool) \subseteq ToSet(chosen.seen)
    BY <1>10, <1>13 DEF Picked, SpoolSound
  <2>2. ASSUME world.digits
        PROVE  /\ \A i \in ToSet(spool) : i >= q
               /\ q \in ToSet(spool) => Recent(chosen.seen, q, PageSize)
    <3>1. \A i \in ToSet(source.spool) : i >= p /\ i \in Nat
      <4>1. \A i \in ToSet(source.spool) : i \in Records
        BY DEF ToSet
      <4> QED BY <1>1, <2>2, <4>1 DEF SpoolSound
    <3>2. \A i \in ToSet(spool) : i >= q
      BY <1>1, <1>13, <1>14, <1>17, <3>1
    <3>3. ASSUME q \in ToSet(chosen.kept) PROVE Recent(chosen.seen, q, PageSize)
      <4>1. Recent(chosen.seen, q, Len(chosen.kept))
        BY <1>10, <2>2, <3>3 DEF Picked
      <4>2. Len(chosen.kept) <= PageSize
        BY <1>1, <1>16
      <4> QED BY <1>11, <1>16, <4>1, <4>2, RecentWithin
    <3>4. ASSUME q \in ToSet(source.spool) PROVE Recent(chosen.seen, q, PageSize)
      <4>1. q = p /\ k = 1
        BY <1>1, <1>17, <3>1, <3>4
      <4>2. Recent(chosen.seen, p, PageSize + Len(chosen.kept))
        BY <1>10, <2>2, <3>4, <4>1 DEF Picked
      <4>3. \E l \in 1..k : order[l] = p
        BY <1>2, <1>6 DEF ToSet
      <4>4. Len(chosen.kept) <= k - 1
        BY <1>10, <2>2, <3>4, <4>1, <4>3 DEF Picked
      <4>5. PageSize + Len(chosen.kept) = PageSize
        BY <1>16, <4>1, <4>4
      <4> QED BY <4>1, <4>2, <4>5
    <3> QED BY <1>13, <3>2, <3>3, <3>4
  <2> QED BY <1>13, <2>1, <2>2 DEF SpoolSound
<1>18. chosen.state.loss >= s.loss /\ chosen.state.reason = s.reason
       /\ chosen.state.complete = s.complete /\ chosen.state.emitted = s.emitted
  BY <1>10 DEF Picked
<1>19. SpoolSound(chosen.seen, spool, p - k) /\ SpoolSound(chosen.seen, spool, p - k + 1)
  BY <1>17
<1>20. ToSet(source.spool) \subseteq ToSet(spool)
  BY <1>13
<1> QED BY <1>10, <1>13, <1>15, <1>18, <1>19, <1>20 DEF chosen, spool

-----------------------------------------------------------------------------
\* A record of a recovery.
LEMMA RecoverMeans ==
    ASSUME NEW found \in Seq(Records), NEW i \in Records
    PROVE  /\ Recover(found, i) \in Seq(Records)
           /\ ToSet(found) \subseteq ToSet(Recover(found, i))
           /\ source.seen \in Seq(Records) /\ Kind(i) # "undated" /\ ~(At(i) < window.from)
                /\ ~(At(i) > window.to) =>
                i \in ToSet(source.seen) \cup ToSet(Recover(found, i))
<1>1. Append(found, i) \in Seq(Records) /\ ToSet(Append(found, i)) = ToSet(found) \cup {i}
  BY AppendMeans
<1>2. ASSUME source.seen \in Seq(Records), Known(source.seen \o found, i)
      PROVE  i \in ToSet(source.seen) \cup ToSet(found)
  <2> DEFINE a == source.seen
  <2> HIDE DEF a
  <2>1. a \in Seq(Records) /\ i \in ToSet(a \o found)
    BY <1>2, KnownIs DEF a
  <2>2. ToSet(a \o found) = ToSet(a) \cup ToSet(found)
    BY <2>1, Concatenated
  <2> QED BY <2>1, <2>2 DEF a
<1> QED BY <1>1, <1>2 DEF Recover

\* A page of a recovery, record by record.
LEMMA RecoveredOneByOne ==
    ASSUME NEW s \in Seq(Records)
    PROVE  \E F : /\ F[0] = <<>>
                  /\ \A k \in 1..Len(s) : F[k] = Recover(F[k - 1], s[k])
                  /\ \A k \in 0..Len(s) : F[k] \in Seq(Records)
                  /\ Recovered(s) = F[Len(s)]
<1> DEFINE n == Len(s)
           Step == [p \in Seq(Records) \X Records |-> Recover(p[1], p[2])]
           G == CHOOSE f : f = [t \in SUBSET (1..n) |->
                                  IF t = {} THEN <<>> ELSE Recover(f[t \ {Max(t)}], s[Max(t)])]
           F == [k \in 0..n |-> G[1..k]]
<1>1. n \in Nat /\ DOMAIN s = 1..n /\ n \in 0..n /\ \A k \in 1..n : s[k] \in Records
  OBVIOUS
<1>2. Recovered(s) = G[1..n]
  BY <1>1 DEF Recovered, FoldLeft, MapThenFoldSet
<1>3. \A a \in Seq(Records), x \in Records : Recover(a, x) \in Seq(Records)
  BY RecoverMeans
<1>4. Step \in [Seq(Records) \X Records -> Seq(Records)] /\ <<>> \in Seq(Records)
  BY <1>3
<1>5. PICK f : Iterates(f, Seq(Records), <<>>, s, Step)
  <2> HIDE DEF Step, G, F
  <2> QED BY <1>4, IterationExists
<1>6. f = [t \in SUBSET (1..n) |-> IF t = {} THEN <<>> ELSE Recover(f[t \ {Max(t)}], s[Max(t)])]
  <2>1. ASSUME NEW t \in SUBSET (1..n), t # {}
        PROVE  Step[<<f[t \ {Max(t)}], s[Max(t)]>>] = Recover(f[t \ {Max(t)}], s[Max(t)])
    <3>1. Max(t) \in 1..n /\ t \ {Max(t)} \in SUBSET (1..n)
      <4> HIDE DEF n, G, F
      <4> QED BY <1>1, <2>1, MaxAmong
    <3>2. s[Max(t)] \in Records /\ f[t \ {Max(t)}] \in Seq(Records)
      BY <1>1, <1>5, <3>1 DEF Iterates
    <3> QED BY <3>2
  <2> HIDE DEF Step
  <2> QED BY <1>5, <2>1 DEF Iterates
<1>7. G = [t \in SUBSET (1..n) |-> IF t = {} THEN <<>> ELSE Recover(G[t \ {Max(t)}], s[Max(t)])]
  BY <1>6
<1> HIDE DEF G
<1>8. F[0] = <<>>
  BY <1>1, <1>7
<1>9. ASSUME NEW k \in 1..n PROVE F[k] = Recover(F[k - 1], s[k])
  <2>1. 1..k \in SUBSET (1..n) /\ 1..k # {} /\ (1..k) \ {k} = 1..(k - 1) /\ Max(1..k) = k
    BY <1>1, Peeled
  <2>2. k \in 0..n /\ k - 1 \in 0..n
    BY <1>1
  <2> QED BY <1>7, <2>1, <2>2
<1> HIDE DEF F, Step
<1>10. \A k \in 0..n : F[k] \in Seq(Records)
  <2> DEFINE T == {k \in 0..n : F[k] \in Seq(Records)}
  <2>1. 0 \in T
    <3>1. F[0] \in Seq(Records)
      BY <1>4, <1>8
    <3> QED BY <1>1, <3>1
  <2>2. ASSUME NEW k \in 0..(n - 1), k \in T PROVE k + 1 \in T
    <3>1. k + 1 \in 1..n /\ (k + 1) - 1 = k /\ k + 1 \in 0..n
      BY <1>1
    <3>2. F[k + 1] = Recover(F[k], s[k + 1])
      BY <1>9, <3>1
    <3> QED BY <1>1, <1>3, <2>2, <3>1, <3>2
  <2> HIDE DEF T
  <2>3. \A k \in 0..n : k \in T
    BY <1>1, <2>1, <2>2, NatInductTo
  <2> QED BY <2>3 DEF T
<1> QED BY <1>1, <1>2, <1>8, <1>9, <1>10 DEF F

\* What a page of a recovery has, of the window, is yielded.
LEMMA RecoveredMeans ==
    ASSUME NEW page \in Seq(Records)
    PROVE  /\ Recovered(page) \in Seq(Records)
           /\ source.seen \in Seq(Records) =>
                \A i \in ToSet(page) :
                  Kind(i) # "undated" /\ ~(At(i) < window.from) /\ ~(At(i) > window.to) =>
                    i \in ToSet(source.seen) \cup ToSet(Recovered(page))
<1> DEFINE n == Len(page)
           Out(i) == Kind(i) # "undated" /\ ~(At(i) < window.from) /\ ~(At(i) > window.to)
<1>1. PICK F : /\ F[0] = <<>>
               /\ \A k \in 1..n : F[k] = Recover(F[k - 1], page[k])
               /\ \A k \in 0..n : F[k] \in Seq(Records)
               /\ Recovered(page) = F[n]
  BY RecoveredOneByOne
<1>2. n \in Nat /\ DOMAIN page = 1..n /\ n \in 0..n /\ \A k \in 1..n : page[k] \in Records
  OBVIOUS
<1> HIDE DEF n
<1>3. ASSUME source.seen \in Seq(Records)
      PROVE  \A i \in ToSet(page) : Out(i) => i \in ToSet(source.seen) \cup ToSet(F[n])
  <2> DEFINE T == {k \in 0..n : \A l \in 1..k :
                     Out(page[l]) => page[l] \in ToSet(source.seen) \cup ToSet(F[k])}
  <2>1. 0 \in T
    BY <1>2
  <2>2. ASSUME NEW k \in 0..(n - 1), k \in T PROVE k + 1 \in T
    <3>1. k + 1 \in 1..n /\ (k + 1) - 1 = k /\ k + 1 \in 0..n /\ k \in 0..n /\ k \in Nat
      BY <1>2
    <3>2. F[k + 1] = Recover(F[k], page[k + 1]) /\ F[k] \in Seq(Records) /\ page[k + 1] \in Records
      BY <1>1, <1>2, <3>1
    <3>3. /\ ToSet(F[k]) \subseteq ToSet(F[k + 1])
          /\ Out(page[k + 1]) => page[k + 1] \in ToSet(source.seen) \cup ToSet(F[k + 1])
      BY <1>3, <3>2, RecoverMeans
    <3>4. \A l \in 1..(k + 1) : l \in 1..k \/ l = k + 1
      BY <3>1
    <3> HIDE DEF Out
    <3> QED BY <2>2, <3>1, <3>3, <3>4
  <2> HIDE DEF T
  <2>3. n \in T
    BY <1>2, <2>1, <2>2, NatInductTo
  <2>4. \A l \in 1..n : Out(page[l]) => page[l] \in ToSet(source.seen) \cup ToSet(F[n])
    BY <2>3 DEF T
  <2> QED BY <1>2, <2>4 DEF ToSet
<1> QED BY <1>1, <1>2, <1>3

-----------------------------------------------------------------------------
(* What the provider serves.                                               *)

LEMMA PositionIs ==
    ASSUME NEW n \in Nat, NEW cursor \in 1..(2 * n + 1)
    PROVE  Position(cursor) \in 0..n
  BY DEF Position

\* A page goes on where the one before it ended, but for what it repeats.
LEMMA HonestAnswerIs ==
    ASSUME world \in Worlds, NEW cursor \in 1..(2 * Len(world.history) + 1),
           NEW a \in HonestAnswers(cursor)
    PROVE  LET p == Position(cursor)
           IN  \E k \in 0..p :
                 /\ k <= PageSize /\ a.page = Page(p, k)
                 /\ a.next = None => k = p
                 /\ a.next # None =>
                      /\ a.next \in 1..(2 * Len(world.history) + 1)
                      /\ Position(a.next) \in {p - k, p - k + 1}
                      /\ a.next < cursor => Position(a.next) <= p
<1> DEFINE n == Len(world.history)
           p == Position(cursor)
<1>1. n \in Nat /\ PageSize \in Nat /\ None \notin Int
  BY RecordsAre, Parameters
<1>2. p \in 0..n /\ p = cursor \div 2
  BY <1>1, PositionIs DEF Position
<1>3. PICK k \in 0..Min({PageSize, p}) :
        /\ a.page = Page(p, k)
        /\ a.next \in IF p - k = 0 THEN {None, 1}
                      ELSE {2 * (p - k), 2 * (p - k) + 1, Min({2 * (p - k) + 2, 2 * n + 1})}
  <2>1. PICK k \in 0..Min({PageSize, p}) :
          a \in {[page |-> Page(p, k), next |-> next] :
                   next \in IF p - k = 0 THEN {None, 1}
                            ELSE {2 * (p - k), 2 * (p - k) + 1, Min({2 * (p - k) + 2, 2 * n + 1})}}
    BY DEF HonestAnswers
  <2>2. PICK next \in IF p - k = 0 THEN {None, 1}
                      ELSE {2 * (p - k), 2 * (p - k) + 1, Min({2 * (p - k) + 2, 2 * n + 1})} :
          a = [page |-> Page(p, k), next |-> next]
    <3> HIDE DEF n, p
    <3> QED BY <2>1
  <2>3. a.page = Page(p, k) /\ a.next = next
    BY <2>2
  <2> HIDE DEF n, p
  <2> QED BY <2>2, <2>3
<1> HIDE DEF n, p
<1>4. k \in 0..p /\ k <= PageSize
  <2>1. PageSize \in Int /\ p \in Int
    BY <1>1, <1>2
  <2>2. Min({PageSize, p}) = IF PageSize <= p THEN PageSize ELSE p
    BY <2>1, MinOfTwo
  <2> QED BY <1>1, <1>2, <1>3, <2>2
<1> DEFINE q == p - k
<1>5. q \in 0..n /\ q <= p /\ (q = 0 <=> k = p)
  BY <1>1, <1>2, <1>4
<1>6. CASE q = 0
  <2>1. a.next \in {None, 1}
    BY <1>3, <1>6
  <2>2. Position(1) = 0
    BY DEF Position
  <2>3. 1 \in 1..(2 * n + 1) /\ 0 <= p
    BY <1>1, <1>2
  <2> QED BY <1>3, <1>4, <1>5, <1>6, <2>1, <2>2, <2>3 DEF n, p
<1>7. CASE q # 0
  <2> DEFINE m == Min({2 * q + 2, 2 * n + 1})
  <2>1. m = IF 2 * q + 2 <= 2 * n + 1 THEN 2 * q + 2 ELSE 2 * n + 1
    <3>1. 2 * q + 2 \in Int /\ 2 * n + 1 \in Int
      BY <1>1, <1>5
    <3> QED BY <3>1, MinOfTwo
  <2>2. a.next \in {2 * q, 2 * q + 1, m}
    BY <1>3, <1>7
  <2> HIDE DEF m
  <2>3. a.next \in 1..(2 * n + 1)
    BY <1>1, <1>5, <1>7, <2>1, <2>2
  <2>4. Position(a.next) \in {q, q + 1}
    <3>1. Position(2 * q) = q /\ Position(2 * q + 1) = q /\ Position(2 * q + 2) = q + 1
      BY <1>1, <1>5 DEF Position
    <3>2. m = 2 * n + 1 /\ ~(2 * q + 2 <= 2 * n + 1) => m = 2 * q + 1
      BY <1>1, <1>5
    <3>3. m \in {2 * q + 1, 2 * q + 2}
      BY <2>1, <3>2
    <3> QED BY <2>2, <3>1, <3>3
  <2>5. a.next < cursor => Position(a.next) <= p
    BY <1>1, <1>2, <2>3 DEF Position, n
  <2>6. a.next # None
    BY <1>1, <2>3
  <2> QED BY <1>3, <1>4, <2>3, <2>4, <2>5, <2>6 DEF n, p
<1> QED BY <1>6, <1>7

\* A page that is not known was not served by a provider at fault.
LEMMA AnswerIsHonest ==
    ASSUME source.pages \subseteq Seq(Records) \ {<<>>}, NEW cursor, NEW a \in Answers(cursor),
           a.page = <<>> \/ NewPage(a.page)
    PROVE  a \in HonestAnswers(cursor)
<1>1. ASSUME a \in Faults(cursor) PROVE a.page \in source.pages
  BY <1>1 DEF Faults
<1> QED BY <1>1 DEF Answers, NewPage

\* Behind every page the cursor is nearer to the start.
LEMMA CursorAfterIs ==
    ASSUME world \in Worlds, NEW time \in Int
    PROVE  /\ CursorAfter(time) \in 1..(2 * Len(world.history) + 1)
           /\ \A i \in Records : i > Position(CursorAfter(time)) => At(i) > time
<1> DEFINE n == Len(world.history)
           S == {0} \cup {i \in Records : At(i) <= time}
           m == Max(S)
<1>1. n \in Nat /\ Records = 1..n /\ \A i \in Records : At(i) \in Int
  BY RecordsAre
<1>2. S \in SUBSET Int /\ S # {} /\ n \in Int /\ \A x \in S : x <= n
  BY <1>1
<1>3. m \in S /\ \A x \in S : x <= m
  <2> HIDE DEF S, n
  <2> QED BY <1>2, MaxMember
<1>4. CursorAfter(time) = 2 * m + 1
  BY DEF CursorAfter
<1>5. m \in 0..n
  <2> HIDE DEF m
  <2> QED BY <1>1, <1>3
<1> HIDE DEF m
<1>6. Position(2 * m + 1) = m
  BY <1>5 DEF Position
<1>7. 2 * m + 1 \in 1..(2 * n + 1)
  BY <1>1, <1>5
<1> QED BY <1>1, <1>3, <1>4, <1>5, <1>6, <1>7

\* Below the window of a Kick recording there is nothing of it.
LEMMA BelowTheWindow ==
    ASSUME world \in Worlds, Kick, WindowFits, NEW j \in Records, At(j) < window.from,
           NEW i \in Records, i < j
    PROVE  At(i) < window.from
<1>1. At(i) \in Int /\ At(j) \in Int /\ window.from \in Int
  BY RecordsAre DEF WindowFits, Windows
<1>2. Ordered(world)
  BY World
<1>3. CASE At(j) < At(i)
  <2>1. world.source = "vod" /\ At(j) >= Begins(world)
    BY <1>2, <1>3 DEF Ordered, Records, At
  <2>2. window.from = Begins(world)
    BY <2>1 DEF WindowFits
  <2> QED BY <1>1, <2>1, <2>2
<1> QED BY <1>1, <1>3

-----------------------------------------------------------------------------
(* What a step leaves as it is.                                            *)

\* What is asked for depends on the recording and the window alone.
LEMMA SameWorld ==
    ASSUME UNCHANGED <<world, window>>
    PROVE  /\ Records' = Records /\ Wanted' = Wanted /\ (EmptyWindow' <=> EmptyWindow)
           /\ \A i : At(i)' = At(i) /\ Kind(i)' = Kind(i) /\ Class(i)' = Class(i)
           /\ (DatedWorld' <=> DatedWorld) /\ (Kick' <=> Kick) /\ Count' = Count
<1>1. world' = world /\ window' = window
  OBVIOUS
<1>2. Records' = Records /\ (EmptyWindow' <=> EmptyWindow) /\ (Kick' <=> Kick) /\ Count' = Count
  BY <1>1 DEF Records, EmptyWindow, Kick, Count
<1>3. \A i : At(i)' = At(i) /\ Kind(i)' = Kind(i)
  BY <1>1 DEF At, Kind
<1>4. \A i : Class(i)' = Class(i)
  BY <1>1, <1>3 DEF Class
<1>5. Wanted' = Wanted
  BY <1>1, <1>2, <1>3 DEF Wanted
<1>6. DatedWorld' <=> DatedWorld
  BY <1>1, <1>2, <1>3 DEF DatedWorld
<1> QED BY <1>2, <1>3, <1>4, <1>5, <1>6

\* What was given out is of the recording.
LEMMA GivenTyped ==
    ASSUME ReplayTyped
    PROVE  /\ Given \in Seq(Records) /\ ToSet(Given) = ToSet(written) \cup ToSet(ready)
           /\ Len(Given) \in Nat /\ DOMAIN Given = 1..Len(Given)
           /\ \A k \in DOMAIN Given : Given[k] \in Records
<1>1. written \in Seq(Records) /\ ready \in Seq(Records)
  BY DEF ReplayTyped
<1> DEFINE a == written
           b == ready
<1> HIDE DEF a, b
<1>2. a \o b \in Seq(Records) /\ ToSet(a \o b) = ToSet(a) \cup ToSet(b)
  BY <1>1, Concatenated DEF a, b
<1> DEFINE g == Given
<1>3. g \in Seq(Records) /\ ToSet(g) = ToSet(written) \cup ToSet(ready)
  BY <1>2 DEF Given, a, b
<1> HIDE DEF g
<1>4. Len(g) \in Nat /\ DOMAIN g = 1..Len(g) /\ \A k \in DOMAIN g : g[k] \in Records
  BY <1>3
<1> QED BY <1>3, <1>4 DEF g

\* Where an item waits does not matter.
LEMMA GivenKept ==
    ASSUME UNCHANGED <<world, window, source, state, setup>>, Given' = Given,
           run'.pc = "loop" => run.pc = "loop"
    PROVE  /\ GivenRight => GivenRight'
           /\ Limits => Limits'
           /\ KickReplaySound => KickReplaySound'
           /\ TwitchReplaySound => TwitchReplaySound'
<1>1. /\ world' = world /\ window' = window /\ source' = source /\ state' = state /\ setup' = setup
  OBVIOUS
<1>2. /\ Records' = Records /\ Wanted' = Wanted /\ (EmptyWindow' <=> EmptyWindow)
      /\ \A i : At(i)' = At(i) /\ Kind(i)' = Kind(i) /\ Class(i)' = Class(i)
      /\ Count' = Count
  BY <1>1, SameWorld
<1>3. GivenRight => GivenRight'
  BY <1>2 DEF GivenRight
<1>4. Limits => Limits'
  BY <1>1 DEF Limits
<1>5. Collecting => Collecting'
  BY <1>1, <1>2 DEF Collecting, SpoolSound, Lost
<1>6. Emitting => Emitting'
  BY <1>1, <1>2 DEF Emitting, Lost
<1>7. KickReplaySound => KickReplaySound'
  BY <1>1, <1>2, <1>5, <1>6 DEF KickReplaySound, Lost
<1>8. \A n : PageAt(n) => PageAt(n)'
  BY <1>1, <1>2 DEF PageAt, Lost
<1>9. TwitchReplaySound => TwitchReplaySound'
  BY <1>1, <1>2, <1>8 DEF TwitchReplaySound, Lost
<1> QED BY <1>3, <1>4, <1>7, <1>9

\* Types, when neither the retrieval nor the window moves.
LEMMA TypedKept ==
    ASSUME ReplayTyped, UNCHANGED <<world, window, source, state>>, run' \in Runs, cancelled' \in BOOLEAN,
           written' \in Seq(Records), ready' \in Seq(Records)
    PROVE  ReplayTyped'
<1>1. world' = world /\ window' = window /\ source' = source /\ state' = state
  OBVIOUS
<1>2. Records' = Records /\ (Kick' <=> Kick)
  BY <1>1, SameWorld
<1>3. KickSources' = KickSources /\ TwitchSources' = TwitchSources
  BY <1>2 DEF KickSources, TwitchSources
<1> QED BY <1>1, <1>2, <1>3 DEF ReplayTyped

\* What was found stays found.
LEMMA SetupKept ==
    ASSUME SettingUp, UNCHANGED <<world, setupVars>>, run.pc # "setup", run'.pc # "setup",
           setup.stage # "found" => UNCHANGED <<source, written, ready>>,
           run'.pc \in {"loop", "recovery", "closing", "timedout"} => setup.stage = "found"
    PROVE  SettingUp'
<1>1. world' = world /\ setup' = setup /\ told' = told /\ window' = window
  BY DEF setupVars
<1>0. Clips' = Clips
  BY <1>1 DEF Clips, WebClips, RightClip
<1>2. SetupTyped' /\ (WindowFits => WindowFits') /\ (RightlyTold => RightlyTold') /\ (Kick' <=> Kick)
  BY <1>0, <1>1, SameWorld DEF SettingUp, SetupTyped, WindowFits, RightlyTold, TwitchWindow
<1>3. KickStart' = KickStart /\ TwitchStart' = TwitchStart
  BY DEF KickStart, TwitchStart
<1> QED BY <1>1, <1>2, <1>3 DEF SettingUp

LEMMA RunStep ==
    ASSUME DatedSound, UNCHANGED <<world, setupVars, sourceVars, written>>, run' \in Runs,
           cancelled' \in BOOLEAN, run.pc # "setup", run'.pc \notin {"setup", "loop"},
           run'.pc \in {"recovery", "closing", "timedout"} => run.pc = run'.pc,
           RecoverySound', Claims'
    PROVE  DatedSound'
<1>1. /\ world' = world /\ setup' = setup /\ told' = told /\ window' = window /\ source' = source
      /\ state' = state /\ ready' = ready /\ written' = written /\ UNCHANGED setupVars
  BY DEF setupVars, sourceVars
<1>2. Given' = Given /\ Records' = Records
  BY <1>1, SameWorld DEF Given
<1>3. GivenRight' /\ Limits' /\ KickReplaySound' /\ TwitchReplaySound'
  BY <1>1, <1>2, GivenKept DEF DatedSound
<1>4. ReplayTyped'
  BY <1>1, <1>2, TypedKept DEF DatedSound, ReplayTyped
<1>5. SettingUp'
  <2>1. SettingUp
    BY DEF DatedSound
  <2>2. run'.pc \in {"loop", "recovery", "closing", "timedout"} => setup.stage = "found"
    BY <2>1 DEF SettingUp
  <2> QED BY <1>1, <2>1, <2>2, SetupKept
<1> QED BY <1>3, <1>4, <1>5 DEF DatedSound

-----------------------------------------------------------------------------
(* The end of a run.                                                       *)

LEMMA RunIs ==
    ASSUME NEW r \in Runs
    PROVE  /\ r.success \in BOOLEAN /\ r.reason \in Reasons /\ r.interrupted \in BOOLEAN
           /\ r.parity \in Parities /\ r.count \in Nat /\ r.certified \in BOOLEAN
  BY DEF Runs

\* In a recovery there is no run.
LEMMA NotARecovery ==
    ASSUME DatedSound, run.pc \notin {"setup", "recovery", "recorded"}
    PROVE  world.site # "backfill"
  BY DEF DatedSound, RecoverySound

\* The three ways a run is cut short.
LEMMA WriteFailsSound ==
    ASSUME DatedSound, WriteFails \/ Interrupt \/ SourceFails
    PROVE  DatedSound'
<1>1. run \in Runs /\ run.pc = "loop" /\ ~run.success
  BY DEF DatedSound, ReplayTyped, WriteFails, Interrupt, SourceFails, Claims
<1>2. /\ UNCHANGED <<world, setupVars, sourceVars, written>> /\ cancelled' \in BOOLEAN
      /\ run' = [run EXCEPT !.pc = "ended"]
         \/ run' = [run EXCEPT !.pc = "ended", !.interrupted = TRUE, !.reason = "interrupted"]
  BY DEF DatedSound, ReplayTyped, WriteFails, Interrupt, SourceFails
<1>3. run' \in Runs /\ run'.pc = "ended" /\ run'.success = run.success /\ run'.certified = run.certified
  <2>1. run' \in Runs
    BY <1>1, <1>2 DEF Runs, Reasons, Parities
  <2> QED BY <1>1, <1>2, <2>1 DEF Runs
<1>4. RecoverySound'
  BY <1>1, <1>2, NotARecovery DEF RecoverySound
<1>5. Claims'
  BY <1>1, <1>3 DEF DatedSound, Claims
<1> QED BY <1>1, <1>2, <1>3, <1>4, <1>5, RunStep

\* The diagnostics' reason, when the source came to its end.
LEMMA SourceEndsSound ==
    ASSUME DatedSound, SourceEnds \/ DeadlineEnds
    PROVE  DatedSound'
<1>1. run \in Runs /\ state \in Diagnostics /\ run.pc \in {"loop", "timedout"} /\ run.certified = FALSE
      /\ setup.stage = "found"
  BY RunIs DEF DatedSound, ReplayTyped, SourceEnds, DeadlineEnds, Claims, SettingUp
<1>2. /\ UNCHANGED <<world, setupVars, sourceVars, written>> /\ cancelled' \in BOOLEAN
      /\ run' = [run EXCEPT !.pc = "ended", !.success = TRUE,
                            !.reason = Bound(state.reason, "completed")]
  BY DEF DatedSound, ReplayTyped, SourceEnds, DeadlineEnds, Finishes
<1> DEFINE reason == Bound(state.reason, "completed")
<1>3. reason \in Reasons /\ (state.reason # None => reason = state.reason)
      /\ (state.reason = None => reason = "completed")
  <2>1. state.reason \in Reasons \cup {None} /\ "completed" \in Reasons
    BY <1>1, DiagnosticsAre DEF Reasons
  <2> QED BY <2>1 DEF Bound
<1> HIDE DEF reason
<1>4. run' \in Runs /\ run'.pc = "ended" /\ run'.reason = reason /\ run'.certified = run.certified
  <2>1. run' = [run EXCEPT !.pc = "ended", !.success = TRUE, !.reason = reason]
    BY <1>2 DEF reason
  <2>2. run' \in Runs
    BY <1>1, <1>3, <2>1 DEF Runs, Reasons, Parities
  <2> QED BY <1>1, <2>1, <2>2 DEF Runs
<1>5. world.site # "backfill"
  BY <1>1, NotARecovery
<1>6. RecoverySound'
  BY <1>2, <1>5 DEF RecoverySound
<1>7. ASSUME reason \in {"completed", "empty_window"}, ~Lost PROVE Wanted \subseteq ToSet(written)
  <2>1. CASE DeadlineEnds
    <3>1. state.reason \in Stops
      BY <2>1 DEF DatedSound, Claims, DeadlineEnds
    <3>2. None \notin Stops
      BY Parameters DEF Stops, Reasons
    <3>3. reason \in Stops
      BY <1>3, <3>1, <3>2
    <3> QED BY <1>7, <3>3 DEF Stops
  <2>2. CASE SourceEnds
    <3>1. run.pc = "loop" /\ source.pc = "done" /\ ready = <<>>
      BY <2>2 DEF SourceEnds
    <3>2. ToSet(Given) = ToSet(written)
      <4>1. ToSet(<<>>) = {}
        BY Single
      <4> QED BY <3>1, <4>1, GivenTyped DEF DatedSound
    <3>3. CASE world.site = "kick"
      <4>1. state.reason # None /\ reason = state.reason
        BY <1>1, <1>3, <3>1, <3>3 DEF DatedSound, KickReplaySound
      <4>2. CASE reason = "empty_window"
        <5>1. Wanted = {}
          BY <1>1, <3>3, <4>1, <4>2 DEF DatedSound, KickReplaySound, Wanted
        <5> QED BY <5>1
      <4>3. CASE reason = "completed"
        <5>1. \A i \in Wanted : Lost \/ i \in ToSet(Given)
          BY <1>1, <3>1, <3>3, <4>1, <4>3 DEF DatedSound, KickReplaySound
        <5> QED BY <1>7, <3>2, <5>1
      <4> QED BY <1>7, <4>2, <4>3
    <3>4. CASE world.site = "twitch"
      <4>1. state.reason \in Stops \cup {None}
        BY <1>1, <3>4 DEF DatedSound, TwitchReplaySound
      <4>2. state.reason = None
        BY <1>3, <1>7, <4>1 DEF Stops
      <4>3. \A i \in Wanted : Lost \/ i \in ToSet(Given)
        BY <1>1, <3>1, <3>4, <4>2 DEF DatedSound, TwitchReplaySound
      <4> QED BY <1>7, <3>2, <4>3
    <3>5. world.site \in {"kick", "backfill", "twitch"}
      BY World DEF DatedSound, ReplayTyped
    <3> QED BY <1>5, <3>3, <3>4, <3>5
  <2> QED BY <2>1, <2>2
<1>8. Claims'
  <2>1. Wanted' = Wanted /\ (Lost' <=> Lost) /\ written' = written
    BY <1>2, SameWorld DEF setupVars, sourceVars, Lost
  <2> QED BY <1>1, <1>4, <1>7, <2>1 DEF Claims
<1> QED BY <1>1, <1>2, <1>4, <1>6, <1>8, RunStep

\* Closing the files and comparing them.
LEMMA FinalizeSound ==
    ASSUME DatedSound, Finalize \/ Verify
    PROVE  DatedSound'
<1>1. run \in Runs /\ run.pc \in {"ended", "closed", "unverified"} /\ ~run.certified
  BY DEF DatedSound, ReplayTyped, Finalize, Verify, Claims
<1>2. UNCHANGED <<world, setupVars, sourceVars, written>> /\ cancelled' \in BOOLEAN
  BY DEF DatedSound, ReplayTyped, Finalize, Verify
<1> DEFINE reason == IF run.success THEN "error" ELSE run.reason
<1>3. reason \in Reasons
  BY <1>1, RunIs DEF Reasons
<1>4. \/ run' = [run EXCEPT !.pc = "closed"]
      \/ run' = [run EXCEPT !.pc = "unverified", !.success = FALSE, !.reason = reason]
      \/ run' = [run EXCEPT !.pc = "verified", !.parity = "passed"]
      \/ run' = [run EXCEPT !.pc = "verified", !.parity = "failed", !.success = FALSE,
                            !.reason = reason]
      \/ run' = [run EXCEPT !.pc = "verified"]
  BY DEF Finalize, Verify
<1> HIDE DEF reason
<1>5. /\ run' \in Runs /\ run'.pc \in {"closed", "unverified", "verified"}
      /\ run'.success => run.success /\ run'.reason = run.reason
      /\ run'.certified = run.certified
  <2>1. run' \in Runs
    BY <1>1, <1>3, <1>4 DEF Runs, Reasons, Parities
  <2> QED BY <1>1, <1>4, <2>1 DEF Runs
<1>6. RecoverySound'
  BY <1>1, <1>2, NotARecovery DEF RecoverySound
<1>7. Claims'
  <2>1. Wanted' = Wanted /\ (Lost' <=> Lost) /\ written' = written
    BY <1>2, SameWorld DEF setupVars, sourceVars, Lost
  <2> QED BY <1>1, <1>5, <2>1 DEF DatedSound, Claims
<1> QED BY <1>1, <1>2, <1>5, <1>6, <1>7, RunStep

\* A report that calls the recording whole is right.
LEMMA CompleteRecordSound ==
    ASSUME DatedSound, CompleteRecord
    PROVE  DatedSound'
<1>1. run \in Runs /\ run.pc = "verified"
  BY DEF DatedSound, ReplayTyped, CompleteRecord
<1>2. UNCHANGED <<world, setupVars, sourceVars, written>> /\ cancelled' \in BOOLEAN
  BY DEF DatedSound, ReplayTyped, CompleteRecord
<1> DEFINE certified == ReplayComplete
           success == run.success /\ (world.require => ReplayComplete)
<1>3. certified \in BOOLEAN /\ success \in BOOLEAN
  BY DEF ReplayComplete
<1>4. run' = [run EXCEPT !.pc = "recorded", !.certified = certified, !.success = success]
  BY DEF CompleteRecord
<1>5. certified => Wanted \subseteq ToSet(written)
  BY DEF DatedSound, Claims, ReplayComplete, Lost
<1>6. success => run.success
  OBVIOUS
<1> HIDE DEF certified, success
<1>7. run' \in Runs /\ run'.pc = "recorded" /\ run'.certified = certified /\ run'.success = success
      /\ run'.reason = run.reason
  <2>1. run' \in Runs
    BY <1>1, <1>3, <1>4, RunIs DEF Runs, Reasons, Parities
  <2> QED BY <1>1, <1>4, <2>1 DEF Runs
<1>8. RecoverySound'
  BY <1>1, <1>2, NotARecovery DEF RecoverySound
<1>9. Claims'
  <2>1. Wanted' = Wanted /\ (Lost' <=> Lost) /\ written' = written
    BY <1>2, SameWorld DEF setupVars, sourceVars, Lost
  <2> QED BY <1>1, <1>5, <1>6, <1>7, <2>1 DEF DatedSound, Claims
<1> QED BY <1>1, <1>2, <1>7, <1>8, <1>9, RunStep

\* A recovery ends, or is stopped: what was yielded is.
LEMMA RecoveryEndsSound ==
    ASSUME DatedSound, RecoveryEnds \/ RecoveryStops
    PROVE  DatedSound'
<1>1. run \in Runs /\ run.pc = "recovery"
  BY DEF DatedSound, ReplayTyped, RecoveryEnds, RecoveryStops
<1>2. /\ UNCHANGED <<world, setupVars, sourceVars, written>> /\ cancelled' \in BOOLEAN
      /\ ~cancelled' => ~cancelled
      /\ run' = run \/ run' = [run EXCEPT !.pc = "recorded"]
  BY DEF DatedSound, ReplayTyped, RecoveryEnds, RecoveryStops
<1>3. /\ run' \in Runs /\ run'.pc \in {"recovery", "recorded"} /\ run'.certified = run.certified
      /\ run'.success = run.success /\ run'.reason = run.reason
  <2>1. run' \in Runs
    BY <1>1, <1>2 DEF Runs, Reasons, Parities
  <2> QED BY <1>1, <1>2, <2>1 DEF Runs
<1>4. /\ world' = world /\ source' = source /\ state' = state /\ written' = written /\ ready' = ready
      /\ Wanted' = Wanted /\ Given' = Given /\ \A i : Kind(i)' = Kind(i)
  BY <1>2, SameWorld DEF setupVars, sourceVars, Given
<1>5. RecoverySound'
  BY <1>1, <1>2, <1>3, <1>4 DEF DatedSound, RecoverySound
<1>6. Claims'
  BY <1>1, <1>3, <1>4 DEF DatedSound, Claims, Lost
<1> QED BY <1>1, <1>2, <1>3, <1>5, <1>6, RunStep

LEMMA Moved ==
    ASSUME NEW X, NEW s \in Seq(X), NEW t \in Seq(X), t # <<>>
    PROVE  /\ Append(s, Head(t)) \in Seq(X) /\ Tail(t) \in Seq(X)
           /\ Append(s, Head(t)) \o Tail(t) = s \o t
<1>1. Head(t) \in X /\ Tail(t) \in Seq(X) /\ t = <<Head(t)>> \o Tail(t)
  BY Shortened
<1> DEFINE h == <<Head(t)>>
           r == Tail(t)
<1>2. h \in Seq(X) /\ r \in Seq(X) /\ t = h \o r /\ Append(s, Head(t)) = s \o h
  BY <1>1
<1> HIDE DEF h, r
<1>3. (s \o h) \o r = s \o (h \o r)
  BY <1>2, ConcatAssociative
<1>4. s \o h \in Seq(X)
  BY <1>2
<1> QED BY <1>2, <1>3, <1>4 DEF r

\* What the run takes was given out before, and is now in the file.
LEMMA TakeSound ==
    ASSUME DatedSound, Take
    PROVE  DatedSound'
<1>1. /\ run \in Runs /\ run.pc = "loop" /\ ready # <<>> /\ written \in Seq(Records) /\ ready \in Seq(Records)
      /\ setup.stage = "found" /\ ~run.success /\ ~run.certified
  BY DEF DatedSound, ReplayTyped, Take, SettingUp, Claims
<1>2. /\ UNCHANGED <<world, window, setup, told, source, state, cancelled>> /\ UNCHANGED setupVars
      /\ ready' = Tail(ready) /\ written' = Append(written, Head(ready))
      /\ run' = [run EXCEPT !.count = @ + 1]
  BY DEF Take, setupVars
<1>3. run' \in Runs /\ run'.pc = run.pc /\ run'.success = run.success /\ run'.certified = run.certified
      /\ run'.reason = run.reason
  <2> DEFINE n == run.count + 1
  <2>1. n \in Nat /\ run' = [run EXCEPT !.count = n]
    BY <1>1, <1>2 DEF Runs
  <2> HIDE DEF n
  <2> QED BY <1>1, <2>1 DEF Runs
<1>4. written' \in Seq(Records) /\ ready' \in Seq(Records) /\ Given' = Given
  BY <1>1, <1>2, Moved DEF Given
<1>5. GivenRight' /\ Limits' /\ KickReplaySound' /\ TwitchReplaySound'
  BY <1>1, <1>2, <1>3, <1>4, GivenKept DEF DatedSound
<1>6. ReplayTyped'
  BY <1>2, <1>3, <1>4, TypedKept DEF DatedSound, ReplayTyped
<1>7. SettingUp'
  BY <1>1, <1>2, <1>3, SetupKept DEF DatedSound
<1>8. RecoverySound'
  BY <1>1, <1>2, NotARecovery DEF RecoverySound
<1>9. Claims'
  BY <1>1, <1>3 DEF Claims
<1> QED BY <1>5, <1>6, <1>7, <1>8, <1>9 DEF DatedSound

-----------------------------------------------------------------------------
(* The deadline.                                                           *)

\* What is dropped at the deadline was given out, and is no longer claimed.
LEMMA DeadlineSound ==
    ASSUME DatedSound, Deadline
    PROVE  DatedSound'
<1>1. /\ run \in Runs /\ run.pc = "loop" /\ written \in Seq(Records) /\ ready \in Seq(Records)
      /\ setup.stage = "found" /\ ~run.success /\ ~run.certified /\ ReplayTyped
      /\ world \in Worlds
  BY DEF DatedSound, ReplayTyped, Deadline, SettingUp, Claims
<1>2. /\ UNCHANGED <<world, window, setup, told, source, state, written>> /\ UNCHANGED setupVars
      /\ ready' = <<>> /\ cancelled' = TRUE /\ run' = [run EXCEPT !.pc = "closing"]
  BY DEF Deadline, setupVars, Callback
<1>3. run' \in Runs /\ run'.pc = "closing" /\ run'.success = run.success /\ run'.certified = run.certified
      /\ run'.reason = run.reason
  BY <1>1, <1>2 DEF Runs
<1>4. /\ Records' = Records /\ Wanted' = Wanted /\ (EmptyWindow' <=> EmptyWindow)
      /\ \A i : At(i)' = At(i) /\ Kind(i)' = Kind(i) /\ Class(i)' = Class(i)
      /\ Count' = Count
  BY <1>2, SameWorld
<1>5. written' \in Seq(Records) /\ ready' \in Seq(Records) /\ Given' = written
  BY <1>1, <1>2, <1>4 DEF Given
<1>6. /\ Len(Given) \in Nat /\ DOMAIN Given = 1..Len(Given)
      /\ \A k \in DOMAIN Given : Given[k] \in Records /\ At(Given[k]) \in Int
      /\ ToSet(Given) = ToSet(written) \cup ToSet(ready)
  BY <1>1, GivenTyped, RecordsAre
<1>7. /\ Len(written) \in Nat /\ DOMAIN written = 1..Len(written)
      /\ Len(written) <= Len(Given) /\ \A k \in DOMAIN written : k \in DOMAIN Given /\ Given[k] = written[k]
      /\ written # <<>> => Len(written) \in DOMAIN written /\ Given # <<>>
      /\ written = <<>> \/ Len(written) > 0
  <2>1. Given = written \o ready
    BY DEF Given
  <2>2. /\ Len(Given) = Len(written) + Len(ready) /\ Len(written) \in Nat /\ Len(ready) \in Nat
        /\ DOMAIN written = 1..Len(written)
        /\ \A k \in 1..Len(written) : Given[k] = written[k]
    BY <1>1, <2>1
  <2>3. written # <<>> => Len(written) > 0
    BY <1>1
  <2>4. Given = <<>> => Len(Given) = 0
    OBVIOUS
  <2> HIDE DEF Given
  <2> QED BY <1>6, <2>2, <2>3, <2>4
<1> DEFINE g == Given
           w == written
<1> HIDE DEF g, w
<1>8. GivenRight'
  <2>1. IsInjective(w) /\ ToSet(w) \subseteq ToSet(g)
        /\ \A a, b \in DOMAIN w : a < b => At(w[a]) <= At(w[b])
    BY <1>6, <1>7 DEF DatedSound, GivenRight, IsInjective, g, w
  <2> QED BY <1>4, <1>5, <2>1 DEF DatedSound, GivenRight, g, w
<1>9. Limits'
  BY <1>2 DEF DatedSound, Limits
<1>10. ASSUME Collecting PROVE Collecting'
  <2>1. Given' = <<>>
    BY <1>5, <1>7, <1>10 DEF Collecting
  <2> QED BY <1>2, <1>4, <1>10, <2>1 DEF Collecting, SpoolSound, Lost
<1>11. ASSUME Emitting, world.site = "kick" PROVE Emitting'
  <2>1. ToSet(written) \subseteq ToSet(Given)
    BY <1>6
  <2>2. written # <<>> => source.last # None /\ At(written[Len(written)]) <= source.last
    <3> SUFFICES ASSUME written # <<>>
                 PROVE  source.last # None /\ At(written[Len(written)]) <= source.last
      OBVIOUS
    <3>1. source.last # None /\ At(Given[Len(Given)]) <= source.last
      BY <1>7, <1>11 DEF Emitting
    <3>2. source.last \in Int
      BY <1>1, <1>11, <3>1 DEF ReplayTyped, KickSources, Kick
    <3>3. Len(written) \in DOMAIN Given /\ Given[Len(written)] = written[Len(written)]
          /\ Len(Given) \in DOMAIN Given
      BY <1>6, <1>7
    <3>4. Len(written) < Len(Given) => At(Given[Len(written)]) <= At(Given[Len(Given)])
      BY <3>3 DEF DatedSound, GivenRight
    <3>5. At(Given[Len(written)]) \in Int /\ At(Given[Len(Given)]) \in Int
      BY <1>6, <3>3
    <3>8. \A a, b \in Nat : a <= b => a = b \/ a < b
      OBVIOUS
    <3>6. Len(written) = Len(Given) \/ Len(written) < Len(Given)
      BY <1>6, <1>7, <3>8
    <3>7. At(Given[Len(written)]) <= At(Given[Len(Given)])
      BY <3>4, <3>5, <3>6
    <3> QED BY <3>1, <3>2, <3>3, <3>5, <3>7
  <2> QED BY <1>2, <1>3, <1>4, <1>5, <1>11, <2>1, <2>2 DEF Emitting, Lost
<1>12. KickReplaySound'
  <2>1. Given = <<>> => Given' = <<>>
    BY <1>5, <1>7
  <2>2. KickReplaySound
    BY DEF DatedSound
  <2> QED BY <1>2, <1>3, <1>4, <1>10, <1>11, <2>1, <2>2 DEF KickReplaySound
<1>13. TwitchReplaySound'
  <2>1. ToSet(written) \subseteq ToSet(Given)
    BY <1>6
  <2>2. ASSUME NEW n, PageAt(n) PROVE PageAt(n)'
    BY <1>2, <1>3, <1>4, <1>5, <2>1, <2>2 DEF PageAt, Lost
  <2>3. ASSUME world.site = "twitch" PROVE \A a, b \in DOMAIN written : a < b => written[a] < written[b]
    BY <1>1, <1>7, <2>3 DEF DatedSound, TwitchReplaySound
  <2>4. TwitchReplaySound
    BY DEF DatedSound
  <2> QED BY <1>2, <1>3, <1>4, <1>5, <2>1, <2>2, <2>3, <2>4 DEF TwitchReplaySound
<1>14. ReplayTyped'
  BY <1>1, <1>2, <1>3, <1>5, TypedKept
<1>15. SettingUp'
  BY <1>1, <1>2, <1>3, SetupKept DEF DatedSound
<1>16. RecoverySound'
  BY <1>1, <1>2, NotARecovery DEF RecoverySound
<1>17. Claims'
  BY <1>1, <1>3 DEF Claims
<1> QED BY <1>8, <1>9, <1>12, <1>13, <1>14, <1>15, <1>16, <1>17 DEF DatedSound

\* The callback comes after the retrieval has ended or waits for an answer.
LEMMA TimedOutSound ==
    ASSUME DatedSound, TimedOut
    PROVE  DatedSound'
<1>1. /\ run \in Runs /\ run.pc = "closing" /\ setup.stage = "found" /\ ~run.success /\ ~run.certified
      /\ ReplayTyped /\ state \in Diagnostics
  BY DEF DatedSound, ReplayTyped, TimedOut, SettingUp, Claims
<1>2. /\ UNCHANGED <<world, window, setup, told, source, ready, cancelled, written>> /\ UNCHANGED setupVars
      /\ state' = [state EXCEPT !.reason = "timeout"] /\ run' = [run EXCEPT !.pc = "timedout"]
  BY DEF TimedOut, setupVars, Callback
<1>3. run' \in Runs /\ run'.pc = "timedout" /\ run'.success = run.success /\ run'.certified = run.certified
      /\ run'.reason = run.reason
  BY <1>1, <1>2 DEF Runs
<1>4. /\ Records' = Records /\ Wanted' = Wanted /\ (EmptyWindow' <=> EmptyWindow)
      /\ \A i : At(i)' = At(i) /\ Kind(i)' = Kind(i) /\ Class(i)' = Class(i)
      /\ Count' = Count /\ (Kick' <=> Kick)
  BY <1>2, SameWorld
<1>5. state' \in Diagnostics /\ state'.reason = "timeout" /\ state'.loss = state.loss
      /\ state'.emitted = state.emitted
  BY <1>1, <1>2 DEF Diagnostics, Reasons
<1>6. None # "timeout"
  BY Parameters DEF Reasons
<1>7. Given' = Given
  BY <1>2 DEF Given
<1>8. GivenRight'
  BY <1>4, <1>7 DEF DatedSound, GivenRight
<1>9. Limits'
  BY <1>2, <1>5 DEF DatedSound, Limits, Stops
<1>10. Collecting => Collecting'
  BY <1>2, <1>4, <1>5, <1>7 DEF Collecting, SpoolSound, Lost, Stops
<1>11. Emitting => Emitting'
  BY <1>2, <1>3, <1>4, <1>5, <1>7 DEF Emitting, Lost, Stops
<1>12. KickReplaySound'
  BY <1>2, <1>3, <1>4, <1>5, <1>6, <1>7, <1>10, <1>11 DEF DatedSound, KickReplaySound
<1>13. TwitchReplaySound'
  <2>1. ASSUME NEW n, PageAt(n) PROVE PageAt(n)'
    BY <1>2, <1>3, <1>4, <1>7, <2>1 DEF PageAt
  <2> QED BY <1>2, <1>3, <1>4, <1>5, <1>6, <1>7, <2>1 DEF DatedSound, TwitchReplaySound, Stops
<1>14. ReplayTyped'
  <2>1. KickSources' = KickSources /\ TwitchSources' = TwitchSources
    BY <1>4 DEF KickSources, TwitchSources
  <2> QED BY <1>1, <1>2, <1>3, <1>4, <1>5, <2>1 DEF ReplayTyped
<1>15. SettingUp'
  BY <1>1, <1>2, <1>3, SetupKept DEF DatedSound
<1>16. RecoverySound'
  BY <1>1, <1>2, NotARecovery DEF RecoverySound
<1>17. Claims'
  BY <1>1, <1>3, <1>5 DEF Claims, Stops
<1> QED BY <1>8, <1>9, <1>12, <1>13, <1>14, <1>15, <1>16, <1>17 DEF DatedSound

-----------------------------------------------------------------------------
(* A step of the retrieval.                                                *)

\* Where next() may run.
LEMMA AdvancesMeans ==
    ASSUME DatedSound, Advances
    PROVE  /\ run.pc # "setup" /\ setup.stage = "found"
           /\ run.pc = "timedout" => source.pc = "fetch"
<1>1. run.pc # "setup" /\ (run.pc = "timedout" => source.pc = "fetch")
  BY DEF Advances
<1>2. setup.stage = "found"
  <2>1. run.pc \in {"loop", "recovery", "closing"} \/ source.pc = "fetch"
    BY DEF Advances
  <2>2. KickStart.pc # "fetch" /\ TwitchStart.pc # "fetch"
    BY DEF KickStart, TwitchStart
  <2> QED BY <1>1, <2>1, <2>2 DEF DatedSound, SettingUp
<1> QED BY <1>1, <1>2

Proceeds == UNCHANGED <<world, setupVars, cancelled, run, written>>

\* What a step of the retrieval has to show.
LEMMA RetrieveStep ==
    ASSUME DatedSound, Proceeds, run.pc # "setup", setup.stage = "found",
           IF Kick THEN source' \in KickSources ELSE source' \in TwitchSources,
           state' \in Diagnostics, ready' \in Seq(Records), state'.loss >= state.loss,
           run.pc = "timedout" => state'.reason \in Stops,
           GivenRight', Limits', KickReplaySound', TwitchReplaySound', RecoverySound'
    PROVE  DatedSound'
<1>1. /\ world' = world /\ setup' = setup /\ told' = told /\ window' = window /\ cancelled' = cancelled
      /\ run' = run /\ written' = written
  BY DEF Proceeds, setupVars
<1>2. /\ Records' = Records /\ Wanted' = Wanted /\ (Kick' <=> Kick)
  BY <1>1, SameWorld
<1>3. KickSources' = KickSources /\ TwitchSources' = TwitchSources
  BY <1>2 DEF KickSources, TwitchSources
<1>4. ReplayTyped'
  BY <1>1, <1>2, <1>3 DEF DatedSound, ReplayTyped
<1>5. SettingUp'
  BY <1>1, SetupKept DEF DatedSound, Proceeds
<1>6. Claims'
  <2>1. state.loss \in Nat /\ state'.loss \in Nat
    BY DiagnosticsAre DEF DatedSound, ReplayTyped
  <2>2. Lost => Lost'
    BY <2>1 DEF Lost
  <2> QED BY <1>1, <1>2, <2>2 DEF DatedSound, Claims
<1> QED BY <1>4, <1>5, <1>6 DEF DatedSound

\* Nothing is given out.
LEMMA QuietStep ==
    ASSUME DatedSound, Proceeds, ready' = ready, state'.emitted = state.emitted,
           state'.reason = state.reason \/ state'.reason \in Stops \/ ~LimitReached,
           state' \in Diagnostics
    PROVE  Given' = Given /\ ready' \in Seq(Records) /\ GivenRight' /\ Limits'
<1>1. /\ world' = world /\ window' = window /\ written' = written /\ world \in Worlds
      /\ state \in Diagnostics
  BY DEF Proceeds, setupVars, DatedSound, ReplayTyped
<1>2. Given' = Given
  BY <1>1 DEF Given
<1>3. ready' \in Seq(Records)
  BY DEF DatedSound, ReplayTyped
<1>4. GivenRight'
  BY <1>1, <1>2, SameWorld DEF DatedSound, GivenRight
<1>5. Limits'
  <2> SUFFICES ASSUME world.limit # None
               PROVE  /\ state'.emitted <= world.limit
                      /\ state'.emitted = world.limit => state'.reason \in Stops
    BY <1>1 DEF Limits
  <2>1. world.limit \in Nat /\ state.emitted \in Nat
    BY <1>1, World, DiagnosticsAre
  <2>2. state.emitted <= world.limit /\ (state.emitted = world.limit => state.reason \in Stops)
    BY DEF DatedSound, Limits
  <2>3. ~LimitReached => state.emitted # world.limit
    BY <2>1 DEF LimitReached
  <2> QED BY <2>1, <2>2, <2>3
<1> QED BY <1>2, <1>3, <1>4, <1>5

\* A record is given out.
LEMMA YieldStep ==
    ASSUME DatedSound, Proceeds, ~LimitReached, NEW i \in Wanted, Kind(i) = "chat",
           i \notin ToSet(Given), Given # <<>> => At(Given[Len(Given)]) <= At(i),
           Yielded(i, state)
    PROVE  /\ Given' = Append(Given, i) /\ ToSet(Given') = ToSet(Given) \cup {i}
           /\ ready' \in Seq(Records) /\ state' \in Diagnostics /\ state'.loss = state.loss
           /\ state'.reason \in {state.reason} \cup Stops
           /\ GivenRight' /\ Limits'
<1>1. /\ world' = world /\ window' = window /\ written' = written /\ world \in Worlds
      /\ state \in Diagnostics /\ written \in Seq(Records) /\ ready \in Seq(Records)
      /\ ready' = Append(ready, i)
  BY DEF Proceeds, setupVars, DatedSound, ReplayTyped, Yielded
<1>2. /\ Records' = Records /\ Wanted' = Wanted
      /\ \A x : At(x)' = At(x) /\ Kind(x)' = Kind(x)
  BY <1>1, SameWorld
<1>3. i \in Records
  BY DEF Wanted
<1>4. /\ Given \in Seq(Records) /\ Len(Given) \in Nat /\ DOMAIN Given = 1..Len(Given)
      /\ \A k \in DOMAIN Given : Given[k] \in Records
  BY GivenTyped DEF DatedSound
<1> DEFINE g == Given
           n == Len(g)
           new == Append(g, i)
<1>5. Given' = new /\ ready' \in Seq(Records)
  BY <1>1, <1>3 DEF Given
<1>6. /\ new \in Seq(Records) /\ ToSet(new) = ToSet(g) \cup {i} /\ IsInjective(new)
  BY <1>3, <1>4, AppendMeans DEF DatedSound, GivenRight
<1>7. /\ DOMAIN new = 1..(n + 1) /\ new[n + 1] = i /\ \A k \in 1..n : new[k] = g[k]
      /\ n \in Nat
  <2> HIDE DEF g
  <2> QED BY <1>3, <1>4 DEF g
<1> HIDE DEF new
<1>8. ASSUME NEW a \in DOMAIN new, NEW b \in DOMAIN new, a < b PROVE At(new[a]) <= At(new[b])
  <2>1. a \in 1..n
    BY <1>7, <1>8
  <2>2. At(g[a]) \in Int /\ At(i) \in Int
    BY <1>1, <1>3, <1>4, <2>1, RecordsAre
  <2>3. CASE b = n + 1
    <3>1. n \in DOMAIN g /\ g # <<>> /\ At(g[n]) \in Int
      <4>1. n \in DOMAIN g
        BY <1>4, <1>7, <2>1
      <4> QED BY <1>1, <1>4, <4>1, RecordsAre
    <3>2. At(g[a]) <= At(g[n])
      <4>1. a < n => At(g[a]) <= At(g[n])
        BY <1>4, <2>1, <3>1 DEF DatedSound, GivenRight
      <4>2. a = n \/ a < n
        BY <1>7, <2>1
      <4> QED BY <2>2, <4>1, <4>2
    <3> QED BY <1>7, <2>1, <2>2, <2>3, <3>1, <3>2
  <2>4. CASE b \in 1..n
    BY <1>4, <1>7, <1>8, <2>1, <2>4 DEF DatedSound, GivenRight
  <2> QED BY <1>7, <2>3, <2>4
<1>9. GivenRight'
  BY <1>2, <1>5, <1>6, <1>8 DEF DatedSound, GivenRight
<1> DEFINE e == state.emitted + 1
           r == IF e = world.limit THEN "message_limit" ELSE state.reason
<1>10. e \in Nat /\ r \in {state.reason} \cup Stops /\ r \in Reasons \cup {None}
  <2>1. state.emitted \in Nat /\ state.reason \in Reasons \cup {None}
    BY <1>1, DiagnosticsAre
  <2> QED BY <2>1 DEF Stops, Reasons
<1>11. state' = [state EXCEPT !.emitted = e, !.reason = r]
  BY <1>1 DEF Yielded, Diagnostics
<1>12. Limits'
  <2> SUFFICES ASSUME world.limit # None
               PROVE  /\ state'.emitted <= world.limit
                      /\ state'.emitted = world.limit => state'.reason \in Stops
    BY <1>1 DEF Limits
  <2>1. world.limit \in Nat /\ state.emitted \in Nat
    BY <1>1, World, DiagnosticsAre
  <2>2. state.emitted < world.limit
    BY <2>1 DEF LimitReached
  <2>3. state'.emitted = e /\ state'.reason = r
    BY <1>1, <1>11 DEF Diagnostics
  <2> QED BY <2>1, <2>2, <2>3 DEF Stops
<1> HIDE DEF e, r
<1>13. state' \in Diagnostics /\ state'.loss = state.loss /\ state'.reason = r
  BY <1>1, <1>10, <1>11 DEF Diagnostics
<1> QED BY <1>5, <1>6, <1>9, <1>10, <1>12, <1>13 DEF new

\* A generator that has yielded its last message is closed.
LEMMA StopClosed ==
    ASSUME DatedSound, Proceeds, run.pc # "setup", setup.stage = "found", LimitReached, LimitStops
    PROVE  DatedSound'
<1>1. /\ source.pc = "emit" /\ source' = [source EXCEPT !.pc = "done"]
      /\ state' = state /\ ready' = ready /\ world' = world /\ window' = window /\ run' = run
      /\ setup' = setup /\ cancelled' = cancelled
      /\ state \in Diagnostics /\ world \in Worlds
  BY DEF LimitStops, Proceeds, setupVars, DatedSound, ReplayTyped
<1>2. Given' = Given /\ ready' \in Seq(Records) /\ GivenRight' /\ Limits'
  BY <1>1, QuietStep
<1>3. IF Kick THEN source' \in KickSources ELSE source' \in TwitchSources
  <2>1. IF Kick THEN source \in KickSources ELSE source \in TwitchSources
    BY DEF DatedSound, ReplayTyped
  <2> QED BY <1>1, <2>1 DEF KickSources, TwitchSources
<1>4. source'.pc = "done"
  BY <1>1, <1>3 DEF KickSources, TwitchSources
<1>5. state.reason \in Stops
  <2>1. world.limit # None /\ state.emitted >= world.limit /\ state.emitted <= world.limit
        /\ (state.emitted = world.limit => state.reason \in Stops)
    BY DEF DatedSound, Limits, LimitReached
  <2>2. world.limit \in Nat /\ state.emitted \in Nat
    BY <1>1, <2>1, World, DiagnosticsAre
  <2> QED BY <2>1, <2>2
<1>6. None \notin Stops
  BY Parameters DEF Stops, Reasons
<1>7. KickReplaySound'
  BY <1>1, <1>4, <1>5, <1>6 DEF KickReplaySound, Stops
<1>8. TwitchReplaySound'
  BY <1>1, <1>2, <1>4, <1>5, <1>6 DEF DatedSound, TwitchReplaySound
<1>9. RecoverySound'
  BY <1>1 DEF DatedSound, RecoverySound
<1>10. state'.loss >= state.loss
  <2>1. state.loss \in Nat
    BY <1>1, DiagnosticsAre
  <2> QED BY <1>1, <2>1
<1> QED BY <1>1, <1>2, <1>3, <1>5, <1>7, <1>8, <1>9, <1>10, RetrieveStep

-----------------------------------------------------------------------------
(* The replay of a Kick recording.                                         *)

\* The window of a Kick replay is bounded on both sides.
LEMMA KickWindow ==
    ASSUME DatedSound, Kick, setup.stage = "found"
    PROVE  /\ world \in Worlds /\ WindowFits /\ window \in Windows /\ window # None
           /\ window.from \in Int /\ window.to \in Int
<1>1. world \in Worlds /\ WindowFits /\ window.to # None
  BY DEF DatedSound, ReplayTyped, SettingUp, WindowFits
<1>2. window \in Windows
  BY <1>1 DEF WindowFits
<1> QED BY <1>1, <1>2, Parameters DEF Windows

\* What was asked for is what is selected, but for what is lost.
LEMMA WantedIs ==
    ASSUME DatedSound, world.site = "kick", setup.stage = "found", NEW i
    PROVE  /\ i \in Wanted => /\ i \in Records /\ At(i) >= window.from
                              /\ Class(i) \in {"selected", "malformed", "parseError"}
           /\ i \in Records /\ Class(i) = "selected" /\ window.to > window.from =>
                i \in Wanted /\ Kind(i) = "chat"
<1>1. /\ world \in Worlds /\ window \in Windows /\ window # None /\ window.from \in Int
      /\ window.to \in Int
  BY KickWindow DEF Kick
<1>2. ASSUME i \in Wanted
      PROVE  i \in Records /\ Kind(i) # "other" /\ At(i) >= window.from /\ At(i) <= window.to
  BY <1>1, <1>2, Parameters DEF Wanted
<1>3. ASSUME i \in Records
      PROVE  /\ At(i) \in Int /\ Kind(i) \in {"chat", "other", "broken", "undated"}
             /\ Class(i) = "selected" <=>
                  Kind(i) = "chat" /\ At(i) >= window.from /\ At(i) <= window.to
             /\ At(i) >= window.from /\ At(i) <= window.to /\ Kind(i) \in {"broken", "undated"} =>
                  Class(i) \in {"malformed", "parseError"}
  BY <1>1, <1>3, RecordsAre, ClassIs
<1>4. window.to > window.from => ~EmptyWindow
  BY <1>1 DEF EmptyWindow
<1> QED BY <1>1, <1>2, <1>3, <1>4 DEF Wanted

\* A step that only collects, or ends.
LEMMA KickStepSound ==
    ASSUME DatedSound, Proceeds, world.site = "kick", run.pc # "setup", setup.stage = "found",
           ready' = ready, source' \in KickSources, state' \in Diagnostics,
           state'.loss >= state.loss, state'.emitted = state.emitted,
           state'.reason = state.reason \/ state'.reason \in Stops \/ ~LimitReached,
           run.pc = "timedout" => state'.reason \in Stops, KickReplaySound'
    PROVE  DatedSound'
<1>1. /\ Given' = Given /\ ready' \in Seq(Records) /\ GivenRight' /\ Limits'
  BY QuietStep
<1>2. world' = world /\ Kick
  BY DEF Proceeds, Kick
<1>3. TwitchReplaySound' /\ RecoverySound'
  BY <1>2 DEF TwitchReplaySound, RecoverySound
<1> QED BY <1>1, <1>2, <1>3, RetrieveStep

\* It ends, for whatever reason but its own end.
LEMMA KickOver ==
    ASSUME DatedSound, Proceeds, world.site = "kick", run.pc # "setup", setup.stage = "found",
           source.pc # "start", ready' = ready, source'.pc \in {"done", "failed"},
           source' \in KickSources,
           state' \in Diagnostics, state'.loss = state.loss, state'.emitted = state.emitted,
           state'.reason \in Stops \/ (state'.reason = state.reason /\ source.pc # "done"),
           run.pc = "timedout" => source.pc = "fetch"
    PROVE  DatedSound'
<1>1. /\ world' = world /\ setup' = setup /\ run' = run /\ state.loss \in Nat
  BY DiagnosticsAre DEF Proceeds, setupVars, DatedSound, ReplayTyped
<1>2. state.reason # None /\ (state.reason \in {"completed", "empty_window"} => source.pc = "done")
  BY DEF DatedSound, KickReplaySound
<1>3. None \notin Stops
  BY Parameters DEF Stops, Reasons
<1>4. state'.reason # None /\ state'.reason \notin {"completed", "empty_window"}
  BY <1>2, <1>3 DEF Stops
<1>5. KickReplaySound'
  BY <1>1, <1>4 DEF KickReplaySound
<1>6. run.pc = "timedout" => state'.reason \in Stops
  BY DEF DatedSound, Claims
<1>7. state'.loss >= state.loss
  BY <1>1
<1> QED BY <1>5, <1>6, <1>7, KickStepSound

LEMMA KickEndsTyped ==
    ASSUME source \in KickSources
    PROVE  /\ KickEnds => source' \in KickSources /\ source'.pc = "done"
           /\ KickFails => source' \in KickSources /\ source'.pc = "failed"
<1>1. <<>> \in Seq(Records) /\ source.out \in Seq(Records)
  BY DEF KickSources
<1> DEFINE none == <<>>
           out == source.out
           R(at, yielded) ==
               [pc |-> at, cursor |-> None, requested |-> {}, pages |-> {}, spool |-> none,
                seen |-> none, out |-> yielded, last |-> None, attempt |-> 1]
<1>2. (KickEnds => source' = R("done", out)) /\ (KickFails => source' = R("failed", none))
  BY DEF KickEnds, KickFails, KickStart
<1> HIDE DEF none, out
<1>3. \A at \in {"done", "failed"} : \A yielded \in {out, none} :
        R(at, yielded) \in KickSources /\ R(at, yielded).pc = at
  BY <1>1 DEF KickSources, none, out
<1> HIDE DEF R
<1> QED BY <1>2, <1>3

LEMMA FailedIs ==
    ASSUME NEW s \in Diagnostics
    PROVE  /\ Failed(s) \in Diagnostics /\ Failed(s).reason = "error" /\ Failed(s).loss = s.loss
           /\ Failed(s).emitted = s.emitted /\ "error" \in Stops
  BY DEF Failed, Diagnostics, Reasons, Stops

LEMMA KickTyped ==
    ASSUME DatedSound, world.site = "kick"
    PROVE  source \in KickSources /\ state \in Diagnostics /\ Kick /\ world \in Worlds
  BY DEF DatedSound, ReplayTyped, Kick

\* The first request starts at the newest record, or the window is empty.
LEMMA KickBeginSound ==
    ASSUME DatedSound, Proceeds, world.site = "kick", run.pc # "setup", setup.stage = "found",
           run.pc = "timedout" => source.pc = "fetch", KickBegin
    PROVE  DatedSound'
<1>1. /\ source.pc = "start" /\ ready' = ready
      /\ \/ /\ window.to <= window.from
            /\ state' = [state EXCEPT !.reason = "empty_window"] /\ KickEnds
         \/ /\ window.to > window.from
            /\ state' = [state EXCEPT !.reason = "interrupted"]
            /\ source' = [source EXCEPT !.pc = "ask", !.cursor = CursorAfter(window.to)]
  BY DEF KickBegin
<1>2. source \in KickSources /\ state \in Diagnostics /\ Kick /\ world \in Worlds
  BY KickTyped
<1>3. /\ WindowFits /\ window \in Windows /\ window # None /\ window.from \in Int /\ window.to \in Int
  BY <1>2, KickWindow
<1>4. /\ world' = world /\ setup' = setup /\ run' = run /\ window' = window /\ written' = written
  BY DEF Proceeds, setupVars
<1>5. Given = <<>> /\ state.emitted = 0 /\ source.seen = <<>> /\ source.spool = <<>>
  BY <1>1 DEF DatedSound, KickReplaySound
<1>6. ~LimitReached
  <2>1. world.limit # None => world.limit \in Nat /\ world.limit > 0
    BY <1>2, World
  <2> QED BY <1>5, <2>1 DEF LimitReached
<1>7. /\ state' \in Diagnostics /\ state'.loss = state.loss /\ state'.emitted = state.emitted
      /\ state'.reason \in {"empty_window", "interrupted"}
      /\ state'.reason = "empty_window" => window.to <= window.from
      /\ state.loss \in Nat
  BY <1>1, <1>2, <1>3 DEF Diagnostics, Reasons
<1>8. None \notin {"empty_window", "interrupted"}
  BY Parameters DEF Reasons
<1>9. CASE KickEnds /\ window.to <= window.from
  <2>1. source' \in KickSources /\ source'.pc = "done"
    BY <1>2, <1>9, KickEndsTyped
  <2>2. state'.reason = "empty_window" => EmptyWindow'
    BY <1>4, <1>9 DEF EmptyWindow
  <2>3. state'.reason # "completed"
    BY <1>7
  <2>4. KickReplaySound'
    BY <1>7, <1>8, <2>1, <2>2, <2>3 DEF KickReplaySound
  <2>5. state'.loss >= state.loss /\ run.pc # "timedout"
    BY <1>1, <1>7
  <2> QED BY <1>1, <1>6, <1>7, <2>1, <2>4, <2>5, KickStepSound
<1>10. CASE window.to > window.from
            /\ source' = [source EXCEPT !.pc = "ask", !.cursor = CursorAfter(window.to)]
  <2> DEFINE c == CursorAfter(window.to)
  <2>1. /\ c \in 1..(2 * Len(world.history) + 1) /\ c \in Nat
        /\ \A i \in Records : i > Position(c) => At(i) > window.to
    <3>1. Len(world.history) \in Nat
      BY <1>2, RecordsAre
    <3> HIDE DEF c
    <3>2. /\ c \in 1..(2 * Len(world.history) + 1)
          /\ \A i \in Records : i > Position(c) => At(i) > window.to
      BY <1>2, <1>3, CursorAfterIs DEF c
    <3> QED BY <3>1, <3>2
  <2>2. /\ source' \in KickSources /\ source'.pc = "ask" /\ source'.cursor = c
        /\ source'.seen = <<>> /\ source'.spool = <<>>
    <3> HIDE DEF c
    <3>1. source' = [source EXCEPT !.pc = "ask", !.cursor = c]
      BY <1>10 DEF c
    <3> QED BY <1>2, <1>5, <2>1, <3>1 DEF KickSources
  <2> HIDE DEF c
  <2>3. \A i \in Wanted : i <= Position(c) \/ ~(i > Position(c))
    <3>1. \A i \in Wanted : i \in Records /\ At(i) <= window.to
      BY <1>3, Parameters DEF Wanted
    <3>2. \A i \in Wanted : At(i) \in Int
      BY <1>2, <3>1, RecordsAre
    <3> QED BY <1>3, <2>1, <3>1, <3>2
  <2>4. \A i \in Wanted : ~(i > Position(c))
    <3>1. \A i \in Wanted : i \in Records /\ At(i) <= window.to
      BY <1>3, Parameters DEF Wanted
    <3>2. \A i \in Wanted : At(i) \in Int
      BY <1>2, <3>1, RecordsAre
    <3> QED BY <1>3, <2>1, <3>1, <3>2
  <2>5. Given' = <<>>
    BY <1>1, <1>4, <1>5 DEF Given
  <2>6. Collecting'
    <3>1. ToSet(<<>>) = {} /\ IsInjective(<<>>) /\ Len(<<>>) = 0
      BY Single
    <3>2. Wanted' = Wanted
      BY <1>4, SameWorld
    <3>3. 0 <= SeenLimit
      BY Parameters
    <3>4. state'.reason \in {"interrupted"}
      BY <1>1, <1>7, <1>10, <1>3, <1>2 DEF Diagnostics
    <3> QED BY <1>4, <1>5, <1>7, <1>10, <2>1, <2>2, <2>4, <2>5, <3>1, <3>2, <3>3, <3>4
            DEF Collecting, SpoolSound
  <2>7. state'.reason = "interrupted"
    BY <1>2, <1>3, <1>7, <1>10
  <2>8. KickReplaySound'
    BY <1>8, <2>2, <2>6, <2>7 DEF KickReplaySound
  <2>9. state'.loss >= state.loss /\ run.pc # "timedout"
    BY <1>1, <1>7
  <2> QED BY <1>1, <1>6, <1>7, <2>2, <2>8, <2>9, KickStepSound
<1> QED BY <1>1, <1>9, <1>10

\* A cursor that was asked for before, a full budget or a stop ends the collecting.
LEMMA KickAskSound ==
    ASSUME DatedSound, Proceeds, world.site = "kick", run.pc # "setup", setup.stage = "found",
           run.pc = "timedout" => source.pc = "fetch", KickAsk
    PROVE  DatedSound'
<1>1. /\ source.pc = "ask" /\ ready' = ready
      /\ \/ KickEnds /\ state' = state
         \/ KickFails /\ state' = Failed(state)
         \/ /\ source' = [source EXCEPT !.pc = "fetch", !.attempt = 1,
                                        !.requested = @ \cup {source.cursor}]
            /\ state' = state
  BY DEF KickAsk
<1>2. source \in KickSources /\ state \in Diagnostics /\ Kick /\ world \in Worlds
  BY KickTyped
<1>3. CASE (KickEnds /\ state' = state) \/ (KickFails /\ state' = Failed(state))
  <2>1. /\ source' \in KickSources /\ source'.pc \in {"done", "failed"}
        /\ state' \in Diagnostics /\ state'.loss = state.loss /\ state'.emitted = state.emitted
        /\ state'.reason \in Stops \/ state'.reason = state.reason
    BY <1>2, <1>3, KickEndsTyped, FailedIs
  <2> QED BY <1>1, <2>1, KickOver
<1>4. CASE /\ source' = [source EXCEPT !.pc = "fetch", !.attempt = 1,
                                        !.requested = @ \cup {source.cursor}]
            /\ state' = state
  <2>1. Collecting
    BY <1>1 DEF DatedSound, KickReplaySound
  <2>2. source.cursor \in Nat
    <3>1. source.cursor \in 1..(2 * Len(world.history) + 1) /\ Len(world.history) \in Nat
      BY <1>2, <2>1, RecordsAre DEF Collecting
    <3> QED BY <3>1
  <2>3. /\ source' \in KickSources /\ source'.pc = "fetch" /\ source'.cursor = source.cursor
        /\ source'.seen = source.seen /\ source'.spool = source.spool
    BY <1>2, <1>4, <2>2 DEF KickSources
  <2>4. /\ world' = world /\ setup' = setup /\ run' = run /\ window' = window /\ written' = written
        /\ state.loss \in Nat
    BY <1>2, DiagnosticsAre DEF Proceeds, setupVars
  <2>5. Collecting'
    <3>1. Given' = Given /\ Wanted' = Wanted /\ \A i : Class(i)' = Class(i)
      BY <1>1, <2>4, SameWorld DEF Given
    <3> QED BY <1>4, <2>1, <2>3, <2>4, <3>1 DEF Collecting, SpoolSound, Lost
  <2>6. KickReplaySound'
    BY <1>1, <1>4, <2>3, <2>4, <2>5 DEF DatedSound, KickReplaySound
  <2>7. state'.loss >= state.loss /\ run.pc # "timedout"
    BY <1>1, <1>4, <2>4
  <2> QED BY <1>1, <1>2, <1>4, <2>3, <2>6, <2>7, KickStepSound
<1> QED BY <1>1, <1>3, <1>4

\* A request that fails is tried again or ends the replay with its reason.
LEMMA KickRequestFailsSound ==
    ASSUME DatedSound, Proceeds, world.site = "kick", run.pc # "setup", setup.stage = "found",
           NEW failure, KickRequestFails(failure)
    PROVE  DatedSound'
<1>1. /\ source.pc = "fetch" /\ ready' = ready
      /\ \/ KickEnds /\ state' = state
         \/ source' = Retried(source) /\ state' = IF source'.pc = "failed" THEN Failed(state) ELSE state
         \/ KickFails /\ state' = Failed(state)
  BY DEF KickRequestFails
<1>2. source \in KickSources /\ state \in Diagnostics /\ Kick /\ world \in Worlds
  BY KickTyped
<1>3. CASE (KickEnds /\ state' = state) \/ (KickFails /\ state' = Failed(state))
  <2>1. /\ source' \in KickSources /\ source'.pc \in {"done", "failed"}
        /\ state' \in Diagnostics /\ state'.loss = state.loss /\ state'.emitted = state.emitted
        /\ state'.reason \in Stops \/ state'.reason = state.reason
    BY <1>2, <1>3, KickEndsTyped, FailedIs
  <2> QED BY <1>1, <2>1, KickOver
<1>4. CASE /\ source' = Retried(source)
           /\ state' = IF source'.pc = "failed" THEN Failed(state) ELSE state
  <2>1. \/ /\ source' = [source EXCEPT !.pc = "failed"] /\ state' = Failed(state)
           /\ source' \in KickSources /\ source'.pc = "failed"
        \/ /\ source' \in KickSources /\ source'.pc = "fetch" /\ source'.cursor = source.cursor
           /\ source'.seen = source.seen /\ source'.spool = source.spool /\ state' = state
    <3>1. source.attempt \in Nat
      BY <1>2 DEF KickSources
    <3>2. CASE source.attempt < MaxAttempts
      <4> DEFINE n == source.attempt + 1
      <4>1. source' = [source EXCEPT !.attempt = n] /\ n \in Nat
        BY <1>2, <1>4, <3>1, <3>2 DEF Retried, KickSources
      <4> HIDE DEF n
      <4>2. /\ source' \in KickSources /\ source'.pc = "fetch" /\ source'.cursor = source.cursor
            /\ source'.seen = source.seen /\ source'.spool = source.spool
        BY <1>1, <1>2, <4>1 DEF KickSources
      <4> QED BY <1>4, <4>2
    <3>3. CASE ~(source.attempt < MaxAttempts)
      <4>1. source' = [source EXCEPT !.pc = "failed"]
        BY <1>4, <3>3 DEF Retried
      <4>2. source' \in KickSources /\ source'.pc = "failed"
        BY <1>2, <4>1 DEF KickSources
      <4> QED BY <1>4, <4>1, <4>2
    <3> QED BY <3>2, <3>3
  <2>2. CASE source' \in KickSources /\ source'.pc = "failed" /\ state' = Failed(state)
    <3>1. /\ state' \in Diagnostics /\ state'.loss = state.loss /\ state'.emitted = state.emitted
          /\ state'.reason \in Stops
      BY <1>2, <2>2, FailedIs
    <3> QED BY <1>1, <2>2, <3>1, KickOver
  <2>3. CASE /\ source' \in KickSources /\ source'.pc = "fetch" /\ source'.cursor = source.cursor
             /\ source'.seen = source.seen /\ source'.spool = source.spool /\ state' = state
    <3>1. /\ world' = world /\ setup' = setup /\ run' = run /\ window' = window
          /\ written' = written /\ state.loss \in Nat
      BY <1>2, DiagnosticsAre DEF Proceeds, setupVars
    <3>2. Collecting
      BY <1>1 DEF DatedSound, KickReplaySound
    <3>3. Collecting'
      <4>1. Given' = Given /\ Wanted' = Wanted /\ \A i : Class(i)' = Class(i)
        BY <1>1, <3>1, SameWorld DEF Given
      <4> QED BY <2>3, <3>1, <3>2, <4>1 DEF Collecting, SpoolSound, Lost
    <3>4. KickReplaySound'
      BY <1>1, <2>3, <3>1, <3>3 DEF DatedSound, KickReplaySound
    <3>5. state'.loss >= state.loss
      BY <2>3, <3>1
    <3>6. run.pc = "timedout" => state'.reason \in Stops
      BY <2>3 DEF DatedSound, Claims
    <3> QED BY <1>1, <1>2, <2>3, <3>4, <3>5, <3>6, KickStepSound
  <2> QED BY <2>1, <2>2, <2>3
<1> QED BY <1>1, <1>3, <1>4

\* The next page is asked for when all that is newer has been put away or counted.
LEMMA CollectsNext ==
    ASSUME UNCHANGED <<world, window>>, Given' = <<>>, state'.emitted = 0, window.to > window.from,
           source'.cursor \in 1..(2 * Len(world.history) + 1),
           SpoolSound(source'.seen, source'.spool, Position(source'.cursor)),
           \A i \in Wanted : i > Position(source'.cursor) => Lost' \/ i \in ToSet(source'.spool),
           state'.reason \in {"interrupted"} \cup Stops
    PROVE  Collecting'
<1>1. world' = world /\ window' = window /\ Wanted' = Wanted /\ \A i : Class(i)' = Class(i)
  BY SameWorld
<1> QED BY <1>1 DEF Collecting, SpoolSound

\* The spool is given out when all of the window is in it or counted.
LEMMA EmitsNext ==
    ASSUME UNCHANGED <<world, window>>, Given' = <<>>, window.to > window.from,
           NEW spool \in Seq(Records), IsInjective(spool), \A i \in ToSet(spool) : Class(i) = "selected",
           source'.out = Reverse(spool), \A i \in Wanted : Lost' \/ i \in ToSet(spool),
           state'.reason \in {"interrupted"} \cup Stops
    PROVE  Emitting'
<1>1. world' = world /\ window' = window /\ Wanted' = Wanted /\ \A i : Class(i)' = Class(i)
  BY SameWorld
<1>2. ToSet(Reverse(spool)) = ToSet(spool) /\ IsInjective(Reverse(spool))
  BY Reversed
<1>3. ToSet(<<>>) = {}
  BY Single
<1> QED BY <1>1, <1>2, <1>3 DEF Emitting

LEMMA CountedIs ==
    ASSUME NEW s \in Diagnostics, NEW n \in Nat
    PROVE  LET c == [s EXCEPT !.raw = @ + n]
           IN  c \in Diagnostics /\ c.reason = s.reason /\ c.loss = s.loss /\ c.emitted = s.emitted
<1> DEFINE m == s.raw + n
<1>1. m \in Nat /\ [s EXCEPT !.raw = @ + n] = [s EXCEPT !.raw = m]
  BY DiagnosticsAre DEF Diagnostics
<1> HIDE DEF m
<1> QED BY <1>1 DEF Diagnostics

LEMMA CompletedIs ==
    ASSUME NEW s \in Diagnostics
    PROVE  LET c == [s EXCEPT !.complete = TRUE]
           IN  c \in Diagnostics /\ c.reason = s.reason /\ c.loss = s.loss /\ c.emitted = s.emitted
  BY DEF Diagnostics

LEMMA AnswerTyped ==
    ASSUME world \in Worlds, source.pages \subseteq Seq(Records),
           NEW cursor \in 1..(2 * Len(world.history) + 1), NEW a \in Answers(cursor)
    PROVE  a.page \in Seq(Records) /\ Len(a.page) \in Nat
<1>1. CASE a \in HonestAnswers(cursor)
  <2>1. Len(world.history) \in Nat
    BY RecordsAre
  <2>2. Position(cursor) \in 0..Len(world.history)
    BY <2>1, PositionIs
  <2>3. PICK k \in 0..Position(cursor) : a.page = Page(Position(cursor), k)
    BY <1>1, HonestAnswerIs
  <2>4. Page(Position(cursor), k) \in Seq(Records)
    BY <2>2, PageIs
  <2> QED BY <2>3, <2>4
<1>2. CASE a \in Faults(cursor)
  <2>1. a.page \in source.pages
    BY <1>2 DEF Faults
  <2> QED BY <2>1
<1> QED BY <1>1, <1>2 DEF Answers

\* A page puts away what is new in it, whatever it repeats or leaves to the next.
LEMMA KickPageSound ==
    ASSUME DatedSound, Proceeds, world.site = "kick", run.pc # "setup", setup.stage = "found",
           NEW a \in Answers(source.cursor), KickPage(a.page, a.next)
    PROVE  DatedSound'
<1> DEFINE n == Len(world.history)
           p == Position(source.cursor)
           counted == [state EXCEPT !.raw = @ + Len(a.page)]
           chosen == Selection(a.page, counted)
           spool == source.spool \o chosen.kept
           done == \E k \in DOMAIN a.page : Class(a.page[k]) = "before"
           kept == [source EXCEPT !.pages = @ \cup {a.page}, !.seen = chosen.seen, !.spool = spool]
<1>1. /\ source \in KickSources /\ state \in Diagnostics /\ Kick /\ world \in Worlds /\ state.loss \in Nat
  BY KickTyped, DiagnosticsAre
<1>2. /\ WindowFits /\ window \in Windows /\ window # None /\ window.from \in Int /\ window.to \in Int
  BY <1>1, KickWindow
<1>3. /\ world' = world /\ setup' = setup /\ run' = run /\ window' = window /\ written' = written
  BY DEF Proceeds, setupVars
<1>4. source.pc = "fetch" /\ ready' = ready /\ Given' = Given
  BY <1>3 DEF KickPage, Given
<1>5. Collecting
  BY <1>4 DEF DatedSound, KickReplaySound
<1>6. /\ source.pages \subseteq Seq(Records) \ {<<>>} /\ source.spool \in Seq(Records)
      /\ source.seen \in Seq(Records)
  BY <1>1 DEF KickSources
<1>7. a.page \in Seq(Records) /\ Len(a.page) \in Nat
  BY <1>1, <1>5, <1>6, AnswerTyped DEF Collecting
<1>8. counted \in Diagnostics /\ counted.reason = state.reason /\ counted.loss = state.loss
      /\ counted.emitted = state.emitted
  BY <1>1, <1>7, CountedIs
<1>9. n \in Nat /\ Records = 1..n /\ p \in 0..n /\ source.cursor \in 1..(2 * n + 1)
  BY <1>1, <1>5, RecordsAre, PositionIs DEF Collecting
<1>10. run.pc = "timedout" => state.reason \in Stops
  BY DEF DatedSound, Claims
<1>11. state.reason \in {"interrupted"} \cup Stops /\ None \notin {"interrupted"} \cup Stops
       /\ state.emitted = 0 /\ Given = <<>> /\ window.to > window.from
  BY <1>5, Parameters DEF Collecting, Stops, Reasons
<1>12. \/ (KickEnds /\ state' = state) \/ (KickFails /\ state' = Failed(counted))
       \/ /\ MovedBackwards(source.cursor, a.next) /\ a.page = <<>> /\ a.next # None
          /\ source' = [source EXCEPT !.pc = "ask", !.cursor = a.next] /\ state' = state
       \/ /\ a.page = <<>> /\ a.next = None
          /\ source' = [source EXCEPT !.pc = "emit", !.out = Reverse(source.spool)]
          /\ state' = [state EXCEPT !.complete = TRUE]
       \/ /\ MovedBackwards(source.cursor, a.next) /\ a.page # <<>> /\ NewPage(a.page)
          /\ a.next # None /\ ~done
          /\ source' = [kept EXCEPT !.pc = "ask", !.cursor = a.next] /\ state' = chosen.state
       \/ /\ a.page # <<>> /\ NewPage(a.page) /\ (a.next = None \/ done)
          /\ source' = [kept EXCEPT !.pc = "emit", !.out = Reverse(spool)]
          /\ state' = [chosen.state EXCEPT !.complete = TRUE]
  BY DEF KickPage, Chronological
<1> HIDE DEF n, p, counted, chosen, spool, done, kept
<1>13. CASE (KickEnds /\ state' = state) \/ (KickFails /\ state' = Failed(counted))
  <2>1. /\ source' \in KickSources /\ source'.pc \in {"done", "failed"}
        /\ state' \in Diagnostics /\ state'.loss = state.loss /\ state'.emitted = state.emitted
        /\ state'.reason \in Stops \/ state'.reason = state.reason
    BY <1>1, <1>8, <1>13, KickEndsTyped, FailedIs
  <2> QED BY <1>4, <2>1, KickOver
<1>14. ASSUME a.page = <<>> \/ NewPage(a.page)
       PROVE  \E k \in 0..p :
                 /\ k <= PageSize /\ a.page = Page(p, k)
                 /\ a.next = None => k = p
                 /\ a.next # None =>
                      /\ a.next \in 1..(2 * n + 1)
                      /\ Position(a.next) \in {p - k, p - k + 1}
                      /\ a.next < source.cursor => Position(a.next) <= p
  <2>1. a \in HonestAnswers(source.cursor)
    BY <1>6, <1>14, AnswerIsHonest
  <2> QED BY <1>1, <1>9, <2>1, HonestAnswerIs DEF n, p
<1>15. CASE /\ MovedBackwards(source.cursor, a.next) /\ a.page = <<>> /\ a.next # None
            /\ source' = [source EXCEPT !.pc = "ask", !.cursor = a.next] /\ state' = state
  <2>1. PICK k \in 0..p :
                 /\ a.page = Page(p, k)
                 /\ a.next \in 1..(2 * n + 1)
                 /\ Position(a.next) \in {p - k, p - k + 1}
                 /\ a.next < source.cursor => Position(a.next) <= p
    BY <1>14, <1>15
  <2>2. k = 0
    BY <1>1, <1>9, <1>15, <2>1, PageIs DEF n
  <2>3. Position(a.next) \in {p, p + 1} /\ (world.digits => Position(a.next) = p)
    BY <1>9, <1>15, <2>1, <2>2 DEF MovedBackwards
  <2>4. a.next \in Nat
    BY <1>9, <2>1
  <2>5. /\ source' \in KickSources /\ source'.pc = "ask" /\ source'.cursor = a.next
        /\ source'.seen = source.seen /\ source'.spool = source.spool
    BY <1>1, <1>15, <2>4 DEF KickSources
  <2>6. SpoolSound(source.seen, source.spool, Position(a.next))
    BY <1>5, <2>3 DEF Collecting, SpoolSound, p
  <2>7. \A i \in Wanted : i > Position(a.next) => Lost' \/ i \in ToSet(source.spool)
    <3>1. \A i \in Wanted : i \in Nat
      BY <1>9, WantedIs
    <3>2. \A i \in Wanted : i > Position(a.next) => i > p
      BY <1>9, <2>3, <3>1
    <3> QED BY <1>5, <1>15, <3>2 DEF Collecting, Lost, p
  <2>8. Collecting'
    BY <1>3, <1>4, <1>11, <1>15, <2>1, <2>5, <2>6, <2>7, CollectsNext DEF n
  <2>9. KickReplaySound'
    BY <1>3, <1>11, <1>15, <2>5, <2>8 DEF KickReplaySound, Stops
  <2> QED BY <1>1, <1>4, <1>10, <1>15, <2>5, <2>9, KickStepSound
<1>16. CASE /\ a.page = <<>> /\ a.next = None
            /\ source' = [source EXCEPT !.pc = "emit", !.out = Reverse(source.spool)]
            /\ state' = [state EXCEPT !.complete = TRUE]
  <2>1. PICK k \in 0..p : a.page = Page(p, k) /\ k = p
    BY <1>14, <1>16
  <2>2. p = 0
    BY <1>1, <1>9, <1>16, <2>1, PageIs DEF n
  <2>3. Reverse(source.spool) \in Seq(Records)
    BY <1>6, Reversed
  <2>4. /\ source' \in KickSources /\ source'.pc = "emit" /\ source'.out = Reverse(source.spool)
    BY <1>1, <1>16, <2>3 DEF KickSources
  <2>5. /\ state' \in Diagnostics /\ state'.reason = state.reason /\ state'.loss = state.loss
        /\ state'.emitted = state.emitted
    BY <1>1, <1>16, CompletedIs
  <2>6. \A i \in Wanted : Lost' \/ i \in ToSet(source.spool)
    <3>1. \A i \in Wanted : i \in Nat /\ i > p
      BY <1>9, <2>2, WantedIs
    <3> QED BY <1>5, <2>5, <3>1 DEF Collecting, Lost, p
  <2>7. Emitting'
    BY <1>3, <1>4, <1>5, <1>6, <1>11, <2>4, <2>5, <2>6, EmitsNext DEF Collecting, SpoolSound
  <2>8. KickReplaySound'
    BY <1>3, <1>11, <2>4, <2>5, <2>7 DEF KickReplaySound, Stops
  <2>9. state'.loss >= state.loss
    BY <1>1, <2>5
  <2> QED BY <1>1, <1>4, <1>10, <2>4, <2>5, <2>8, <2>9, KickStepSound
<1>17. ASSUME a.page # <<>>, NewPage(a.page)
       PROVE  \E k \in 1..p :
                /\ a.page = Page(p, k) /\ p \in Records
                /\ a.next = None => k = p
                /\ a.next # None => a.next \in 1..(2 * n + 1) /\ Position(a.next) \in {p - k, p - k + 1}
                /\ chosen \in Selections /\ spool \in Seq(Records)
                /\ SpoolSound(chosen.seen, spool, p - k) /\ SpoolSound(chosen.seen, spool, p - k + 1)
                /\ ToSet(source.spool) \subseteq ToSet(spool)
                /\ \A i \in (p - k + 1)..p :
                     /\ Class(i) = "selected" => i \in ToSet(spool)
                     /\ Class(i) \in {"malformed", "parseError"} => chosen.state.loss > 0
                /\ chosen.state.loss >= state.loss /\ chosen.state.reason = state.reason
                /\ chosen.state.emitted = state.emitted
  <2>1. PICK k \in 0..p :
                 /\ k <= PageSize /\ a.page = Page(p, k)
                 /\ a.next = None => k = p
                 /\ a.next # None =>
                      /\ a.next \in 1..(2 * n + 1)
                      /\ Position(a.next) \in {p - k, p - k + 1}
    BY <1>14, <1>17
  <2>2. k # 0
    BY <1>1, <1>9, <1>17, <2>1, PageIs DEF n
  <2>3. k \in 1..p /\ p \in Records
    BY <1>9, <2>1, <2>2
  <2>4. SpoolSound(source.seen, source.spool, p)
    BY <1>5 DEF Collecting, p
  <2>5. /\ chosen \in Selections /\ spool \in Seq(Records)
        /\ SpoolSound(chosen.seen, spool, p - k) /\ SpoolSound(chosen.seen, spool, p - k + 1)
        /\ ToSet(source.spool) \subseteq ToSet(spool)
        /\ \A i \in (p - k + 1)..p :
             /\ Class(i) = "selected" => i \in ToSet(spool)
             /\ Class(i) \in {"malformed", "parseError"} => chosen.state.loss > 0
        /\ chosen.state.loss >= counted.loss /\ chosen.state.reason = counted.reason
        /\ chosen.state.complete = counted.complete /\ chosen.state.emitted = counted.emitted
    BY <1>1, <1>2, <1>6, <1>8, <2>1, <2>3, <2>4, SelectionMeans DEF chosen, spool
  <2> QED BY <1>8, <2>1, <2>3, <2>5
<1>18. CASE /\ MovedBackwards(source.cursor, a.next) /\ a.page # <<>> /\ NewPage(a.page)
            /\ a.next # None /\ ~done
            /\ source' = [kept EXCEPT !.pc = "ask", !.cursor = a.next] /\ state' = chosen.state
  <2>1. PICK k \in 1..p :
                /\ a.next \in 1..(2 * n + 1) /\ Position(a.next) \in {p - k, p - k + 1}
                /\ chosen \in Selections /\ spool \in Seq(Records)
                /\ SpoolSound(chosen.seen, spool, p - k) /\ SpoolSound(chosen.seen, spool, p - k + 1)
                /\ ToSet(source.spool) \subseteq ToSet(spool)
                /\ \A i \in (p - k + 1)..p :
                     /\ Class(i) = "selected" => i \in ToSet(spool)
                     /\ Class(i) \in {"malformed", "parseError"} => chosen.state.loss > 0
                /\ chosen.state.loss >= state.loss /\ chosen.state.reason = state.reason
                /\ chosen.state.emitted = state.emitted
    BY <1>17, <1>18
  <2>2. chosen.seen \in Seq(Records) /\ chosen.state \in Diagnostics
    BY <2>1 DEF Selections
  <2>3. a.next \in Nat
    BY <1>9, <2>1
  <2>4. /\ source' \in KickSources /\ source'.pc = "ask" /\ source'.cursor = a.next
        /\ source'.seen = chosen.seen /\ source'.spool = spool
    BY <1>1, <1>7, <1>18, <2>1, <2>2, <2>3 DEF KickSources, kept
  <2>5. SpoolSound(chosen.seen, spool, Position(a.next))
    BY <2>1
  <2>6. chosen.state.loss \in Nat
    BY <2>2, DiagnosticsAre
  <2>7. \A i \in Wanted : i > Position(a.next) => Lost' \/ i \in ToSet(spool)
    <3> SUFFICES ASSUME NEW i \in Wanted, i > Position(a.next), ~Lost' PROVE i \in ToSet(spool)
      OBVIOUS
    <3>1. i \in Records /\ Class(i) \in {"selected", "malformed", "parseError"}
      BY WantedIs
    <3>2. chosen.state.loss = 0 /\ state.loss = 0
      BY <1>1, <1>18, <2>1, <2>6 DEF Lost
    <3>3. i > p \/ i \in (p - k + 1)..p
      BY <1>9, <2>1, <3>1
    <3>4. CASE i > p
      BY <1>5, <2>1, <3>2, <3>4 DEF Collecting, Lost, p
    <3>5. CASE i \in (p - k + 1)..p
      BY <2>1, <3>1, <3>2, <3>5
    <3> QED BY <3>3, <3>4, <3>5
  <2>8. Collecting'
    BY <1>3, <1>4, <1>11, <1>18, <2>1, <2>4, <2>5, <2>7, CollectsNext DEF n
  <2>9. KickReplaySound'
    BY <1>3, <1>11, <1>18, <2>1, <2>4, <2>8 DEF KickReplaySound, Stops
  <2> QED BY <1>1, <1>4, <1>10, <1>18, <2>1, <2>2, <2>4, <2>9, KickStepSound
<1>19. CASE /\ a.page # <<>> /\ NewPage(a.page) /\ (a.next = None \/ done)
            /\ source' = [kept EXCEPT !.pc = "emit", !.out = Reverse(spool)]
            /\ state' = [chosen.state EXCEPT !.complete = TRUE]
  <2>1. PICK k \in 1..p :
                /\ a.page = Page(p, k) /\ p \in Records
                /\ a.next = None => k = p
                /\ chosen \in Selections /\ spool \in Seq(Records)
                /\ SpoolSound(chosen.seen, spool, p - k)
                /\ ToSet(source.spool) \subseteq ToSet(spool)
                /\ \A i \in (p - k + 1)..p :
                     /\ Class(i) = "selected" => i \in ToSet(spool)
                     /\ Class(i) \in {"malformed", "parseError"} => chosen.state.loss > 0
                /\ chosen.state.loss >= state.loss /\ chosen.state.reason = state.reason
                /\ chosen.state.emitted = state.emitted
    BY <1>17, <1>19
  <2>2. chosen.seen \in Seq(Records) /\ chosen.state \in Diagnostics
    BY <2>1 DEF Selections
  <2>3. Reverse(spool) \in Seq(Records)
    BY <2>1, Reversed
  <2>4. /\ source' \in KickSources /\ source'.pc = "emit" /\ source'.out = Reverse(spool)
    BY <1>1, <1>7, <1>19, <2>1, <2>2, <2>3 DEF KickSources, kept
  <2>5. /\ state' \in Diagnostics /\ state'.reason = state.reason
        /\ state'.loss = chosen.state.loss /\ state'.emitted = state.emitted /\ state'.loss \in Nat
        /\ state'.loss >= state.loss
    <3>1. chosen.state.loss \in Nat
      BY <2>2, DiagnosticsAre
    <3> QED BY <1>19, <2>1, <2>2, <3>1, CompletedIs
  <2>6. \A i \in Wanted : Lost' \/ i \in ToSet(spool)
    <3> SUFFICES ASSUME NEW i \in Wanted, ~Lost' PROVE i \in ToSet(spool)
      OBVIOUS
    <3>1. i \in Records /\ Class(i) \in {"selected", "malformed", "parseError"}
          /\ At(i) >= window.from
      BY WantedIs
    <3>2. chosen.state.loss = 0 /\ state.loss = 0
      BY <1>1, <2>1, <2>5 DEF Lost
    <3>3. i > p \/ i \in (p - k + 1)..p \/ i <= p - k
      BY <1>9, <2>1, <3>1
    <3>4. CASE i > p
      BY <1>5, <2>1, <3>2, <3>4 DEF Collecting, Lost, p
    <3>5. CASE i \in (p - k + 1)..p
      BY <2>1, <3>1, <3>2, <3>5
    <3>6. CASE i <= p - k
      <4>1. done
        BY <1>9, <1>19, <2>1, <3>1, <3>6
      <4>2. PICK m \in DOMAIN a.page : Class(a.page[m]) = "before"
        BY <4>1 DEF done
      <4>3. p \in 0..Len(world.history) /\ k \in 0..p
        BY <1>9, <2>1 DEF n
      <4>4. ToSet(Page(p, k)) = (p - k + 1)..p
        BY <1>1, <4>3, PageIs
      <4>5. a.page[m] \in (p - k + 1)..p /\ a.page[m] \in Records
        BY <1>7, <2>1, <4>2, <4>4 DEF ToSet
      <4>6. At(a.page[m]) < window.from
        BY <1>1, <1>2, <4>2, <4>5, ClassIs
      <4>7. i < a.page[m]
        BY <1>9, <2>1, <3>1, <3>6, <4>5
      <4>8. At(i) < window.from
        BY <1>1, <1>2, <3>1, <4>5, <4>6, <4>7, BelowTheWindow
      <4>9. At(i) \in Int
        BY <1>1, <3>1, RecordsAre
      <4> QED BY <1>2, <3>1, <4>8, <4>9
    <3> QED BY <3>3, <3>4, <3>5, <3>6
  <2>7. Emitting'
    BY <1>3, <1>4, <1>11, <2>1, <2>4, <2>5, <2>6, EmitsNext DEF SpoolSound
  <2>8. KickReplaySound'
    BY <1>3, <1>11, <2>4, <2>5, <2>7 DEF KickReplaySound, Stops
  <2> QED BY <1>1, <1>4, <1>10, <2>4, <2>5, <2>8, KickStepSound
<1> QED BY <1>12, <1>13, <1>15, <1>16, <1>18, <1>19

\* A record is given out in the order of time.
LEMMA KickEmitSound ==
    ASSUME DatedSound, Proceeds, world.site = "kick", run.pc # "setup", setup.stage = "found",
           run.pc = "timedout" => source.pc = "fetch", ~LimitReached, KickEmit
    PROVE  DatedSound'
<1>1. /\ source \in KickSources /\ state \in Diagnostics /\ Kick /\ world \in Worlds /\ state.loss \in Nat
  BY KickTyped, DiagnosticsAre
<1>2. /\ world' = world /\ setup' = setup /\ run' = run /\ window' = window /\ written' = written
  BY DEF Proceeds, setupVars
<1>3. /\ source.pc = "emit" /\ run.pc # "timedout"
      /\ \/ /\ source.out = <<>> /\ state' = [state EXCEPT !.reason = "completed"]
            /\ KickEnds /\ ready' = ready
         \/ /\ ready' = ready
            /\ (KickEnds /\ state' = state) \/ (KickFails /\ state' = Failed(state))
         \/ /\ source.out # <<>> /\ (source.last # None => At(Head(source.out)) >= source.last)
            /\ source' = [source EXCEPT !.out = Tail(@), !.last = At(Head(source.out))]
            /\ Yielded(Head(source.out), state)
  BY DEF KickEmit
<1>4. Emitting
  BY <1>3 DEF DatedSound, KickReplaySound
<1>5. CASE ready' = ready /\ ((KickEnds /\ state' = state) \/ (KickFails /\ state' = Failed(state)))
  <2>1. /\ source' \in KickSources /\ source'.pc \in {"done", "failed"}
        /\ state' \in Diagnostics /\ state'.loss = state.loss /\ state'.emitted = state.emitted
        /\ state'.reason \in Stops \/ state'.reason = state.reason
    BY <1>1, <1>5, KickEndsTyped, FailedIs
  <2> QED BY <1>3, <1>5, <2>1, KickOver
<1>6. CASE /\ source.out = <<>> /\ state' = [state EXCEPT !.reason = "completed"]
           /\ KickEnds /\ ready' = ready
  <2>1. source' \in KickSources /\ source'.pc = "done"
    BY <1>1, <1>6, KickEndsTyped
  <2>2. /\ state' \in Diagnostics /\ state'.reason = "completed" /\ state'.loss = state.loss
        /\ state'.emitted = state.emitted
    BY <1>1, <1>6 DEF Diagnostics, Reasons
  <2>3. None # "completed"
    BY Parameters DEF Reasons
  <2>4. run.pc = "loop" => \A i \in Wanted : Lost' \/ i \in ToSet(Given')
    <3>1. ToSet(source.out) = {}
      BY <1>6, Single
    <3>2. Given' = Given
      BY <1>2, <1>6 DEF Given
    <3> QED BY <1>4, <2>2, <3>1, <3>2 DEF Emitting, Lost
  <2>5. KickReplaySound'
    <3>1. Wanted' = Wanted
      BY <1>2, SameWorld
    <3> QED BY <1>2, <2>1, <2>2, <2>3, <2>4, <3>1 DEF KickReplaySound
  <2>6. state'.loss >= state.loss
    BY <1>1, <2>2
  <2> QED BY <1>3, <1>6, <2>1, <2>2, <2>5, <2>6, KickStepSound
<1>7. CASE /\ source.out # <<>> /\ (source.last # None => At(Head(source.out)) >= source.last)
            /\ source' = [source EXCEPT !.out = Tail(@), !.last = At(Head(source.out))]
            /\ Yielded(Head(source.out), state)
  <2> DEFINE i == Head(source.out)
             rest == Tail(source.out)
  <2>1. source.out \in Seq(Records)
    BY <1>1 DEF KickSources
  <2>2. /\ i \in Records /\ rest \in Seq(Records) /\ ToSet(source.out) = {i} \cup ToSet(rest)
        /\ IsInjective(rest) /\ i \notin ToSet(rest)
    BY <1>4, <1>7, <2>1, Shortened DEF Emitting
  <2> HIDE DEF i, rest
  <2>3. i \in Wanted /\ Kind(i) = "chat" /\ i \notin ToSet(Given)
    BY <1>4, <2>2, WantedIs DEF Emitting
  <2>4. At(i) \in Int
    BY <1>1, <2>2, RecordsAre
  <2>5. /\ source' \in KickSources /\ source'.pc = "emit" /\ source'.out = rest
        /\ source'.last = At(i)
    <3>1. source' = [source EXCEPT !.out = rest, !.last = At(i)]
      BY <1>1, <1>7 DEF KickSources, i, rest
    <3> QED BY <1>1, <1>3, <2>2, <2>4, <3>1 DEF KickSources
  <2>6. Given # <<>> => At(Given[Len(Given)]) <= At(i)
    <3> SUFFICES ASSUME Given # <<>> PROVE At(Given[Len(Given)]) <= At(i)
      OBVIOUS
    <3>1. source.last # None /\ At(Given[Len(Given)]) <= source.last
      BY <1>4 DEF Emitting
    <3>2. source.last \in Int
      BY <1>1, <3>1 DEF KickSources
    <3>3. At(i) >= source.last
      BY <1>7, <3>1 DEF i
    <3>4. Given \in Seq(Records) /\ Given # <<>>
      BY GivenTyped DEF DatedSound
    <3>5. Given[Len(Given)] \in Records
      <4> HIDE DEF Given
      <4> QED BY <3>4
    <3>6. At(Given[Len(Given)]) \in Int
      BY <1>1, <3>5, RecordsAre
    <3> QED BY <2>4, <3>1, <3>2, <3>3, <3>6
  <2>7. Yielded(i, state)
    BY <1>7 DEF i
  <2>8. /\ Given' = Append(Given, i) /\ ToSet(Given') = ToSet(Given) \cup {i}
        /\ ready' \in Seq(Records) /\ state' \in Diagnostics /\ state'.loss = state.loss
        /\ state'.reason \in {state.reason} \cup Stops
        /\ GivenRight' /\ Limits'
    BY <2>3, <2>6, <2>7, YieldStep
  <2>9. Given'[Len(Given')] = i
    <3>1. Given \in Seq(Records)
      BY GivenTyped DEF DatedSound
    <3> HIDE DEF Given
    <3> QED BY <2>2, <2>8, <3>1
  <2>10. /\ Wanted' = Wanted /\ \A x : At(x)' = At(x) /\ Class(x)' = Class(x)
    BY <1>2, SameWorld
  <2>11. None # At(i)
    BY <2>4, Parameters
  <2>12. Emitting'
    <3>1. window'.to > window'.from
      BY <1>2, <1>4 DEF Emitting
    <3>2. IsInjective(source'.out) /\ \A x \in ToSet(source'.out) : Class(x)' = "selected"
      BY <1>4, <2>2, <2>5, <2>10 DEF Emitting
    <3>3. ToSet(source'.out) \cap ToSet(Given') = {}
      BY <1>4, <2>2, <2>5, <2>8 DEF Emitting
    <3>4. (Given # <<>> => source.last # None /\ At(Given[Len(Given)]) <= source.last)'
      <4>1. At(Given[Len(Given)])' = At(i)
        BY <1>2, <2>9 DEF At
      <4>2. At(i) <= At(i)
        BY <2>4
      <4> QED BY <2>5, <2>11, <4>1, <4>2
    <3>5. run'.pc = "loop" =>
            \A x \in Wanted' : Lost' \/ x \in ToSet(source'.out) \cup ToSet(Given')
      BY <1>2, <1>4, <2>2, <2>5, <2>8, <2>10 DEF Emitting, Lost
    <3>6. state'.reason \in {"interrupted"} \cup Stops
      BY <1>4, <2>8 DEF Emitting
    <3> QED BY <3>1, <3>2, <3>3, <3>4, <3>5, <3>6 DEF Emitting
  <2>13. state'.reason \in {"interrupted"} \cup Stops /\ None \notin {"interrupted"} \cup Stops
    BY <1>4, <2>8, Parameters DEF Emitting, Stops, Reasons
  <2>14. KickReplaySound'
    BY <1>2, <2>5, <2>12, <2>13 DEF KickReplaySound, Stops
  <2>15. TwitchReplaySound' /\ RecoverySound'
    BY <1>2 DEF TwitchReplaySound, RecoverySound
  <2>16. state'.loss >= state.loss
    BY <1>1, <2>8
  <2> QED BY <1>1, <1>3, <2>5, <2>8, <2>14, <2>15, <2>16, RetrieveStep
<1> QED BY <1>3, <1>5, <1>6, <1>7

LEMMA KickRetrieves ==
    ASSUME DatedSound, Proceeds, world.site = "kick", run.pc # "setup", setup.stage = "found",
           run.pc = "timedout" => source.pc = "fetch", ~(LimitReached /\ source.pc = "emit"), KickStep
    PROVE  DatedSound'
<1>1. CASE KickBegin
  BY <1>1, KickBeginSound
<1>2. CASE KickAsk
  BY <1>2, KickAskSound
<1>3. CASE KickEmit
  <2>1. source.pc = "emit"
    BY <1>3 DEF KickEmit
  <2> QED BY <1>3, <2>1, KickEmitSound
<1>4. ASSUME NEW failure \in Outcomes("messages"), KickRequestFails(failure) PROVE DatedSound'
  BY <1>4, KickRequestFailsSound
<1>5. ASSUME NEW a \in Answers(source.cursor), KickPage(a.page, a.next) PROVE DatedSound'
  BY <1>5, KickPageSound
<1> QED BY <1>1, <1>2, <1>3, <1>4, <1>5 DEF KickStep

-----------------------------------------------------------------------------
(* A recovery.                                                             *)

\* A recovery gives nothing out before it ends.
LEMMA BackfillStepSound ==
    ASSUME DatedSound, Proceeds, world.site = "backfill", run.pc # "setup", setup.stage = "found",
           ready' = ready, source' \in KickSources, source'.pc \notin {"start", "emit"},
           state' \in Diagnostics, state'.loss = state.loss, state'.emitted = state.emitted,
           state'.reason = state.reason,
           source'.pc \in {"ask", "fetch"} =>
             /\ source'.cursor \in 1..(2 * Len(world.history) + 1) /\ source'.seen = source'.out
             /\ \A i \in Wanted : i > Position(source'.cursor) /\ Kind(i) # "undated" =>
                  i \in ToSet(source'.out),
           source'.pc = "done" /\ ~cancelled =>
             \A i \in Wanted : Kind(i) # "undated" => i \in ToSet(source'.out)
    PROVE  DatedSound'
<1>1. /\ Given' = Given /\ ready' \in Seq(Records) /\ GivenRight' /\ Limits'
  BY QuietStep
<1>2. /\ world' = world /\ run' = run /\ window' = window /\ cancelled' = cancelled /\ Kick
  BY DEF Proceeds, setupVars, Kick
<1>3. KickReplaySound' /\ TwitchReplaySound'
  BY <1>2 DEF TwitchReplaySound, KickReplaySound
<1>4. Wanted' = Wanted /\ \A i : Kind(i)' = Kind(i)
  BY <1>2, SameWorld
<1>5. RecoverySound'
  BY <1>1, <1>2, <1>4 DEF DatedSound, RecoverySound
<1>6. run.pc # "timedout"
  BY DEF DatedSound, RecoverySound
<1>7. state'.loss >= state.loss
  <2>1. state.loss \in Nat
    BY DiagnosticsAre DEF DatedSound, ReplayTyped
  <2> QED BY <2>1
<1> QED BY <1>1, <1>2, <1>3, <1>5, <1>6, <1>7, RetrieveStep

LEMMA BackfillTyped ==
    ASSUME DatedSound, world.site = "backfill", setup.stage = "found"
    PROVE  /\ source \in KickSources /\ state \in Diagnostics /\ Kick /\ world \in Worlds
           /\ WindowFits /\ window \in Windows /\ window # None /\ window.from \in Int
           /\ window.to \in Int
           /\ \A i : i \in Wanted <=> /\ i \in Records /\ Kind(i) # "other" /\ At(i) >= window.from
                                     /\ At(i) <= window.to
           /\ \A i \in Records : At(i) \in Int
<1>1. source \in KickSources /\ state \in Diagnostics /\ Kick /\ world \in Worlds
  BY DEF DatedSound, ReplayTyped, Kick
<1>2. WindowFits /\ window \in Windows /\ window # None /\ window.from \in Int /\ window.to \in Int
  BY <1>1, KickWindow
<1>3. ~EmptyWindow
  BY DEF EmptyWindow
<1>4. window.to # None
  BY <1>2, Parameters
<1>5. \A i : i \in Wanted <=> /\ i \in Records /\ Kind(i) # "other" /\ At(i) >= window.from
                             /\ At(i) <= window.to
  BY <1>2, <1>3, <1>4 DEF Wanted
<1> QED BY <1>1, <1>2, <1>5, RecordsAre

\* A cursor that was asked for before or a full budget fails the recovery.
LEMMA BackfillAskSound ==
    ASSUME DatedSound, Proceeds, world.site = "backfill", run.pc # "setup", setup.stage = "found",
           BackfillAsk
    PROVE  DatedSound'
<1> DEFINE c == IF source.pc = "start" THEN CursorAfter(window.to) ELSE source.cursor
<1>1. /\ source.pc \in {"start", "ask"} /\ state' = state /\ ready' = ready
      /\ \/ (cancelled \/ window.to < window.from) /\ KickEnds
         \/ KickFails
         \/ source' = [source EXCEPT !.pc = "fetch", !.cursor = c, !.attempt = 1,
                                     !.requested = @ \cup {c}]
  BY DEF BackfillAsk
<1>2. /\ source \in KickSources /\ state \in Diagnostics /\ Kick /\ world \in Worlds
      /\ window.from \in Int /\ window.to \in Int
      /\ \A i : i \in Wanted <=> /\ i \in Records /\ Kind(i) # "other" /\ At(i) >= window.from
                                /\ At(i) <= window.to
      /\ \A i \in Records : At(i) \in Int
  BY BackfillTyped
<1> HIDE DEF c
<1>3. CASE (cancelled \/ window.to < window.from) /\ KickEnds
  <2>1. source' \in KickSources /\ source'.pc = "done"
    BY <1>2, <1>3, KickEndsTyped
  <2>2. ~cancelled => Wanted = {}
    <3>1. ASSUME ~cancelled, NEW i \in Wanted PROVE FALSE
      <4>1. At(i) >= window.from /\ At(i) <= window.to /\ At(i) \in Int
        BY <1>2
      <4> QED BY <1>2, <1>3, <3>1, <4>1
    <3> QED BY <3>1
  <2> QED BY <1>1, <1>2, <2>1, <2>2, BackfillStepSound
<1>4. CASE KickFails
  <2>1. source' \in KickSources /\ source'.pc = "failed"
    BY <1>2, <1>4, KickEndsTyped
  <2> QED BY <1>1, <1>2, <2>1, BackfillStepSound
<1>5. CASE source' = [source EXCEPT !.pc = "fetch", !.cursor = c, !.attempt = 1,
                                    !.requested = @ \cup {c}]
  <2>1. /\ c \in 1..(2 * Len(world.history) + 1) /\ source.seen = source.out
        /\ \A i \in Wanted : i > Position(c) /\ Kind(i) # "undated" => i \in ToSet(source.out)
    <3>1. CASE source.pc = "start"
      <4>1. c = CursorAfter(window.to)
        BY <3>1 DEF c
      <4>2. /\ c \in 1..(2 * Len(world.history) + 1)
            /\ \A i \in Records : i > Position(c) => At(i) > window.to
        BY <1>2, <4>1, CursorAfterIs
      <4>3. \A i \in Wanted : ~(i > Position(c))
        BY <1>2, <4>2
      <4> QED BY <3>1, <4>2, <4>3 DEF DatedSound, RecoverySound
    <3>2. CASE source.pc = "ask"
      BY <3>2 DEF DatedSound, RecoverySound, c
    <3> QED BY <1>1, <3>1, <3>2
  <2>2. c \in Nat
    <3>1. Len(world.history) \in Nat
      BY <1>2, RecordsAre
    <3> QED BY <2>1, <3>1
  <2>3. /\ source' \in KickSources /\ source'.pc = "fetch" /\ source'.cursor = c
        /\ source'.seen = source.seen /\ source'.out = source.out
    BY <1>2, <1>5, <2>2 DEF KickSources
  <2> QED BY <1>1, <1>2, <2>1, <2>3, BackfillStepSound
<1> QED BY <1>1, <1>3, <1>4, <1>5

\* A request that fails is tried again or fails the recovery.
LEMMA BackfillFailsSound ==
    ASSUME DatedSound, Proceeds, world.site = "backfill", run.pc # "setup", setup.stage = "found",
           NEW failure, BackfillFails(failure)
    PROVE  DatedSound'
<1>1. /\ source.pc = "fetch" /\ state' = state /\ ready' = ready
      /\ source' = Retried(source) \/ KickFails
  BY DEF BackfillFails
<1>2. source \in KickSources /\ state \in Diagnostics
  BY BackfillTyped
<1>3. CASE KickFails
  <2>1. source' \in KickSources /\ source'.pc = "failed"
    BY <1>2, <1>3, KickEndsTyped
  <2> QED BY <1>1, <1>2, <2>1, BackfillStepSound
<1>4. CASE source' = Retried(source)
  <2>1. source.attempt \in Nat
    BY <1>2 DEF KickSources
  <2>2. CASE source.attempt < MaxAttempts
    <3> DEFINE n == source.attempt + 1
    <3>1. source' = [source EXCEPT !.attempt = n] /\ n \in Nat
      BY <1>2, <1>4, <2>1, <2>2 DEF Retried, KickSources
    <3> HIDE DEF n
    <3>2. /\ source' \in KickSources /\ source'.pc = "fetch" /\ source'.cursor = source.cursor
          /\ source'.seen = source.seen /\ source'.out = source.out
      BY <1>1, <1>2, <3>1 DEF KickSources
    <3>3. /\ source.cursor \in 1..(2 * Len(world.history) + 1) /\ source.seen = source.out
          /\ \A i \in Wanted : i > Position(source.cursor) /\ Kind(i) # "undated" =>
               i \in ToSet(source.out)
      BY <1>1 DEF DatedSound, RecoverySound
    <3> QED BY <1>1, <1>2, <3>2, <3>3, BackfillStepSound
  <2>3. CASE ~(source.attempt < MaxAttempts)
    <3>1. source' = [source EXCEPT !.pc = "failed"]
      BY <1>4, <2>3 DEF Retried
    <3>2. source' \in KickSources /\ source'.pc = "failed"
      BY <1>2, <3>1 DEF KickSources
    <3> QED BY <1>1, <1>2, <3>2, BackfillStepSound
  <2> QED BY <2>2, <2>3
<1> QED BY <1>1, <1>3, <1>4

\* What is left of a page after the budget.
LEMMA ReadIs ==
    ASSUME NEW X, NEW page \in Seq(X), NEW room \in Int
    PROVE  /\ SubSeq(page, 1, Min({room, Len(page)})) \in Seq(X)
           /\ Len(SubSeq(page, 1, Min({room, Len(page)}))) \in Nat
           /\ ~(Len(page) > room) => SubSeq(page, 1, Min({room, Len(page)})) = page
<1> DEFINE m == Min({room, Len(page)})
           n == Len(page)
<1>1. n \in Nat /\ DOMAIN page = 1..n /\ \A k \in 1..n : page[k] \in X
  OBVIOUS
<1>2. m \in Int /\ m <= n /\ (~(n > room) => m = n)
  BY <1>1, MinOfTwo
<1> HIDE DEF m, n
<1>3. SubSeq(page, 1, m) \in Seq(X)
  <2>1. CASE m < 1
    <3>1. SubSeq(page, 1, m) = <<>>
      BY <1>2, <2>1
    <3>2. <<>> \in Seq(X)
      OBVIOUS
    <3> QED BY <3>1, <3>2
  <2>2. CASE m >= 1
    <3>1. \A k \in 1..m : k \in 1..n /\ page[k] \in X
      BY <1>1, <1>2
    <3>2. SubSeq(page, 1, m) = [k \in 1..m |-> page[k]] /\ m \in Nat
      BY <1>2, <2>2
    <3> QED BY <3>1, <3>2
  <2> QED BY <1>2, <2>1, <2>2
<1>4. Len(SubSeq(page, 1, m)) \in Nat
  BY <1>3
<1>5. SubSeq(page, 1, n) = page
  BY <1>1 DEF n
<1> QED BY <1>2, <1>3, <1>4, <1>5 DEF m, n

\* A page adds what is new in the window; one that lies before it is the last.
LEMMA BackfillPageSound ==
    ASSUME DatedSound, Proceeds, world.site = "backfill", run.pc # "setup", setup.stage = "found",
           NEW a \in Answers(source.cursor), BackfillPage(a.page, a.next)
    PROVE  DatedSound'
<1> DEFINE n == Len(world.history)
           p == Position(source.cursor)
           room == MaxRecords - state.raw
           read == SubSeq(a.page, 1, Min({room, Len(a.page)}))
           found == Recovered(read)
           below == \E k \in DOMAIN read : Kind(read[k]) # "undated" /\ At(read[k]) < window.from
           pages == source.pages \cup (IF a.page = <<>> THEN {} ELSE {a.page})
           out == source.out \o found
           taken == [source EXCEPT !.pages = pages, !.seen = out, !.out = out]
<1>1. /\ source \in KickSources /\ state \in Diagnostics /\ Kick /\ world \in Worlds
      /\ WindowFits /\ window \in Windows /\ window.from \in Int /\ window.to \in Int
      /\ \A i : i \in Wanted <=> /\ i \in Records /\ Kind(i) # "other" /\ At(i) >= window.from
                                /\ At(i) <= window.to
      /\ \A i \in Records : At(i) \in Int
  BY BackfillTyped
<1>2. source.pc = "fetch" /\ ready' = ready
  BY DEF BackfillPage
<1>3. /\ source.cursor \in 1..(2 * n + 1) /\ source.seen = source.out
      /\ \A i \in Wanted : i > p /\ Kind(i) # "undated" => i \in ToSet(source.out)
  BY <1>2 DEF DatedSound, RecoverySound
<1>4. /\ source.pages \subseteq Seq(Records) \ {<<>>} /\ source.out \in Seq(Records)
      /\ source.seen \in Seq(Records)
  BY <1>1 DEF KickSources
<1>5. a.page \in Seq(Records) /\ Len(a.page) \in Nat
  BY <1>1, <1>3, <1>4, AnswerTyped
<1>6. state.raw \in Nat /\ room \in Int
  <2>1. state.raw \in Nat /\ MaxRecords \in Nat
    BY <1>1, Parameters, DiagnosticsAre
  <2> QED BY <2>1
<1>7. /\ read \in Seq(Records) /\ Len(read) \in Nat /\ (~CutOff(a.page, room) => read = a.page)
  BY <1>5, <1>6, ReadIs DEF CutOff
<1>8. n \in Nat /\ Records = 1..n /\ p \in 0..n
  BY <1>1, <1>3, RecordsAre, PositionIs
<1>9. found \in Seq(Records)
      /\ \A i \in ToSet(read) : Kind(i) # "undated" /\ ~(At(i) < window.from) /\ ~(At(i) > window.to) =>
           i \in ToSet(source.seen) \cup ToSet(found)
  BY <1>4, <1>7, RecoveredMeans
<1>10. out \in Seq(Records) /\ ToSet(out) = ToSet(source.out) \cup ToSet(found)
  <2> HIDE DEF found
  <2> QED BY <1>4, <1>9, Concatenated
<1>11. taken = [source EXCEPT !.pages = @ \cup (IF a.page = <<>> THEN {} ELSE {a.page}),
                              !.seen = @ \o found, !.out = @ \o found]
  BY <1>1, <1>3 DEF KickSources
<1>12. \/ cancelled /\ KickEnds /\ state' = state
       \/ KickFails /\ state' = state
       \/ /\ a.page # <<>> => NewPage(a.page)
          /\ state' = [state EXCEPT !.raw = @ + Len(read)]
          /\ source' = CASE CutOff(a.page, room) -> [taken EXCEPT !.pc = "failed"]
                         [] ~CutOff(a.page, room) /\ (below \/ a.next = None) ->
                              [taken EXCEPT !.pc = "done"]
                         [] OTHER -> [taken EXCEPT !.pc = "ask", !.cursor = a.next]
  <2> HIDE DEF n, p, pages, out, taken
  <2> QED BY <1>11 DEF BackfillPage
<1>13. pages \subseteq Seq(Records) \ {<<>>}
  BY <1>4, <1>5
<1> HIDE DEF n, p, room, read, found, below, pages, out
<1>14. CASE (cancelled /\ KickEnds /\ state' = state) \/ (KickFails /\ state' = state)
  <2>1. source' \in KickSources /\ source'.pc \in {"done", "failed"} /\ state' = state
        /\ (source'.pc = "done" => cancelled)
    BY <1>1, <1>14, KickEndsTyped
  <2> QED BY <1>1, <1>2, <2>1, BackfillStepSound
<1>15. CASE /\ a.page # <<>> => NewPage(a.page)
            /\ state' = [state EXCEPT !.raw = @ + Len(read)]
            /\ source' = CASE CutOff(a.page, room) -> [taken EXCEPT !.pc = "failed"]
                           [] ~CutOff(a.page, room) /\ (below \/ a.next = None) ->
                                [taken EXCEPT !.pc = "done"]
                           [] OTHER -> [taken EXCEPT !.pc = "ask", !.cursor = a.next]
  <2>1. state' \in Diagnostics /\ state'.reason = state.reason /\ state'.loss = state.loss
        /\ state'.emitted = state.emitted
    BY <1>1, <1>7, <1>15, CountedIs
  <2>2. a \in HonestAnswers(source.cursor)
    BY <1>4, <1>15, AnswerIsHonest
  <2>3. PICK k \in 0..p :
                 /\ a.page = Page(p, k)
                 /\ a.next = None => k = p
                 /\ a.next # None =>
                      /\ a.next \in 1..(2 * n + 1)
                      /\ Position(a.next) \in {p - k, p - k + 1}
    BY <1>1, <1>3, <2>2, HonestAnswerIs DEF n, p
  <2>4. ToSet(a.page) = (p - k + 1)..p
    BY <1>1, <1>8, <2>3, PageIs DEF n
  <2>5. ASSUME ~CutOff(a.page, room), NEW i \in Wanted, Kind(i) # "undated", i > p - k
        PROVE  i \in ToSet(out)
    <3>1. i \in Records /\ At(i) >= window.from /\ At(i) <= window.to /\ At(i) \in Int
      BY <1>1
    <3>2. i > p \/ i \in (p - k + 1)..p
      BY <1>8, <2>3, <2>5, <3>1
    <3>3. CASE i > p
      BY <1>3, <1>10, <2>5, <3>3
    <3>4. CASE i \in (p - k + 1)..p
      <4>1. i \in ToSet(read)
        BY <1>7, <2>4, <2>5, <3>4
      <4>2. ~(At(i) < window.from) /\ ~(At(i) > window.to)
        BY <1>1, <3>1
      <4> QED BY <1>3, <1>9, <1>10, <2>5, <4>1, <4>2
    <3> QED BY <3>2, <3>3, <3>4
  <2>6. CASE CutOff(a.page, room)
    <3>1. source' = [taken EXCEPT !.pc = "failed"]
      BY <1>15, <2>6
    <3>2. source' \in KickSources /\ source'.pc = "failed"
      BY <1>1, <1>10, <1>13, <3>1 DEF KickSources
    <3> QED BY <1>2, <2>1, <3>2, BackfillStepSound
  <2>7. CASE ~CutOff(a.page, room) /\ (below \/ a.next = None)
    <3>1. source' = [taken EXCEPT !.pc = "done"]
      BY <1>15, <2>7
    <3>2. source' \in KickSources /\ source'.pc = "done" /\ source'.out = out
      BY <1>1, <1>10, <1>13, <3>1 DEF KickSources
    <3>3. ASSUME NEW i \in Wanted, Kind(i) # "undated" PROVE i \in ToSet(out)
      <4>1. i \in Records /\ At(i) >= window.from /\ At(i) \in Int
        BY <1>1
      <4>2. i > p - k \/ i <= p - k
        BY <1>8, <2>3, <4>1
      <4>3. CASE i <= p - k
        <5>1. below
          BY <1>8, <2>3, <2>7, <4>1, <4>3
        <5>2. PICK m \in DOMAIN read : At(read[m]) < window.from
          BY <5>1 DEF below
        <5>3. read[m] \in ToSet(a.page) /\ read[m] \in Records
          BY <1>7, <2>7 DEF ToSet
        <5>4. i < read[m]
          BY <1>8, <2>3, <2>4, <4>1, <4>3, <5>3
        <5>5. At(i) < window.from
          BY <1>1, <4>1, <5>2, <5>3, <5>4, BelowTheWindow
        <5> QED BY <1>1, <4>1, <5>5
      <4> QED BY <2>5, <2>7, <3>3, <4>2, <4>3
    <3> QED BY <1>2, <2>1, <3>2, <3>3, BackfillStepSound
  <2>8. CASE ~CutOff(a.page, room) /\ ~(below \/ a.next = None)
    <3>1. source' = [taken EXCEPT !.pc = "ask", !.cursor = a.next]
      BY <1>15, <2>8
    <3>2. a.next \in 1..(2 * n + 1) /\ a.next \in Nat
          /\ Position(a.next) \in {p - k, p - k + 1}
      BY <1>8, <2>3, <2>8
    <3>3. /\ source' \in KickSources /\ source'.pc = "ask" /\ source'.cursor = a.next
          /\ source'.out = out /\ source'.seen = out
      BY <1>1, <1>10, <1>13, <3>1, <3>2 DEF KickSources
    <3>4. ASSUME NEW i \in Wanted, i > Position(a.next), Kind(i) # "undated" PROVE i \in ToSet(out)
      <4>1. i \in Nat
        BY <1>1, <1>8
      <4>2. i > p - k
        BY <1>8, <2>3, <3>2, <3>4, <4>1
      <4> QED BY <2>5, <2>8, <3>4, <4>2
    <3> QED BY <1>2, <2>1, <3>2, <3>3, <3>4, BackfillStepSound DEF n
  <2> QED BY <2>6, <2>7, <2>8
<1> QED BY <1>12, <1>14, <1>15

LEMMA BackfillRetrieves ==
    ASSUME DatedSound, Proceeds, world.site = "backfill", run.pc # "setup", setup.stage = "found",
           BackfillStep
    PROVE  DatedSound'
<1>1. CASE BackfillAsk
  BY <1>1, BackfillAskSound
<1>2. ASSUME NEW failure \in Outcomes("messages"), BackfillFails(failure) PROVE DatedSound'
  BY <1>2, BackfillFailsSound
<1>3. ASSUME NEW a \in Answers(source.cursor), BackfillPage(a.page, a.next) PROVE DatedSound'
  BY <1>3, BackfillPageSound
<1> QED BY <1>1, <1>2, <1>3 DEF BackfillStep

-----------------------------------------------------------------------------
(* The comments of a Twitch recording.                                     *)

LEMMA TwitchTyped ==
    ASSUME DatedSound, world.site = "twitch", setup.stage = "found"
    PROVE  /\ source \in TwitchSources /\ state \in Diagnostics /\ ~Kick /\ world \in Worlds
           /\ window \in Windows /\ window # None /\ window = TwitchWindow
           /\ window.from = window.origin + window.start
           /\ window.from \in Int /\ window.origin \in Int /\ window.start \in Int
           /\ window.end \in Int \cup {None}
           /\ window.end = None => window.to = None
           /\ window.end # None => window.to = window.origin + window.end /\ window.to # None
           /\ Count \in Nat /\ Records = 1..Count /\ state.loss \in Nat
<1>1. /\ source \in TwitchSources /\ state \in Diagnostics /\ ~Kick /\ world \in Worlds
      /\ window \in Windows /\ window # None /\ window = TwitchWindow
  BY Parameters DEF DatedSound, ReplayTyped, Kick, SettingUp, WindowFits
<1>2. /\ window.from \in Int /\ window.origin \in Int /\ window.start \in Int
      /\ window.end \in Int \cup {None}
  BY <1>1 DEF Windows
<1>3. /\ window.from = window.origin + window.start
      /\ window.to = IF window.end = None THEN None ELSE window.origin + window.end
  BY <1>1 DEF TwitchWindow
<1>4. window.end # None => window.origin + window.end \in Int
  BY <1>2
<1>5. window.end # None => window.origin + window.end # None
  BY <1>4, Parameters
<1>6. Count \in Nat /\ Records = 1..Count /\ state.loss \in Nat
  BY <1>1, RecordsAre, DiagnosticsAre
<1> QED BY <1>1, <1>2, <1>3, <1>5, <1>6

\* Its order is that of time.
LEMMA InOrder ==
    ASSUME world \in Worlds, world.site = "twitch", NEW i \in Records, NEW j \in Records, i <= j
    PROVE  At(i) <= At(j)
<1>1. At(i) \in Int /\ At(j) \in Int /\ i \in Nat /\ j \in Nat
  BY RecordsAre
<1>2. i = j \/ i < j
  BY <1>1
<1>3. i < j => ~(At(j) < At(i))
  BY World DEF Ordered, At, Records
<1> QED BY <1>1, <1>2, <1>3

\* What is asked for, by the times in the recording.
LEMMA TwitchWanted ==
    ASSUME DatedSound, world.site = "twitch", setup.stage = "found", NEW i
    PROVE  i \in Wanted <=> /\ i \in Records /\ Kind(i) # "other"
                            /\ At(i) - window.origin >= window.start
                            /\ window.end = None \/ At(i) - window.origin <= window.end
<1>1. /\ window # None /\ ~EmptyWindow /\ window.from = window.origin + window.start
      /\ window.origin \in Int /\ window.start \in Int /\ window.end \in Int \cup {None}
      /\ window.end = None => window.to = None
      /\ window.end # None => window.to = window.origin + window.end /\ window.to # None
      /\ world \in Worlds
  BY TwitchTyped DEF EmptyWindow
<1>2. i \in Wanted <=> /\ i \in Records /\ Kind(i) # "other" /\ At(i) >= window.from
                       /\ window.to = None \/ At(i) <= window.to
  BY <1>1 DEF Wanted
<1>3. i \in Records => At(i) \in Int
  BY <1>1, RecordsAre
<1>4. i \in Records => (At(i) >= window.from <=> At(i) - window.origin >= window.start)
  BY <1>1, <1>3
<1>5. i \in Records /\ window.end # None =>
        (At(i) <= window.to <=> At(i) - window.origin <= window.end)
  BY <1>1, <1>3
<1> QED BY <1>1, <1>2, <1>4, <1>5

\* What is done with an edge is right for the record.
LEMMA DispositionIs ==
    ASSUME DatedSound, DatedWorld, world.site = "twitch", setup.stage = "found", NEW i \in Records
    PROVE  /\ EdgeDisposition(i) = "skip" => i \notin Wanted
           /\ EdgeDisposition(i) = "yield" => i \in Wanted /\ Kind(i) = "chat"
           /\ EdgeDisposition(i) = "stop" => \A j \in Wanted : j < i
<1>1. /\ window.origin \in Int /\ window.start \in Int /\ window.end \in Int \cup {None}
      /\ world \in Worlds /\ Count \in Nat /\ Records = 1..Count
  BY TwitchTyped
<1>2. At(i) \in Int /\ Kind(i) \in {"chat", "other", "broken"} /\ TwitchTime(i) = At(i) - window.origin
  BY <1>1, RecordsAre DEF DatedWorld, TwitchTime
<1>3. i \in Wanted <=> /\ Kind(i) # "other" /\ TwitchTime(i) >= window.start
                       /\ window.end = None \/ TwitchTime(i) <= window.end
  BY <1>2, TwitchWanted
<1>4. TwitchTime(i) \in Int
  BY <1>1, <1>2
<1>5. EdgeDisposition(i) = "skip" => i \notin Wanted
  BY <1>1, <1>2, <1>3, <1>4 DEF EdgeDisposition
<1>6. EdgeDisposition(i) = "yield" => i \in Wanted /\ Kind(i) = "chat"
  BY <1>1, <1>2, <1>3, <1>4 DEF EdgeDisposition
<1>7. ASSUME EdgeDisposition(i) = "stop", NEW j \in Wanted PROVE j < i
  <2>1. window.end # None /\ TwitchTime(i) > window.end
    BY <1>1, <1>2, <1>3, <1>4, <1>7 DEF EdgeDisposition
  <2>2. j \in Records /\ At(j) - window.origin <= window.end
    BY <2>1, TwitchWanted
  <2>3. At(j) \in Int
    BY <1>1, <2>2, RecordsAre
  <2>4. ~(At(i) <= At(j))
    BY <1>1, <1>2, <2>1, <2>2, <2>3
  <2>5. ~(i <= j)
    BY <1>1, <2>2, <2>4, InOrder
  <2> QED BY <1>1, <2>2, <2>5
<1> QED BY <1>5, <1>6, <1>7

\* A page of comments starts where no record of the window was left out.
LEMMA FirstServedIs ==
    ASSUME DatedSound, world.site = "twitch", setup.stage = "found", NEW f \in FirstServed
    PROVE  f \in 1..(Count + 1) /\ \A i \in Wanted : i >= f
<1>1. /\ window = TwitchWindow /\ world \in Worlds /\ Count \in Nat /\ Records = 1..Count
      /\ window.from = window.origin + window.start
      /\ window.from \in Int /\ window.origin \in Int /\ window.start \in Int
  BY TwitchTyped
<1>2. ContentOffset \in Int /\ ContentOffset <= window.from
  <2>1. CASE world.source = "clip" /\ world.offset # None
    BY <1>1, <2>1 DEF ContentOffset
  <2>2. CASE ~(world.source = "clip" /\ world.offset # None)
    <3> DEFINE d == Bound(world.duration, window.start)
    <3>1. d \in Int
      BY <1>1, World DEF Bound
    <3>2. ContentOffset = Min({window.start, d})
      BY <2>2 DEF ContentOffset
    <3>3. window.origin = 0
      BY <1>1, <2>2 DEF TwitchWindow
    <3> HIDE DEF d
    <3>4. Min({window.start, d}) = IF window.start <= d THEN window.start ELSE d
      BY <1>1, <3>1, MinOfTwo
    <3> QED BY <1>1, <3>1, <3>2, <3>3, <3>4
  <2> QED BY <2>1, <2>2
<1> DEFINE behind == {i \in Records : At(i) >= ContentOffset}
           first == IF behind = {} THEN Count + 1 ELSE Min(behind)
<1>3. first \in 1..(Count + 1) /\ \A i \in behind : first <= i
  <2>1. CASE behind = {}
    BY <1>1, <2>1
  <2>2. CASE behind # {}
    <3>1. behind \in SUBSET Nat
      BY <1>1
    <3>2. \E x \in behind : \A y \in behind : x <= y
      <4> HIDE DEF behind
      <4> QED BY <2>2, <3>1, LeastMember
    <3>3. Min(behind) \in behind /\ \A y \in behind : Min(behind) <= y
      <4> HIDE DEF behind
      <4> QED BY <3>2 DEF Min
    <3>4. \A x \in behind : x \in 1..(Count + 1)
      BY <1>1
    <3> QED BY <2>2, <3>3, <3>4
  <2> QED BY <2>1, <2>2
<1>4. f \in {first, Max({1, first - 1})}
  BY DEF FirstServed
<1>5. ASSUME NEW i \in Wanted PROVE i \in behind
  <2>1. i \in Records /\ At(i) - window.origin >= window.start
    BY TwitchWanted
  <2>2. At(i) \in Int
    BY <1>1, <2>1, RecordsAre
  <2>3. At(i) >= ContentOffset
    BY <1>1, <1>2, <2>1, <2>2
  <2> QED BY <2>1, <2>3
<1> HIDE DEF first, behind
<1>6. Max({1, first - 1}) = IF 1 >= first - 1 THEN 1 ELSE first - 1
  BY <1>1, <1>3, MaxOfTwo
<1>7. f \in 1..(Count + 1) /\ f <= first
  BY <1>1, <1>3, <1>4, <1>6
<1>8. ASSUME NEW i \in Wanted PROVE i >= f
  <2>1. first <= i /\ i \in Records
    BY <1>3, <1>5, TwitchWanted, <1>8
  <2> QED BY <1>1, <1>3, <1>7, <2>1
<1> QED BY <1>7, <1>8

\* What a step of the Twitch loop has to show.
LEMMA TwitchStepSound ==
    ASSUME DatedSound, Proceeds, world.site = "twitch", run.pc # "setup", setup.stage = "found",
           ready' = ready, source' \in TwitchSources, state' \in Diagnostics,
           state'.loss >= state.loss, state'.emitted = state.emitted,
           state'.reason = state.reason \/ state'.reason \in Stops,
           run.pc = "timedout" => state.reason \in Stops, TwitchReplaySound'
    PROVE  DatedSound'
<1>1. Given' = Given /\ ready' \in Seq(Records) /\ GivenRight' /\ Limits'
  BY QuietStep
<1>2. world' = world /\ run' = run /\ ~Kick
  BY DEF Proceeds, Kick
<1>3. KickReplaySound' /\ RecoverySound'
  BY <1>2 DEF KickReplaySound, RecoverySound
<1>4. run.pc = "timedout" => state'.reason \in Stops
  OBVIOUS
<1> QED BY <1>1, <1>2, <1>3, <1>4, RetrieveStep

\* What it is about to ask for.
TwitchAsks ==
    /\ source.cursor <= Count
    /\ \A i \in ToSet(Given) : i <= source.cursor
    /\ run.pc = "loop" /\ source.cursor # 0 =>
         \A i \in Wanted : i > source.cursor \/ Lost \/ i \in ToSet(Given)

TwitchDone ==
    state.reason = None /\ run.pc = "loop" => \A i \in Wanted : Lost \/ i \in ToSet(Given)

LEMMA TwitchNext ==
    ASSUME DatedSound, Proceeds, world.site = "twitch", setup.stage = "found",
           state'.reason \in Stops \cup {None},
           \A a, b \in DOMAIN Given' : a < b => (Given')[a] < (Given')[b],
           source'.pc \in {"ask", "fetch"} => TwitchAsks',
           source'.pc = "emit" => \E n \in 1..(Count + 1) : PageAt(n)',
           source'.pc = "done" => TwitchDone'
    PROVE  TwitchReplaySound'
<1>1. world' = world /\ window' = window /\ Count' = Count
  BY SameWorld DEF Proceeds, setupVars
<1> QED BY <1>1 DEF TwitchReplaySound, TwitchAsks, TwitchDone

LEMMA TwitchReason ==
    ASSUME DatedSound, world.site = "twitch", setup.stage = "found"
    PROVE  /\ state.reason \in Stops \cup {None}
           /\ \A a, b \in DOMAIN Given : a < b => Given[a] < Given[b]
           /\ source.pc \in {"ask", "fetch"} => TwitchAsks
           /\ source.pc = "emit" => \E n \in 1..(Count + 1) : PageAt(n)
           /\ run.pc = "timedout" => state.reason \in Stops
  BY DEF DatedSound, TwitchReplaySound, TwitchAsks, Claims

\* A request, and one that fails.
LEMMA TwitchAskSound ==
    ASSUME DatedSound, Proceeds, world.site = "twitch", run.pc # "setup", setup.stage = "found",
           TwitchAsk \/ \E failure \in GqlOutcomes : TwitchRequestFails(failure)
    PROVE  DatedSound'
<1>1. /\ source.pc \in {"ask", "fetch"} /\ state' = state /\ ready' = ready
      /\ \/ source' = [source EXCEPT !.pc = "fetch", !.attempt = 1]
         \/ source.pc = "fetch" /\ source' = Retried(source)
         \/ source' = [source EXCEPT !.pc = "failed"]
  BY DEF TwitchAsk, TwitchRequestFails
<1>2. source \in TwitchSources /\ state \in Diagnostics /\ world \in Worlds /\ state.loss \in Nat
  BY TwitchTyped
<1>3. world' = world /\ window' = window /\ run' = run /\ setup' = setup /\ written' = written
      /\ Wanted' = Wanted /\ Count' = Count /\ Given' = Given
  BY <1>1, SameWorld DEF Proceeds, setupVars, Given
<1>4. source' \in TwitchSources /\ source'.pc \in {"fetch", "failed"} /\ source'.cursor = source.cursor
  <2> DEFINE m == source.attempt + 1
  <2>1. source.attempt \in Nat /\ m \in Nat
    <3>1. source.attempt \in Nat
      BY <1>2 DEF TwitchSources
    <3> QED BY <3>1
  <2>2. \/ source' = [source EXCEPT !.pc = "fetch", !.attempt = 1]
        \/ source.pc = "fetch" /\ source' = [source EXCEPT !.attempt = m]
        \/ source' = [source EXCEPT !.pc = "failed"]
    BY <1>1, <1>2 DEF Retried, TwitchSources
  <2> HIDE DEF m
  <2>3. source' \in TwitchSources
    <3>1. CASE source' = [source EXCEPT !.pc = "fetch", !.attempt = 1]
      BY <1>2, <3>1 DEF TwitchSources
    <3>2. CASE source' = [source EXCEPT !.attempt = m]
      BY <1>2, <2>1, <3>2 DEF TwitchSources
    <3>3. CASE source' = [source EXCEPT !.pc = "failed"]
      BY <1>2, <3>3 DEF TwitchSources
    <3> QED BY <2>2, <3>1, <3>2, <3>3
  <2> QED BY <1>2, <2>2, <2>3 DEF TwitchSources
<1>5. TwitchAsks'
  BY <1>1, <1>3, <1>4, TwitchReason DEF TwitchAsks, Lost
<1>6. TwitchReplaySound'
  BY <1>1, <1>3, <1>4, <1>5, TwitchReason, TwitchNext
<1>7. state'.loss >= state.loss
  BY <1>1, <1>2
<1> QED BY <1>1, <1>2, <1>4, <1>6, <1>7, TwitchReason, TwitchStepSound

LEMMA StalledIs ==
    ASSUME NEW s \in Diagnostics
    PROVE  LET t == [s EXCEPT !.reason = "pagination_stalled"]
           IN  /\ t \in Diagnostics /\ t.reason = "pagination_stalled" /\ t.loss = s.loss
               /\ t.emitted = s.emitted /\ t.reason \in Stops
  BY DEF Diagnostics, Reasons, Stops

\* A page goes on behind the cursor; empty pages end in a stall.
LEMMA TwitchPageSound ==
    ASSUME DatedSound, Proceeds, world.site = "twitch", run.pc # "setup", setup.stage = "found",
           NEW first \in NextServed, NEW k \in 0..PageSize, NEW cursors \in BOOLEAN,
           CanServe(first, k, cursors), TwitchPage(Served(first, k, cursors))
    PROVE  DatedSound'
<1> DEFINE edges == [j \in 1..k |-> first + j - 1]
           more == IF world.fallback THEN cursors /\ k > 0 ELSE first + k <= Count
           empties == source.empties + 1
<1>1. /\ source \in TwitchSources /\ state \in Diagnostics /\ world \in Worlds /\ state.loss \in Nat
      /\ Count \in Nat /\ Records = 1..Count
  BY TwitchTyped
<1>2. world' = world /\ window' = window /\ run' = run /\ setup' = setup /\ written' = written
      /\ Wanted' = Wanted /\ Count' = Count
  BY SameWorld DEF Proceeds, setupVars
<1>3. /\ source.pc = "fetch" /\ ready' = ready /\ k \in Nat
      /\ \/ /\ edges = <<>> /\ more
            /\ source' = [source EXCEPT !.pc = "ask", !.empties = empties] /\ state' = state
         \/ /\ edges = <<>> /\ source' = [source EXCEPT !.pc = "done"]
            /\ IF more THEN state' = [state EXCEPT !.reason = "pagination_stalled"] ELSE state' = state
         \/ /\ edges # <<>> /\ state' = state
            /\ source' = [source EXCEPT !.pc = "emit", !.empties = 0, !.previous = source.cursor,
                                        !.edges = edges, !.cursors = cursors, !.more = more]
  <2>1. k \in Nat
    BY Parameters
  <2> HIDE DEF edges, more
  <2>2. TwitchPage([edges |-> edges, cursors |-> cursors, more |-> more])
    BY DEF Served, edges, more
  <2> QED BY <2>1, <2>2 DEF TwitchPage, Stalled, Emptier
<1>4. Given' = Given
  BY <1>2, <1>3 DEF Given
<1>5. /\ source.cursor \in Nat /\ source.empties \in Nat /\ TwitchAsks
      /\ \A i \in ToSet(Given) : i \in Records
  <2>1. \A i \in ToSet(Given) : i \in Records
    BY GivenTyped DEF DatedSound, ToSet
  <2> QED BY <1>1, <1>3, <2>1, TwitchReason DEF TwitchSources
<1>6. /\ first \in 1..(Count + 1) /\ source.cursor < first
      /\ \A i \in ToSet(Given) : i < first
      /\ run.pc = "loop" => \A i \in Wanted : i >= first \/ Lost \/ i \in ToSet(Given)
  <2>1. CASE source.cursor = 0
    <3>1. first \in FirstServed
      BY <2>1 DEF NextServed
    <3>2. first \in 1..(Count + 1) /\ \A i \in Wanted : i >= first
      BY <3>1, FirstServedIs
    <3>3. \A i \in ToSet(Given) : i <= 0 /\ i \in 1..Count
      BY <1>1, <1>5, <2>1 DEF TwitchAsks
    <3> QED BY <1>1, <2>1, <3>2, <3>3
  <2>2. CASE source.cursor # 0
    <3>1. first = source.cursor + 1
      BY <2>2 DEF NextServed
    <3>2. \A i \in ToSet(Given) : i <= source.cursor /\ i \in Nat
      BY <1>1, <1>5 DEF TwitchAsks
    <3>3. source.cursor <= Count
      BY <1>5 DEF TwitchAsks
    <3>4. \A i \in Wanted : i \in Nat
      BY <1>1, TwitchWanted
    <3>5. run.pc = "loop" => \A i \in Wanted : i >= first \/ Lost \/ i \in ToSet(Given)
      BY <1>5, <2>2, <3>1, <3>4 DEF TwitchAsks
    <3>6. first \in 1..(Count + 1) /\ source.cursor < first /\ \A i \in ToSet(Given) : i < first
      BY <1>1, <1>5, <3>1, <3>2, <3>3
    <3> QED BY <3>5, <3>6
  <2> QED BY <2>1, <2>2
<1>7. /\ first + k <= Count + 1 /\ more \in BOOLEAN
      /\ ~more /\ edges # <<>> => first + k = Count + 1
      /\ ~more /\ edges = <<>> => first = Count + 1
  <2>1. first \in Nat /\ first + k \in Nat
    BY <1>1, <1>3, <1>6
  <2>2. edges = <<>> <=> k = 0
    <3>1. DOMAIN edges = 1..k /\ DOMAIN <<>> = 1..0
      OBVIOUS
    <3>2. k = 0 => edges = <<>>
      BY <1>3
    <3>3. k # 0 => 1 \in 1..k
      BY <1>3
    <3> HIDE DEF edges
    <3> QED BY <1>3, <3>1, <3>2, <3>3
  <2> HIDE DEF edges
  <2>3. /\ first + k <= Count + 1
        /\ world.fallback => (first <= Count => k > 0) /\ (first + k <= Count => cursors)
    BY DEF CanServe
  <2>4. CASE world.fallback
    <3>1. more <=> cursors /\ k > 0
      BY <2>4
    <3>2. more \in BOOLEAN
      BY <2>4
    <3> HIDE DEF more
    <3>3. k = 0 \/ k > 0
      BY <1>3
    <3> QED BY <1>1, <1>3, <1>6, <2>1, <2>2, <2>3, <2>4, <3>1, <3>2, <3>3
  <2>5. CASE ~world.fallback
    <3>1. (more <=> first + k <= Count) /\ more \in BOOLEAN
      BY <2>5
    <3> HIDE DEF more
    <3>2. ~(first + k <= Count) => first + k = Count + 1
      BY <1>1, <2>1, <2>3
    <3>3. first + k = Count + 1 /\ k = 0 => first = Count + 1
      BY <1>1, <1>6
    <3> QED BY <2>2, <2>3, <3>1, <3>2, <3>3
  <2> QED BY <2>4, <2>5
<1>8. edges \in Seq(Records) /\ Len(edges) = k
  <2>1. \A j \in 1..k : first + j - 1 \in Records
    BY <1>1, <1>3, <1>6, <1>7
  <2> QED BY <1>3, <2>1
<1> HIDE DEF edges, more, empties
<1>9. empties \in Nat
  BY <1>5 DEF empties
<1>10. CASE /\ edges = <<>> /\ more
            /\ source' = [source EXCEPT !.pc = "ask", !.empties = empties] /\ state' = state
  <2>1. source' \in TwitchSources /\ source'.pc = "ask" /\ source'.cursor = source.cursor
    BY <1>1, <1>9, <1>10 DEF TwitchSources
  <2>2. TwitchAsks'
    BY <1>2, <1>4, <1>5, <1>10, <2>1 DEF TwitchAsks, Lost
  <2>3. TwitchReplaySound'
    BY <1>2, <1>4, <1>10, <2>1, <2>2, TwitchReason, TwitchNext
  <2>4. state'.loss >= state.loss
    BY <1>1, <1>10
  <2> QED BY <1>1, <1>3, <1>10, <2>1, <2>3, <2>4, TwitchReason, TwitchStepSound
<1>11. CASE /\ edges = <<>> /\ source' = [source EXCEPT !.pc = "done"]
            /\ IF more THEN state' = [state EXCEPT !.reason = "pagination_stalled"] ELSE state' = state
  <2>1. source' \in TwitchSources /\ source'.pc = "done"
    BY <1>1, <1>11 DEF TwitchSources
  <2>2. /\ state' \in Diagnostics /\ state'.loss = state.loss /\ state'.emitted = state.emitted
        /\ state'.reason \in Stops \/ (~more /\ state'.reason = state.reason)
    BY <1>1, <1>11, StalledIs
  <2>3. TwitchDone'
    <3>1. None \notin Stops
      BY Parameters DEF Stops, Reasons
    <3> SUFFICES ASSUME ~more, run.pc = "loop" PROVE \A i \in Wanted : Lost \/ i \in ToSet(Given)
      BY <1>2, <1>4, <2>2, <3>1 DEF TwitchDone, Lost
    <3>2. \A i \in Wanted : i \in 1..Count
      BY <1>1, TwitchWanted
    <3> QED BY <1>1, <1>6, <1>7, <1>11, <3>2
  <2>4. TwitchReplaySound'
    BY <1>2, <1>4, <2>1, <2>2, <2>3, TwitchReason, TwitchNext
  <2>5. state'.loss >= state.loss
    BY <1>1, <2>2
  <2> QED BY <1>1, <1>3, <2>1, <2>2, <2>4, <2>5, TwitchReason, TwitchStepSound
<1>12. CASE /\ edges # <<>> /\ state' = state
            /\ source' = [source EXCEPT !.pc = "emit", !.empties = 0, !.previous = source.cursor,
                                        !.edges = edges, !.cursors = cursors, !.more = more]
  <2>1. /\ source' \in TwitchSources /\ source'.pc = "emit" /\ source'.cursor = source.cursor
        /\ source'.previous = source.cursor /\ source'.edges = edges /\ source'.more = more
        /\ source'.cursors = cursors
    BY <1>1, <1>5, <1>7, <1>8, <1>12 DEF TwitchSources
  <2>2. PageAt(first)'
    BY <1>2, <1>4, <1>6, <1>7, <1>8, <1>12, <2>1 DEF PageAt, Lost, edges
  <2>3. TwitchReplaySound'
    BY <1>2, <1>4, <1>6, <1>12, <2>1, <2>2, TwitchReason, TwitchNext
  <2>4. state'.loss >= state.loss
    BY <1>1, <1>12
  <2> QED BY <1>1, <1>3, <1>12, <2>1, <2>3, <2>4, TwitchReason, TwitchStepSound
<1> QED BY <1>3, <1>10, <1>11, <1>12

\* The page without its first edge.
LEMMA PageMoves ==
    ASSUME DatedSound, Proceeds, world.site = "twitch", setup.stage = "found",
           NEW n \in 1..(Count + 1), PageAt(n), source.edges # <<>>,
           source'.edges = Tail(source.edges), source'.cursors = source.cursors,
           source'.previous = source.previous, source'.more = source.more,
           source'.cursor = IF source.cursors THEN n ELSE source.cursor,
           ToSet(Given) \subseteq ToSet(Given'), ToSet(Given') \subseteq ToSet(Given) \cup {n},
           state'.loss \in Nat, state'.loss >= state.loss,
           run.pc = "loop" /\ n \in Wanted => Lost' \/ n \in ToSet(Given')
    PROVE  n + 1 \in 1..(Count + 1) /\ PageAt(n + 1)'
<1> DEFINE e == source.edges
           L == Len(e)
<1>1. /\ source \in TwitchSources /\ Count \in Nat /\ Records = 1..Count /\ state.loss \in Nat
      /\ source.cursor \in Nat /\ source.previous \in Nat /\ source.cursors \in BOOLEAN
      /\ e \in Seq(Records)
  <2>1. source \in TwitchSources /\ Count \in Nat /\ Records = 1..Count /\ state.loss \in Nat
    BY TwitchTyped
  <2> QED BY <2>1 DEF TwitchSources
<1>2. world' = world /\ window' = window /\ run' = run /\ Wanted' = Wanted /\ Count' = Count
  BY SameWorld DEF Proceeds, setupVars
<1>3. /\ e = [j \in 1..L |-> n + j - 1] /\ n + L <= Count + 1
      /\ ~source.more => n + L = Count + 1
      /\ source.cursor # source.previous => source.cursor = n - 1
      /\ ~source.cursors => source.cursor = source.previous
      /\ source.cursor < n
      /\ \A i \in ToSet(Given) : i < n
      /\ run.pc = "loop" => \A i \in Wanted : i >= n \/ Lost \/ i \in ToSet(Given)
  BY DEF PageAt
<1> HIDE DEF e, L
<1>4. L \in Nat /\ L >= 1
  <2>1. Len(e) \in Nat /\ (e # <<>> => Len(e) # 0)
    BY <1>1
  <2> QED BY <2>1 DEF L, e
<1> DEFINE t == Tail(e)
<1>5. /\ Len(t) = L - 1 /\ t = [j \in 1..Len(t) |-> (n + 1) + j - 1]
  <2>1. /\ Len(t) = L - 1 /\ t \in Seq(Records) /\ DOMAIN t = 1..(L - 1)
        /\ \A j \in 1..(L - 1) : t[j] = e[j + 1]
    <3>1. e # <<>>
      BY DEF e
    <3> QED BY <1>1, <1>4, <3>1 DEF L
  <2>2. \A j \in 1..(L - 1) : j + 1 \in 1..L /\ n + (j + 1) - 1 = (n + 1) + j - 1
    BY <1>4
  <2>3. \A j \in 1..(L - 1) : t[j] = (n + 1) + j - 1
    <3> HIDE DEF t
    <3> QED BY <1>3, <2>1, <2>2
  <2>4. t = [j \in 1..Len(t) |-> t[j]]
    <3> HIDE DEF t
    <3> QED BY <2>1
  <2> HIDE DEF t
  <2> QED BY <2>1, <2>3, <2>4
<1>6. source'.edges = t
  BY DEF e
<1> HIDE DEF t
<1>7. n \in Nat /\ n + 1 \in 1..(Count + 1) /\ (n + 1) + Len(t) = n + L
  BY <1>1, <1>3, <1>4, <1>5
<1>8. \A i \in ToSet(Given') : i < n + 1
  <2>1. \A i \in ToSet(Given) : i \in Records
    BY GivenTyped DEF DatedSound, ToSet
  <2>2. \A i \in ToSet(Given') : i = n \/ (i \in ToSet(Given) /\ i < n /\ i \in Nat)
    BY <1>1, <1>3, <2>1
  <2> QED BY <1>7, <2>2
<1>9. source'.cursor < n + 1 /\ (source'.cursor # source'.previous => source'.cursor = (n + 1) - 1)
      /\ (~source'.cursors => source'.cursor = source'.previous)
  BY <1>1, <1>3, <1>7
<1>10. ASSUME run.pc = "loop", NEW i \in Wanted
       PROVE  i >= n + 1 \/ Lost' \/ i \in ToSet(Given')
  <2>1. i \in Nat
    BY <1>1, TwitchWanted
  <2>2. i = n \/ i < n \/ i >= n + 1
    BY <1>7, <2>1
  <2>3. Lost => Lost'
    BY <1>1 DEF Lost
  <2>4. i < n => Lost \/ i \in ToSet(Given)
    BY <1>3, <1>7, <1>10, <2>1
  <2> QED BY <1>10, <2>2, <2>3, <2>4
<1>11. PageAt(n + 1)'
  BY <1>2, <1>3, <1>5, <1>6, <1>7, <1>8, <1>9, <1>10 DEF PageAt
<1> QED BY <1>7, <1>11

\* The first edge of a page that begins at record n.
LEMMA HeadOfPage ==
    ASSUME DatedSound, world.site = "twitch", setup.stage = "found",
           NEW n \in 1..(Count + 1), PageAt(n), source.edges # <<>>
    PROVE  Head(source.edges) = n /\ n \in Records
<1>1. source \in TwitchSources /\ Count \in Nat /\ Records = 1..Count
  BY TwitchTyped
<1> DEFINE e == source.edges
<1>2. e \in Seq(Records) /\ e # <<>> /\ e = [j \in 1..Len(e) |-> n + j - 1]
      /\ n + Len(e) <= Count + 1
  BY <1>1 DEF PageAt, TwitchSources
<1> HIDE DEF e
<1>3. Len(e) \in Nat /\ Len(e) >= 1 /\ Head(e) = e[1] /\ n \in Nat /\ 1 \in 1..Len(e)
  BY <1>1, <1>2
<1>4. e[1] = n + 1 - 1
  BY <1>2, <1>3
<1>5. Head(e) = n /\ n \in Records
  BY <1>1, <1>2, <1>3, <1>4
<1> QED BY <1>5 DEF e

\* An edge is given out, passed over, counted or the end; then the next page is asked
\* for.
LEMMA TwitchEmitSound ==
    ASSUME DatedSound, DatedWorld, Proceeds, world.site = "twitch", run.pc # "setup",
           setup.stage = "found", ~LimitReached, TwitchEmit,
           run.pc = "timedout" => source.pc = "fetch"
    PROVE  DatedSound'
<1> DEFINE i == Head(source.edges)
           rest == Tail(source.edges)
           cursor == IF source.cursors THEN i ELSE source.cursor
<1>1. /\ source \in TwitchSources /\ state \in Diagnostics /\ world \in Worlds /\ state.loss \in Nat
      /\ Count \in Nat /\ Records = 1..Count
  BY TwitchTyped
<1>2. world' = world /\ window' = window /\ run' = run /\ setup' = setup /\ written' = written
      /\ Wanted' = Wanted /\ Count' = Count
  BY SameWorld DEF Proceeds, setupVars
<1>3. /\ source.pc = "emit" /\ run.pc # "timedout"
      /\ \/ /\ source.edges # <<>>
            /\ \/ /\ source' = [source EXCEPT !.edges = rest, !.cursor = cursor] /\ ready' = ready
                  /\ \/ EdgeDisposition(i) = "lost" /\ state' = [state EXCEPT !.loss = @ + 1]
                     \/ EdgeDisposition(i) = "skip" /\ state' = state
               \/ /\ EdgeDisposition(i) = "stop" /\ state' = state /\ ready' = ready
                  /\ source' = [source EXCEPT !.edges = rest, !.cursor = cursor, !.pc = "done"]
               \/ /\ EdgeDisposition(i) = "yield" /\ Yielded(i, state)
                  /\ source' = [source EXCEPT !.edges = rest, !.cursor = cursor]
         \/ /\ source.edges = <<>> /\ ready' = ready /\ source' = [source EXCEPT !.pc = "done"]
            /\ \/ ~source.more /\ state' = state
               \/ state' = [state EXCEPT !.reason = "pagination_stalled"]
         \/ /\ source.edges = <<>> /\ ready' = ready /\ state' = state /\ CursorMoved
            /\ source' = [source EXCEPT !.pc = "ask"]
  <2>1. [source EXCEPT !.edges = Tail(@), !.cursor = IF source.cursors THEN i ELSE @]
          = [source EXCEPT !.edges = rest, !.cursor = cursor]
    BY <1>1 DEF TwitchSources
  <2>2. [[source EXCEPT !.edges = rest, !.cursor = cursor] EXCEPT !.pc = "done"]
          = [source EXCEPT !.edges = rest, !.cursor = cursor, !.pc = "done"]
    BY <1>1 DEF TwitchSources
  <2> HIDE DEF rest, cursor
  <2> QED BY <2>1, <2>2 DEF TwitchEmit, Stalled
<1>4. PICK n \in 1..(Count + 1) : PageAt(n)
  BY <1>3, TwitchReason
<1>5. /\ source.cursor \in Nat /\ source.edges \in Seq(Records)
      /\ \A x \in ToSet(Given) : x \in Records
  <2>1. \A x \in ToSet(Given) : x \in Records
    BY GivenTyped DEF DatedSound, ToSet
  <2> QED BY <1>1, <2>1 DEF TwitchSources
<1>6. source.edges # <<>> => i = n /\ n \in Records /\ rest \in Seq(Records) /\ cursor \in Nat
  <2>1. source.edges # <<>> => rest \in Seq(Records)
    BY <1>5
  <2> QED BY <1>1, <1>4, <1>5, <2>1, HeadOfPage
<1> HIDE DEF rest
<1>7. CASE /\ source.edges # <<>>
           /\ source' = [source EXCEPT !.edges = rest, !.cursor = cursor] /\ ready' = ready
           /\ \/ EdgeDisposition(i) = "lost" /\ state' = [state EXCEPT !.loss = @ + 1]
              \/ EdgeDisposition(i) = "skip" /\ state' = state
  <2> DEFINE m == state.loss + 1
  <2>1. /\ state' \in Diagnostics /\ state'.reason = state.reason /\ state'.emitted = state.emitted
        /\ state'.loss \in Nat /\ state'.loss >= state.loss
        /\ EdgeDisposition(i) = "lost" => Lost'
    <3>1. m \in Nat /\ m > 0 /\ m >= state.loss
      BY <1>1
    <3>2. [state EXCEPT !.loss = @ + 1] = [state EXCEPT !.loss = m]
      BY <1>1 DEF Diagnostics
    <3> HIDE DEF m
    <3>3. CASE EdgeDisposition(i) = "lost" /\ state' = [state EXCEPT !.loss = m]
      BY <1>1, <3>1, <3>3 DEF Diagnostics, Lost
    <3>4. CASE EdgeDisposition(i) = "skip" /\ state' = state
      BY <1>1, <3>4
    <3> QED BY <1>7, <3>2, <3>3, <3>4
  <2>2. EdgeDisposition(i) \in {"lost", "skip"} /\ (EdgeDisposition(i) = "skip" => i \notin Wanted)
    BY <1>6, <1>7, DispositionIs
  <2> HIDE DEF cursor
  <2>3. /\ source' \in TwitchSources /\ source'.pc = "emit" /\ source'.edges = rest
        /\ source'.cursor = cursor /\ source'.cursors = source.cursors
        /\ source'.previous = source.previous /\ source'.more = source.more
    <3>1. source' \in TwitchSources
      BY <1>1, <1>6, <1>7 DEF TwitchSources
    <3> QED BY <1>1, <1>3, <1>7, <3>1 DEF TwitchSources
  <2>4. Given' = Given
    BY <1>2, <1>7 DEF Given
  <2>5. n + 1 \in 1..(Count + 1) /\ PageAt(n + 1)'
    BY <1>4, <1>6, <1>7, <2>1, <2>2, <2>3, <2>4, PageMoves DEF rest, cursor
  <2>6. TwitchReplaySound'
    BY <2>1, <2>3, <2>4, <2>5, TwitchReason, TwitchNext
  <2> QED BY <1>3, <1>7, <2>1, <2>3, <2>6, TwitchStepSound
<1>8. CASE /\ source.edges # <<>> /\ EdgeDisposition(i) = "stop" /\ state' = state /\ ready' = ready
           /\ source' = [source EXCEPT !.edges = rest, !.cursor = cursor, !.pc = "done"]
  <2> HIDE DEF cursor
  <2>1. source' \in TwitchSources /\ source'.pc = "done"
    <3>1. source' \in TwitchSources
      BY <1>1, <1>6, <1>8 DEF TwitchSources
    <3> QED BY <1>1, <1>8, <3>1 DEF TwitchSources
  <2>2. \A j \in Wanted : j < n
    BY <1>6, <1>8, DispositionIs
  <2>3. \A j \in Wanted : j \in Nat
    BY <1>1, TwitchWanted
  <2>4. Given' = Given
    BY <1>2, <1>8 DEF Given
  <2>5. TwitchDone'
    <3>1. run.pc = "loop" => \A j \in Wanted : Lost \/ j \in ToSet(Given)
      BY <1>4, <2>2, <2>3 DEF PageAt
    <3> QED BY <1>2, <1>8, <2>4, <3>1 DEF TwitchDone, Lost
  <2>6. TwitchReplaySound'
    BY <1>8, <2>1, <2>4, <2>5, TwitchReason, TwitchNext
  <2>7. state'.loss >= state.loss
    BY <1>1, <1>8
  <2> QED BY <1>1, <1>3, <1>8, <2>1, <2>6, <2>7, TwitchStepSound
<1>9. CASE /\ source.edges # <<>> /\ EdgeDisposition(i) = "yield" /\ Yielded(i, state)
           /\ source' = [source EXCEPT !.edges = rest, !.cursor = cursor]
  <2>1. i \in Wanted /\ Kind(i) = "chat"
    BY <1>6, <1>9, DispositionIs
  <2>2. \A x \in ToSet(Given) : x < i /\ x \in Records
    BY <1>4, <1>5, <1>6, <1>9 DEF PageAt
  <2>3. i \notin ToSet(Given)
    BY <1>1, <1>6, <1>9, <2>2
  <2>4. Given # <<>> => At(Given[Len(Given)]) <= At(i)
    <3> SUFFICES ASSUME Given # <<>> PROVE At(Given[Len(Given)]) <= At(i)
      OBVIOUS
    <3>1. Given \in Seq(Records)
      BY GivenTyped DEF DatedSound
    <3> DEFINE g == Given
    <3>2. g[Len(g)] \in ToSet(g)
      <4>1. g \in Seq(Records) /\ g # <<>>
        BY <3>1
      <4> HIDE DEF g
      <4>2. Len(g) \in DOMAIN g
        BY <4>1
      <4> QED BY <4>2 DEF ToSet
    <3> DEFINE x == g[Len(g)]
    <3>3. x < i /\ x \in Records /\ i \in Records
      BY <1>6, <1>9, <2>2, <3>2
    <3> HIDE DEF x, i
    <3>4. x <= i
      BY <1>1, <3>3
    <3>5. At(x) <= At(i)
      BY <1>1, <3>3, <3>4, InOrder
    <3> QED BY <3>5 DEF x
  <2>5. /\ Given' = Append(Given, i) /\ ToSet(Given') = ToSet(Given) \cup {i}
        /\ ready' \in Seq(Records) /\ state' \in Diagnostics /\ state'.loss = state.loss
        /\ state'.reason \in {state.reason} \cup Stops
        /\ GivenRight' /\ Limits'
    BY <1>9, <2>1, <2>3, <2>4, YieldStep
  <2> HIDE DEF cursor
  <2>6. /\ source' \in TwitchSources /\ source'.pc = "emit" /\ source'.edges = rest
        /\ source'.cursor = cursor /\ source'.cursors = source.cursors
        /\ source'.previous = source.previous /\ source'.more = source.more
    <3>1. source' \in TwitchSources
      BY <1>1, <1>6, <1>9 DEF TwitchSources
    <3> QED BY <1>1, <1>3, <1>9, <3>1 DEF TwitchSources
  <2>7. state'.loss \in Nat /\ state'.loss >= state.loss
    BY <1>1, <2>5
  <2>8. n + 1 \in 1..(Count + 1) /\ PageAt(n + 1)'
    BY <1>4, <1>6, <1>9, <2>5, <2>6, <2>7, PageMoves DEF rest, cursor
  <2>9. \A a, b \in DOMAIN Given' : a < b => (Given')[a] < (Given')[b]
    <3> DEFINE g == Given
               h == Given'
    <3>1. g \in Seq(Records) /\ h = Append(g, i) /\ \A a, b \in DOMAIN g : a < b => g[a] < g[b]
      BY <2>5, GivenTyped, TwitchReason DEF DatedSound
    <3>2. \A x \in ToSet(g) : x < i
      BY <2>2
    <3> HIDE DEF g, h, i
    <3>3. /\ Len(g) \in Nat /\ DOMAIN g = 1..Len(g) /\ DOMAIN h = 1..(Len(g) + 1)
          /\ h[Len(g) + 1] = i /\ \A a \in 1..Len(g) : h[a] = g[a] /\ g[a] < i
      <4>1. \A a \in DOMAIN g : g[a] < i
        BY <3>2 DEF ToSet
      <4> QED BY <3>1, <4>1
    <3>4. ASSUME NEW a \in DOMAIN h, NEW b \in DOMAIN h, a < b PROVE h[a] < h[b]
      <4>1. a \in 1..Len(g)
        BY <3>3, <3>4
      <4>2. b \in 1..Len(g) \/ b = Len(g) + 1
        BY <3>3
      <4> QED BY <3>1, <3>3, <3>4, <4>1, <4>2
    <3> QED BY <3>4 DEF h
  <2>10. TwitchReplaySound'
    BY <2>5, <2>6, <2>8, <2>9, TwitchReason, TwitchNext
  <2>11. ~Kick /\ KickReplaySound' /\ RecoverySound'
    BY <1>2 DEF KickReplaySound, RecoverySound, Kick
  <2> QED BY <1>3, <2>5, <2>6, <2>7, <2>10, <2>11, RetrieveStep
<1>10. CASE /\ source.edges = <<>> /\ ready' = ready /\ source' = [source EXCEPT !.pc = "done"]
            /\ \/ ~source.more /\ state' = state
               \/ state' = [state EXCEPT !.reason = "pagination_stalled"]
  <2>1. source' \in TwitchSources /\ source'.pc = "done"
    BY <1>1, <1>10 DEF TwitchSources
  <2>2. /\ state' \in Diagnostics /\ state'.loss = state.loss /\ state'.emitted = state.emitted
        /\ state'.reason \in Stops \/ (~source.more /\ state'.reason = state.reason)
    BY <1>1, <1>10, StalledIs
  <2>3. Given' = Given
    BY <1>2, <1>10 DEF Given
  <2>4. TwitchDone'
    <3>1. None \notin Stops
      BY Parameters DEF Stops, Reasons
    <3> SUFFICES ASSUME ~source.more, run.pc = "loop" PROVE \A j \in Wanted : Lost \/ j \in ToSet(Given)
      BY <1>2, <2>2, <2>3, <3>1 DEF TwitchDone, Lost
    <3>2. \A j \in Wanted : j \in 1..Count
      BY <1>1, TwitchWanted
    <3>3. n = Count + 1
      <4>1. n + Len(source.edges) = Count + 1 /\ Len(source.edges) = 0
        BY <1>4, <1>10 DEF PageAt
      <4> QED BY <1>1, <4>1
    <3> QED BY <1>1, <1>4, <3>2, <3>3 DEF PageAt
  <2>5. TwitchReplaySound'
    BY <2>1, <2>2, <2>3, <2>4, TwitchReason, TwitchNext
  <2>6. state'.loss >= state.loss
    BY <1>1, <2>2
  <2> QED BY <1>3, <1>10, <2>1, <2>2, <2>5, <2>6, TwitchStepSound
<1>11. CASE /\ source.edges = <<>> /\ ready' = ready /\ state' = state /\ CursorMoved
            /\ source' = [source EXCEPT !.pc = "ask"]
  <2>1. source' \in TwitchSources /\ source'.pc = "ask" /\ source'.cursor = source.cursor
    BY <1>1, <1>11 DEF TwitchSources
  <2>2. Given' = Given
    BY <1>2, <1>11 DEF Given
  <2>3. source.cursor = n - 1
    BY <1>4, <1>11 DEF PageAt, CursorMoved
  <2>4. TwitchAsks'
    <3>1. source.cursor <= Count
      BY <1>1, <2>3
    <3>2. \A x \in ToSet(Given) : x <= source.cursor
      BY <1>1, <1>4, <1>5, <2>3 DEF PageAt
    <3>3. \A x \in Wanted : x \in Nat
      BY <1>1, TwitchWanted
    <3>4. run.pc = "loop" => \A x \in Wanted : x > source.cursor \/ Lost \/ x \in ToSet(Given)
      BY <1>4, <2>3, <3>3 DEF PageAt
    <3> QED BY <1>2, <1>11, <2>1, <2>2, <3>1, <3>2, <3>4 DEF TwitchAsks, Lost
  <2>5. TwitchReplaySound'
    BY <1>11, <2>1, <2>2, <2>4, TwitchReason, TwitchNext
  <2>6. state'.loss >= state.loss
    BY <1>1, <1>11
  <2> QED BY <1>1, <1>3, <1>11, <2>1, <2>5, <2>6, TwitchStepSound
<1> QED BY <1>3, <1>7, <1>8, <1>9, <1>10, <1>11

\* Every step of the retrieval keeps the invariant.
LEMMA RetrieveSound ==
    ASSUME DatedSound, DatedWorld, Retrieve
    PROVE  DatedSound'
<1>1. /\ run.pc # "setup" /\ setup.stage = "found"
      /\ run.pc = "timedout" => source.pc = "fetch"
  BY AdvancesMeans DEF Retrieve
<1>2. Proceeds
  BY DEF Retrieve, Proceeds
<1>3. world.site \in {"kick", "backfill", "twitch"}
  BY World DEF DatedSound, ReplayTyped
<1>4. CASE LimitReached /\ source.pc = "emit"
  BY <1>1, <1>2, <1>4, StopClosed DEF Retrieve
<1>5. CASE ~(LimitReached /\ source.pc = "emit")
  <2>1. CASE world.site = "kick"
    BY <1>1, <1>2, <1>5, <2>1, KickRetrieves DEF Retrieve
  <2>2. CASE world.site = "backfill"
    BY <1>1, <1>2, <1>5, <2>2, BackfillRetrieves DEF Retrieve
  <2>3. CASE world.site = "twitch"
    <3>1. TwitchStep
      BY <1>5, <2>3 DEF Retrieve
    <3>2. CASE TwitchAsk \/ \E failure \in GqlOutcomes : TwitchRequestFails(failure)
      BY <1>1, <1>2, <2>3, <3>2, TwitchAskSound
    <3>3. CASE TwitchEmit
      <4>1. source.pc = "emit"
        BY <3>3 DEF TwitchEmit
      <4> QED BY <1>1, <1>2, <1>5, <2>3, <3>3, <4>1, TwitchEmitSound
    <3>4. ASSUME NEW first \in NextServed, NEW k \in 0..PageSize, NEW cursors \in BOOLEAN,
                 CanServe(first, k, cursors), TwitchPage(Served(first, k, cursors))
          PROVE  DatedSound'
      BY <1>1, <1>2, <2>3, <3>4, TwitchPageSound
    <3> QED BY <3>1, <3>2, <3>3, <3>4 DEF TwitchStep
  <2> QED BY <1>3, <2>1, <2>2, <2>3
<1> QED BY <1>4, <1>5

-----------------------------------------------------------------------------
(* The set-up.                                                             *)

\* What the website says about a clip.
LEMMA WebClipTyped ==
    ASSUME world \in Worlds, world.site = "kick", world.source = "clip", NEW clip \in WebClips
    PROVE  /\ clip.channel \in Int \cup {None} /\ clip.duration \in Nat \cup {None}
           /\ clip.offset \in Nat \cup {None}
<1>1. world.offset \in Nat /\ world.duration \in Nat /\ world.length \in Nat
  BY World
<1> DEFINE Typed == /\ clip.channel \in Int \cup {None} /\ clip.duration \in Nat \cup {None}
                    /\ clip.offset \in Nat \cup {None}
           wrong == [object |-> FALSE, same |-> FALSE, vod |-> "none", channel |-> None,
                     duration |-> None, offset |-> None]
           c6 == [RightClip EXCEPT !.duration = @ + 1]
           c7 == [RightClip EXCEPT !.offset = world.length + 1]
<1>2. clip \in OneWrong(RightClip, wrong) => Typed
  BY <1>1 DEF OneWrong, RightClip
<1>3. clip = [RightClip EXCEPT !.vod = "bad"] \/ clip = [RightClip EXCEPT !.channel = 2] => Typed
  BY <1>1 DEF RightClip
<1>4. clip = [RightClip EXCEPT !.channel = Conflict] \/
      clip = [RightClip EXCEPT !.vod = "none", !.channel = Conflict] => Typed
  <2>1. Conflict \in Int
    BY DEF Conflict
  <2> QED BY <1>1, <2>1 DEF RightClip
<1>5. clip = [RightClip EXCEPT !.vod = "none", !.duration = None] => Typed
  BY <1>1 DEF RightClip
<1>6. clip = c6 \/ clip = c7 => Typed
  BY <1>1 DEF RightClip
<1>7. \/ clip \in OneWrong(RightClip, wrong)
      \/ clip = [RightClip EXCEPT !.vod = "bad"] \/ clip = [RightClip EXCEPT !.channel = 2]
      \/ clip = [RightClip EXCEPT !.channel = Conflict] \/
         clip = [RightClip EXCEPT !.vod = "none", !.channel = Conflict]
      \/ clip = [RightClip EXCEPT !.vod = "none", !.duration = None]
      \/ clip = c6 \/ clip = c7
  BY DEF WebClips
<1> HIDE DEF Typed
<1>8. Typed
  BY <1>2, <1>3, <1>4, <1>5, <1>6, <1>7
<1> QED BY <1>8 DEF Typed

LEMMA MobileClipTyped ==
    ASSUME world \in Worlds, world.site = "kick", world.source = "clip", NEW mobile \in MobileClips
    PROVE  mobile.channel \in Int \cup {None} /\ mobile.duration \in Int \cup {None}
<1>1. world.duration \in Nat
  BY World
<1> QED BY <1>1 DEF MobileClips, OneWrong, RightMobile

LEMMA VodTyped ==
    ASSUME NEW vod \in Vods
    PROVE  vod.channel \in Int \cup {None}
  BY DEF Vods, OneWrong, RightVod

\* A window that is clamped to the recording lies in the part that is reported.
LEMMA VodWindowFits ==
    ASSUME world \in Worlds, world.site = "kick", NEW offset, NEW duration,
           \/ world.source = "vod" /\ offset = None
           \/ /\ world.source = "clip" /\ offset \in Nat /\ offset <= world.length
              /\ duration \in Nat
    PROVE  LET w == VodWindow(offset, duration)
           IN  /\ w \in Windows /\ w.to # None /\ w.end # None
               /\ w.start <= w.from - w.origin /\ w.to - w.origin <= w.end
               /\ world.source = "vod" => w.from = Begins(world)
<1> DEFINE first == IF offset = None THEN Bound(world.start, 0)
                    ELSE offset + Clamp(Bound(world.start, 0), duration)
           last == IF offset = None THEN Bound(world.end, world.length)
                   ELSE offset + Clamp(Bound(world.end, duration), duration)
           from == world.began + Clamp(first, world.length)
           to == world.began + Clamp(last, world.length)
           origin == world.began + Bound(offset, 0)
           start == IF offset = None THEN from - origin ELSE Max({0, from - origin})
           end == IF offset = None THEN to - origin ELSE Max({0, to - origin})
<1>1. /\ world.began \in Int /\ world.length \in Nat
      /\ world.start \in Int \cup {None} /\ world.end \in Int \cup {None}
  BY World
<1>2. None \notin Int
  BY Parameters
<1>0. \A x \in Int : /\ Clamp(x, world.length) \in Nat /\ Clamp(x, world.length) \in Int
                     /\ \A o \in Nat : x >= o /\ o <= world.length => Clamp(x, world.length) >= o
  <2> SUFFICES ASSUME NEW x \in Int
               PROVE  /\ Clamp(x, world.length) \in Nat /\ Clamp(x, world.length) \in Int
                      /\ \A o \in Nat : x >= o /\ o <= world.length => Clamp(x, world.length) >= o
    OBVIOUS
  <2> DEFINE m == world.length
             c == Clamp(x, m)
  <2>1. m \in Nat
    BY <1>1
  <2> HIDE DEF first, last, from, to, origin, start, end, m
  <2>2. c = (IF x < 0 THEN 0 ELSE IF x > m THEN m ELSE x) /\ c \in Nat
    BY <2>1, Clamped
  <2> HIDE DEF c
  <2>3. c \in Int /\ \A o \in Nat : x >= o /\ o <= m => c >= o
    BY <2>1, <2>2
  <2> QED BY <2>2, <2>3 DEF c, m
<1>3. CASE world.source = "vod" /\ offset = None
  <2>1. first \in Int /\ last \in Int
    BY <1>1, <1>3 DEF Bound
  <2> HIDE DEF first, last
  <2>2. Clamp(first, world.length) \in Int /\ Clamp(last, world.length) \in Int
    BY <1>0, <2>1
  <2>3. from \in Int /\ to \in Int /\ origin \in Int /\ start = from - origin /\ end = to - origin
    BY <1>1, <1>3, <2>2 DEF Bound
  <2>4. from = Begins(world)
    BY <1>3 DEF Begins, first
  <2> HIDE DEF from, to, origin, start, end
  <2>5. start \in Int /\ end \in Int /\ start <= from - origin /\ to - origin <= end
    BY <2>3
  <2>6. to # None /\ end # None
    BY <1>2, <2>3, <2>5
  <2>7. VodWindow(offset, duration)
          = [from |-> from, to |-> to, origin |-> origin, start |-> start, end |-> end]
    BY DEF VodWindow, first, last, from, to, origin, start, end
  <2> QED BY <2>3, <2>4, <2>5, <2>6, <2>7 DEF Windows
<1>4. CASE /\ world.source = "clip" /\ offset \in Nat /\ offset <= world.length
           /\ duration \in Nat
  <2>1. offset # None
    BY <1>2, <1>4
  <2> DEFINE b == Bound(world.start, 0)
             c == Bound(world.end, duration)
  <2>2. b \in Int /\ c \in Int
    BY <1>1, <1>4 DEF Bound
  <2> HIDE DEF b, c
  <2>3. Clamp(b, duration) \in Nat /\ Clamp(c, duration) \in Nat
    BY <1>4, <2>2, Clamped
  <2>4. first = offset + Clamp(b, duration) /\ last = offset + Clamp(c, duration)
    BY <2>1 DEF b, c
  <2> HIDE DEF first, last
  <2>5. first \in Int /\ last \in Int /\ first >= offset /\ last >= offset
    BY <1>4, <2>3, <2>4
  <2>6. /\ Clamp(first, world.length) \in Nat /\ Clamp(first, world.length) >= offset
        /\ Clamp(last, world.length) \in Nat /\ Clamp(last, world.length) >= offset
    BY <1>0, <1>4, <2>5
  <2>7. origin = world.began + offset
    BY <2>1 DEF Bound
  <2>8. /\ from \in Int /\ to \in Int /\ origin \in Int /\ from - origin >= 0 /\ to - origin >= 0
        /\ from - origin \in Int /\ to - origin \in Int
    BY <1>1, <1>4, <2>6, <2>7
  <2>9. start = Max({0, from - origin}) /\ end = Max({0, to - origin})
    BY <2>1
  <2> HIDE DEF from, to, origin, start, end
  <2>10. start = from - origin /\ end = to - origin
    <3>1. \A x \in Int : x >= 0 => Max({0, x}) = x
      BY MaxOfTwo
    <3> QED BY <2>8, <2>9, <3>1
  <2>11. start \in Int /\ end \in Int /\ start <= from - origin /\ to - origin <= end
    BY <2>8, <2>10
  <2>12. to # None /\ end # None
    BY <1>2, <2>8, <2>11
  <2>13. VodWindow(offset, duration)
          = [from |-> from, to |-> to, origin |-> origin, start |-> start, end |-> end]
    BY DEF VodWindow, first, last, from, to, origin, start, end
  <2> QED BY <1>4, <2>8, <2>11, <2>12, <2>13 DEF Windows
<1> QED BY <1>3, <1>4

\* So does the window of a clip that tells when it began.
LEMMA MobileWindowFits ==
    ASSUME world \in Worlds, world.site = "kick", world.source = "clip", NEW duration \in Nat
    PROVE  LET w == MobileWindow(duration)
           IN  /\ w \in Windows /\ w.to # None /\ w.end # None
               /\ w.start <= w.from - w.origin /\ w.to - w.origin <= w.end
<1> DEFINE origin == world.began + world.offset
           b == Bound(world.start, 0)
           c == Bound(world.end, duration)
           start == Clamp(b, duration)
           end == Clamp(c, duration)
<1>1. /\ world.began \in Int /\ world.offset \in Nat
      /\ world.start \in Int \cup {None} /\ world.end \in Int \cup {None}
  BY World
<1>2. b \in Int /\ c \in Int /\ origin \in Int
  BY <1>1 DEF Bound
<1>3. MobileWindow(duration) = [from |-> origin + start, to |-> origin + end, origin |-> origin,
                                start |-> start, end |-> end]
  BY DEF MobileWindow
<1> HIDE DEF b, c, origin
<1>4. start \in Nat /\ end \in Nat
  BY <1>2, Clamped
<1> HIDE DEF start, end
<1>5. /\ origin + start \in Int /\ origin + end \in Int
      /\ start <= (origin + start) - origin /\ (origin + end) - origin <= end
  BY <1>2, <1>4
<1>6. origin + end # None /\ end # None
  BY <1>4, <1>5, Parameters
<1> QED BY <1>2, <1>3, <1>4, <1>5, <1>6 DEF Windows

\* And the window of a Twitch recording or clip.
LEMMA TwitchWindowFits ==
    ASSUME world \in Worlds, world.site = "twitch"
    PROVE  LET w == TwitchWindow
           IN  /\ w \in Windows /\ w.start <= w.from - w.origin
               /\ w.end # None => w.to # None /\ w.to - w.origin <= w.end
<1> DEFINE start == Bound(world.start, 0)
           clip == world.source = "clip" /\ world.offset # None
           origin == IF clip THEN world.offset ELSE 0
           end == IF clip THEN Bound(world.end, world.duration) ELSE world.end
           to == IF end = None THEN None ELSE origin + end
<1>1. /\ world.offset \in Nat \cup {None} /\ world.duration \in Nat \cup {None}
      /\ world.start \in Int \cup {None} /\ world.end \in Int \cup {None}
  BY World
<1>2. start \in Int /\ origin \in Int /\ end \in Int \cup {None}
  BY <1>1 DEF Bound
<1>3. TwitchWindow = [origin |-> origin, start |-> start, end |-> end, from |-> origin + start,
                      to |-> to]
  BY DEF TwitchWindow
<1> HIDE DEF start, clip, origin, end
<1>4. /\ origin + start \in Int /\ start <= (origin + start) - origin
      /\ end # None => /\ origin + end \in Int /\ (origin + end) - origin <= end
  BY <1>2
<1>5. to \in Int \cup {None} /\ (end # None => to # None /\ to - origin <= end)
  BY <1>2, <1>4, Parameters
<1> HIDE DEF to
<1> QED BY <1>2, <1>3, <1>4, <1>5 DEF Windows

\* Until the set-up is over nothing else moves.
LEMMA SetUpNext ==
    ASSUME DatedSound, run.pc = "setup", UNCHANGED <<world, cancelled, sourceVars, run, written>>,
           SetupTyped', window' \in Windows \cup {None},
           setup'.stage # "found" => window' = None,
           setup'.stage = "found" => WindowFits',
           world.site = "kick" => RightlyTold', world.site # "kick" => told' = NothingTold,
           world.site = "backfill" => setup'.stage # "failed"
    PROVE  DatedSound'
<1>1. /\ world' = world /\ cancelled' = cancelled /\ source' = source /\ state' = state
      /\ ready' = ready /\ run' = run /\ written' = written
  BY DEF sourceVars
<1>2. /\ source = (IF Kick THEN KickStart ELSE TwitchStart) /\ state = NoState
      /\ ready = <<>> /\ written = <<>>
  BY DEF DatedSound, SettingUp
<1>3. /\ Records' = Records /\ (Kick' <=> Kick) /\ KickStart' = KickStart /\ TwitchStart' = TwitchStart
      /\ NoState' = NoState /\ NothingTold' = NothingTold /\ Count' = Count
  BY <1>1 DEF Records, Kick, KickStart, TwitchStart, NoState, NothingTold, Count
<1>4. Given' = <<>> /\ ToSet(<<>>) = {} /\ IsInjective(<<>>) /\ DOMAIN <<>> = {}
  <2>1. <<>> \o <<>> = <<>> /\ DOMAIN <<>> = {}
    OBVIOUS
  <2>2. Given' = <<>>
    BY <1>1, <1>2, <2>1 DEF Given
  <2>3. ToSet(<<>>) = {} /\ IsInjective(<<>>)
    BY Single
  <2> QED BY <2>1, <2>2, <2>3
<1>5. GivenRight'
  BY <1>4 DEF GivenRight
<1>6. Limits'
  BY <1>1 DEF DatedSound, Limits
<1>7. None \notin Stops /\ None # "completed" /\ None # "empty_window"
  BY Parameters DEF Stops, Reasons
<1>8. KickReplaySound'
  BY <1>1, <1>2, <1>4, <1>7 DEF KickReplaySound, KickStart, NoState, Kick
<1>9. TwitchReplaySound'
  <2>1. world.site = "twitch" => source.pc = "ask" /\ source.cursor = 0 /\ Count \in Nat
    <3>1. Count \in Nat
      BY RecordsAre DEF DatedSound, ReplayTyped
    <3> QED BY <1>2, <3>1 DEF TwitchStart, Kick
  <2> QED BY <1>1, <1>2, <1>3, <1>4, <1>7, <2>1 DEF TwitchReplaySound, NoState
<1>10. RecoverySound'
  BY <1>1, <1>2, <1>4 DEF DatedSound, RecoverySound, KickStart, Kick, NoState
<1>11. Claims'
  BY <1>1, <1>2 DEF DatedSound, Claims
<1>12. ReplayTyped'
  <2>1. KickSources' = KickSources /\ TwitchSources' = TwitchSources
    BY <1>3 DEF KickSources, TwitchSources
  <2> QED BY <1>1, <1>3, <2>1 DEF DatedSound, ReplayTyped
<1>13. SettingUp'
  BY <1>1, <1>2, <1>3 DEF DatedSound, SettingUp
<1> QED BY <1>5, <1>6, <1>8, <1>9, <1>10, <1>11, <1>12, <1>13 DEF DatedSound

\* The set-up of a Kick download, as far as it is.
KickSettled ==
    /\ SetupTyped /\ RightlyTold /\ window \in Windows \cup {None}
    /\ setup.stage # "found" => window = None
    /\ setup.stage = "found" => WindowFits

KickSettling ==
    /\ world \in Worlds /\ world.site = "kick" /\ KickSettled
    /\ setup.stage \notin {"found", "failed"} /\ world' = world

\* What is known of a set-up that is under way.
LEMMA SettlingIs ==
    ASSUME KickSettling
    PROVE  /\ setup \in [stage : Stages, attempt : Nat, clip : Clips, channel : Int \cup {None},
                         duration : Int \cup {None}]
           /\ told \in [channels : SUBSET Int, durations : SUBSET Int]
           /\ Clips' = Clips /\ NoClip' = NoClip /\ NothingTold' = NothingTold /\ window = None
<1>1. WebClips' = WebClips
  BY DEF KickSettling, WebClips, RightClip, OneWrong, Conflict
<1> QED BY <1>1 DEF KickSettling, KickSettled, SetupTyped, Clips, NoClip, NothingTold

\* The set-up fails.
LEMMA GivesUpSound ==
    ASSUME KickSettling, GivesUp
    PROVE  KickSettled'
<1>1. setup' = [setup EXCEPT !.stage = "failed", !.attempt = 1] /\ window' = None /\ told' = told
  BY SettlingIs DEF GivesUp, Goes
<1>2. setup' \in [stage : Stages, attempt : Nat, clip : Clips, channel : Int \cup {None},
                  duration : Int \cup {None}] /\ setup'.stage = "failed"
  <2> HIDE DEF Clips
  <2> QED BY <1>1, SettlingIs DEF Stages
<1>3. SetupTyped'
  BY <1>1, <1>2, SettlingIs DEF SetupTyped
<1>4. RightlyTold'
  BY <1>2 DEF RightlyTold
<1> QED BY <1>1, <1>2, <1>3, <1>4 DEF KickSettled

\* The next endpoint is asked, with what was accepted so far.
LEMMA FetchesSound ==
    ASSUME KickSettling, NEW stage \in {"legacyVod", "channel", "webVod"},
           setup.stage \in {"legacyVod", "channel", "webVod"}, Fetches(stage)
    PROVE  KickSettled'
<1>1. /\ setup' = [setup EXCEPT !.stage = stage, !.attempt = 1] /\ window' = None /\ told' = told
      /\ world' = world
  BY SettlingIs DEF Fetches, Goes, KickSettling
<1>2. /\ setup' \in [stage : Stages, attempt : Nat, clip : Clips, channel : Int \cup {None},
                     duration : Int \cup {None}]
      /\ setup'.stage = stage /\ setup'.clip = setup.clip
  BY <1>1, SettlingIs DEF Stages
<1>3. SetupTyped'
  BY <1>1, <1>2, SettlingIs DEF SetupTyped
<1>4. \/ setup.clip = NoClip /\ told = NothingTold /\ world.source = "vod"
      \/ /\ setup.clip # NoClip /\ world.source = "clip"
         /\ setup.clip.offset \in Nat /\ setup.clip.duration \in Nat
         /\ told = [channels |-> {setup.clip.channel}, durations |-> {setup.clip.duration}]
  BY DEF KickSettling, KickSettled, RightlyTold
<1>5. \/ setup'.clip = NoClip /\ told' = NothingTold /\ world'.source = "vod"
      \/ /\ setup'.clip # NoClip /\ world'.source = "clip"
         /\ setup'.clip.offset \in Nat /\ setup'.clip.duration \in Nat
         /\ told' = [channels |-> {setup'.clip.channel}, durations |-> {setup'.clip.duration}]
  BY <1>1, <1>2, <1>4
<1>6. RightlyTold'
  BY <1>2, <1>5, SettlingIs DEF RightlyTold
<1>7. setup'.stage # "found"
  BY <1>2
<1> QED BY <1>1, <1>3, <1>6, <1>7 DEF KickSettled

\* The mobile endpoint is asked, with what the website said.
LEMMA AsksMobileSound ==
    ASSUME KickSettling, NEW channel \in Int \cup {None}, NEW duration \in Int \cup {None},
           world.source = "clip", AsksMobile(channel, duration)
    PROVE  KickSettled'
<1>1. /\ setup' = [setup EXCEPT !.stage = "mobileClip", !.attempt = 1, !.channel = channel,
                                !.duration = duration]
      /\ told' = [channels |-> {channel} \ {None}, durations |-> {duration} \ {None}]
      /\ window' = None /\ world' = world
  BY SettlingIs DEF AsksMobile, KickSettling
<1>2. /\ setup' \in [stage : Stages, attempt : Nat, clip : Clips, channel : Int \cup {None},
                     duration : Int \cup {None}]
      /\ setup'.stage = "mobileClip" /\ setup'.channel = channel /\ setup'.duration = duration
  BY <1>1, SettlingIs DEF Stages
<1>3. told' \in [channels : SUBSET Int, durations : SUBSET Int]
  BY <1>1
<1>4. SetupTyped'
  BY <1>2, <1>3, SettlingIs DEF SetupTyped
<1>5. RightlyTold'
  BY <1>1, <1>2 DEF RightlyTold
<1> QED BY <1>1, <1>2, <1>4, <1>5 DEF KickSettled

\* The recording is found, and what found it agrees with all that was accepted.
LEMMA FindsSound ==
    ASSUME KickSettling, NEW channel \in Int, NEW duration \in Int \cup {None},
           NEW w \in Windows, w.to # None, w.end # None, w.start <= w.from - w.origin,
           w.to - w.origin <= w.end, world.source = "vod" => w.from = Begins(world),
           told.channels \subseteq {channel}, told.durations \subseteq {duration},
           Finds(w, channel, duration)
    PROVE  KickSettled'
<1>1. /\ setup' = [setup EXCEPT !.stage = "found", !.attempt = 1] /\ window' = w /\ world' = world
      /\ told' = [channels |-> told.channels \cup {channel},
                  durations |-> told.durations \cup ({duration} \ {None})]
  BY DEF Finds, Goes, KickSettling
<1>2. /\ setup' \in [stage : Stages, attempt : Nat, clip : Clips, channel : Int \cup {None},
                     duration : Int \cup {None}]
      /\ setup'.stage = "found"
  BY <1>1, SettlingIs DEF Stages
<1>3. told.channels \in SUBSET Int /\ told.durations \in SUBSET Int
  BY SettlingIs
<1>4. told' \in [channels : SUBSET Int, durations : SUBSET Int]
  BY <1>1, <1>3
<1>5. SetupTyped'
  BY <1>2, <1>4, SettlingIs DEF SetupTyped
<1>6. told'.channels = {channel} /\ (told'.durations = {} \/ told'.durations = {duration})
  BY <1>1
<1>7. Cardinality(told'.channels) <= 1 /\ Cardinality(told'.durations) <= 1
  <2>1. Cardinality({}) = 0 /\ Cardinality({channel}) = 1 /\ Cardinality({duration}) = 1
    BY FS_EmptySet, FS_Singleton
  <2>2. Cardinality(told'.channels) = 1
    BY <1>6, <2>1, Zenon
  <2>3. Cardinality(told'.durations) = 0 \/ Cardinality(told'.durations) = 1
    BY <1>6, <2>1, Zenon
  <2> QED BY <2>2, <2>3
<1>8. RightlyTold'
  BY <1>2, <1>7 DEF RightlyTold
<1>9. WindowFits'
  <2>1. world'.site = "kick" /\ Begins(world)' = Begins(world)
    BY <1>1 DEF KickSettling, Begins
  <2> QED BY <1>1, <2>1 DEF WindowFits, Kick
<1> QED BY <1>1, <1>2, <1>5, <1>8, <1>9 DEF KickSettled

\* What a clip that led to its recording said.
LEMMA LedBy ==
    ASSUME KickSettling, setup.stage \in {"legacyVod", "channel", "webVod"}
    PROVE  \/ setup.clip = NoClip /\ told = NothingTold /\ world.source = "vod"
           \/ /\ setup.clip # NoClip /\ world.source = "clip" /\ setup.clip \in WebClips
              /\ setup.clip.offset \in Nat /\ setup.clip.duration \in Nat
              /\ setup.clip.channel \in Int \cup {None}
              /\ told = [channels |-> {setup.clip.channel}, durations |-> {setup.clip.duration}]
<1>1. \/ setup.clip = NoClip /\ told = NothingTold /\ world.source = "vod"
      \/ /\ setup.clip # NoClip /\ world.source = "clip"
         /\ setup.clip.offset \in Nat /\ setup.clip.duration \in Nat
         /\ told = [channels |-> {setup.clip.channel}, durations |-> {setup.clip.duration}]
  BY DEF KickSettling, KickSettled, RightlyTold
<1>2. setup.clip \in Clips
  BY SettlingIs
<1>3. setup.clip # NoClip => setup.clip \in WebClips
  BY <1>2 DEF Clips
<1>4. world.source = "clip" => \A clip \in WebClips : clip.channel \in Int \cup {None}
  BY WebClipTyped DEF KickSettling
<1> QED BY <1>1, <1>3, <1>4

\* A clip's recording that cannot be read leaves the clip's own endpoint.
LEMMA VodFailsSound ==
    ASSUME KickSettling, setup.stage \in {"legacyVod", "channel", "webVod"}, NEW error,
           VodFails(error)
    PROVE  KickSettled'
<1>1. CASE GivesUp
  BY <1>1, GivesUpSound
<1>2. CASE setup.clip # NoClip /\ AsksMobile(setup.clip.channel, setup.clip.duration)
  <2>1. /\ world.source = "clip" /\ setup.clip.channel \in Int \cup {None}
        /\ setup.clip.duration \in Int \cup {None}
    BY <1>2, LedBy
  <2> QED BY <1>2, <2>1, AsksMobileSound
<1> QED BY <1>1, <1>2 DEF VodFails

\* An endpoint gives up.
LEMMA StageFailsSound ==
    ASSUME KickSettling, NEW error, StageFails(error)
    PROVE  KickSettled'
<1>1. CASE setup.stage = "webClip"
  <2>1. world.source = "clip"
    BY <1>1 DEF KickSettling, KickSettled, RightlyTold
  <2>2. AsksMobile(None, None) \/ GivesUp
    BY <1>1 DEF StageFails
  <2> QED BY <2>1, <2>2, AsksMobileSound, GivesUpSound
<1>2. CASE setup.stage = "mobileClip"
  <2>1. GivesUp
    BY <1>2 DEF StageFails
  <2> QED BY <2>1, GivesUpSound
<1>3. CASE setup.stage \in {"legacyVod", "channel", "webVod"}
  <2>1. Fetches("channel") \/ VodFails(error)
    BY <1>3 DEF StageFails
  <2> QED BY <1>3, <2>1, FetchesSound, VodFailsSound
<1> QED BY <1>1, <1>2, <1>3 DEF StageFails

\* A request of the set-up that fails.
LEMMA SetupFetchFailsSound ==
    ASSUME KickSettling, NEW failure, SetupFetchFails(failure)
    PROVE  KickSettled'
<1>1. CASE setup' = [setup EXCEPT !.attempt = @ + 1] /\ UNCHANGED <<window, told>>
  <2>1. setup.attempt + 1 \in Nat /\ window' = None /\ world' = world /\ told' = told
    BY <1>1, SettlingIs DEF KickSettling
  <2>2. /\ setup' \in [stage : Stages, attempt : Nat, clip : Clips, channel : Int \cup {None},
                       duration : Int \cup {None}]
        /\ setup'.stage = setup.stage /\ setup'.clip = setup.clip
        /\ setup'.channel = setup.channel /\ setup'.duration = setup.duration
    BY <1>1, <2>1, SettlingIs
  <2>3. SetupTyped'
    BY <2>1, <2>2, SettlingIs DEF SetupTyped
  <2>4. setup.stage \notin {"found", "failed"} /\ RightlyTold
    BY DEF KickSettling, KickSettled
  <2>5. RightlyTold'
    BY <2>1, <2>2, <2>4, SettlingIs DEF RightlyTold
  <2> QED BY <2>1, <2>2, <2>3, <2>4, <2>5 DEF KickSettled
<1> QED BY <1>1, StageFailsSound DEF SetupFetchFails

\* The website answers about a clip: what it says is taken whole, in part or not at all.
LEMMA WebClipAnswersSound ==
    ASSUME KickSettling, NEW clip \in WebClips, WebClipAnswers(clip)
    PROVE  KickSettled'
<1>1. world.source = "clip" /\ setup.stage = "webClip"
  BY DEF KickSettling, KickSettled, RightlyTold, WebClipAnswers
<1>2. /\ clip.channel \in Int \cup {None} /\ clip.duration \in Nat \cup {None}
      /\ clip.offset \in Nat \cup {None}
  BY <1>1, WebClipTyped DEF KickSettling
<1>3. CASE GivesUp
  BY <1>3, GivesUpSound
<1>4. CASE AsksMobile(None, None) \/ AsksMobile(clip.channel, clip.duration)
  <2>1. None \in Int \cup {None} /\ clip.duration \in Int \cup {None}
    BY <1>2
  <2> QED BY <1>1, <1>2, <1>4, <2>1, AsksMobileSound
<1>5. CASE /\ clip.object /\ clip.channel # None /\ clip.duration # None /\ clip.offset # None
           /\ setup' = [setup EXCEPT !.stage = "legacyVod", !.attempt = 1, !.clip = clip]
           /\ told' = [channels |-> {clip.channel}, durations |-> {clip.duration}]
           /\ UNCHANGED window
  <2>1. clip \in Clips /\ clip # NoClip
    BY <1>1, <1>5 DEF Clips, KickSettling, NoClip
  <2>2. /\ setup' \in [stage : Stages, attempt : Nat, clip : Clips, channel : Int \cup {None},
                       duration : Int \cup {None}]
        /\ setup'.stage = "legacyVod" /\ setup'.clip = clip
    BY <1>5, <2>1, SettlingIs DEF Stages
  <2>3. clip.channel \in Int /\ clip.duration \in Nat /\ clip.offset \in Nat
    BY <1>2, <1>5
  <2>4. told' \in [channels : SUBSET Int, durations : SUBSET Int]
    BY <1>5, <2>3
  <2>5. SetupTyped'
    BY <2>2, <2>4, SettlingIs DEF SetupTyped
  <2>6. world' = world /\ window' = None
    BY <1>5, SettlingIs DEF KickSettling
  <2>7. /\ setup'.clip # NoClip' /\ world'.source = "clip"
        /\ setup'.clip.offset \in Nat /\ setup'.clip.duration \in Nat
        /\ told' = [channels |-> {setup'.clip.channel}, durations |-> {setup'.clip.duration}]
    BY <1>1, <1>5, <2>1, <2>2, <2>3, <2>6, SettlingIs
  <2>8. RightlyTold'
    BY <2>2, <2>7 DEF RightlyTold
  <2> QED BY <2>2, <2>5, <2>6, <2>8 DEF KickSettled
<1> QED BY <1>3, <1>4, <1>5 DEF WebClipAnswers

\* The mobile endpoint must not contradict the website.
LEMMA MobileClipAnswersSound ==
    ASSUME KickSettling, NEW mobile \in MobileClips, MobileClipAnswers(mobile)
    PROVE  KickSettled'
<1>1. CASE GivesUp
  BY <1>1, GivesUpSound
<1>2. CASE /\ setup.stage = "mobileClip" /\ mobile.channel # None /\ mobile.duration # None
           /\ Agrees(mobile)
           /\ Finds(MobileWindow(mobile.duration), mobile.channel, mobile.duration)
  <2>1. /\ world.source = "clip" /\ world \in Worlds /\ world.site = "kick"
        /\ told = [channels |-> {setup.channel} \ {None}, durations |-> {setup.duration} \ {None}]
    BY <1>2 DEF KickSettling, KickSettled, RightlyTold
  <2>2. mobile.channel \in Int /\ mobile.duration \in Nat
    <3>1. world.duration \in Nat
      BY <2>1, World
    <3>2. mobile.channel \in Int \cup {None} /\ mobile.duration \in Nat \cup {None}
      BY <3>1 DEF MobileClips, OneWrong, RightMobile
    <3> QED BY <1>2, <3>2
  <2>3. told.channels \subseteq {mobile.channel} /\ told.durations \subseteq {mobile.duration}
    BY <1>2, <2>1 DEF Agrees
  <2> DEFINE w == MobileWindow(mobile.duration)
  <2>4. /\ w \in Windows /\ w.to # None /\ w.end # None
        /\ w.start <= w.from - w.origin /\ w.to - w.origin <= w.end
    BY <2>1, <2>2, MobileWindowFits
  <2>5. Finds(w, mobile.channel, mobile.duration)
    BY <1>2
  <2>6. world.source # "vod" /\ mobile.duration \in Int \cup {None}
    BY <2>1, <2>2
  <2> HIDE DEF w
  <2> QED BY <2>2, <2>3, <2>4, <2>5, <2>6, FindsSound
<1> QED BY <1>1, <1>2 DEF MobileClipAnswers

\* A clip's recording must be of the clip's channel and hold the clip.
LEMMA VodFoundSound ==
    ASSUME KickSettling, setup.stage \in {"legacyVod", "channel", "webVod"}, NEW vod \in Vods,
           VodFound(vod)
    PROVE  KickSettled'
<1>0. world \in Worlds /\ world.site = "kick"
  BY DEF KickSettling
<1>1. CASE VodFails("refused")
  BY <1>1, VodFailsSound
<1>2. CASE GivesUp
  BY <1>2, GivesUpSound
<1>3. CASE /\ vod.channel # None /\ setup.clip = NoClip
           /\ Finds(VodWindow(None, None), vod.channel, None)
  <2>1. told = NothingTold /\ world.source = "vod"
    BY <1>3, LedBy
  <2>2. vod.channel \in Int
    BY <1>3, VodTyped
  <2> DEFINE w == VodWindow(None, None)
  <2>3. /\ w \in Windows /\ w.to # None /\ w.end # None
        /\ w.start <= w.from - w.origin /\ w.to - w.origin <= w.end
        /\ w.from = Begins(world)
    BY <1>0, <2>1, VodWindowFits
  <2>4. /\ Finds(w, vod.channel, None) /\ None \in Int \cup {None}
        /\ told.channels \subseteq {vod.channel} /\ told.durations \subseteq {None}
    BY <1>3, <2>1 DEF NothingTold
  <2> HIDE DEF w
  <2> QED BY <2>2, <2>3, <2>4, FindsSound
<1>4. CASE /\ vod.channel # None /\ setup.clip # NoClip /\ vod.channel = setup.clip.channel
           /\ InsideVod(setup.clip)
           /\ Finds(VodWindow(setup.clip.offset, setup.clip.duration), vod.channel,
                    setup.clip.duration)
  <2> DEFINE w == VodWindow(setup.clip.offset, setup.clip.duration)
  <2>1. /\ told = [channels |-> {setup.clip.channel}, durations |-> {setup.clip.duration}]
        /\ world.source = "clip" /\ setup.clip.offset \in Nat /\ setup.clip.duration \in Nat
        /\ setup.clip.offset <= world.length
    BY <1>4, LedBy DEF InsideVod
  <2>2. vod.channel \in Int
    BY <1>4, VodTyped
  <2>3. /\ w \in Windows /\ w.to # None /\ w.end # None
        /\ w.start <= w.from - w.origin /\ w.to - w.origin <= w.end
    BY <1>0, <2>1, VodWindowFits
  <2>4. /\ Finds(w, vod.channel, setup.clip.duration) /\ setup.clip.duration \in Int \cup {None}
        /\ told.channels \subseteq {vod.channel} /\ told.durations \subseteq {setup.clip.duration}
        /\ world.source # "vod"
    BY <1>4, <2>1
  <2> HIDE DEF w
  <2> QED BY <2>2, <2>3, <2>4, FindsSound
<1> QED BY <1>1, <1>2, <1>3, <1>4 DEF VodFound

\* The step of a Kick set-up.
LEMMA KickSetupSound ==
    ASSUME KickSettling, KickSetup
    PROVE  KickSettled'
<1>1. ASSUME NEW vod \in Vods, LegacyVodAnswers(vod) PROVE KickSettled'
  <2>1. setup.stage = "legacyVod" /\ (VodFails("refused") \/ VodFound(vod))
    BY <1>1 DEF LegacyVodAnswers
  <2> QED BY <2>1, VodFailsSound, VodFoundSound
<1>2. ASSUME NEW vod \in Vods, WebVodAnswers(vod) PROVE KickSettled'
  <2>1. setup.stage = "webVod" /\ (VodFails("refused") \/ VodFound(vod))
    BY <1>2 DEF WebVodAnswers
  <2> QED BY <2>1, VodFailsSound, VodFoundSound
<1>3. ASSUME NEW same, ChannelAnswers(same) PROVE KickSettled'
  <2>1. setup.stage = "channel" /\ (VodFails("refused") \/ Fetches("webVod"))
    BY <1>3 DEF ChannelAnswers
  <2> QED BY <2>1, VodFailsSound, FetchesSound
<1> QED BY <1>1, <1>2, <1>3, SetupFetchFailsSound, WebClipAnswersSound, MobileClipAnswersSound
    DEF KickSetup

\* Every step of the set-up keeps the invariant.
LEMMA GetChatSound ==
    ASSUME DatedSound, GetChat
    PROVE  DatedSound'
<1>1. /\ run.pc = "setup" /\ setup.stage \notin {"found", "failed"} /\ world' = world
      /\ UNCHANGED <<world, cancelled, sourceVars, run, written>>
  BY DEF GetChat
<1>2. /\ world \in Worlds /\ SetupTyped /\ window = None
      /\ world.site = "kick" => RightlyTold
      /\ world.site # "kick" => told = NothingTold
      /\ Clips' = Clips /\ NothingTold' = NothingTold
  <2>1. Clips' = Clips /\ NothingTold' = NothingTold
    BY <1>1 DEF Clips, NoClip, NothingTold, WebClips, RightClip, OneWrong, Conflict
  <2> QED BY <1>1, <2>1 DEF DatedSound, ReplayTyped, SettingUp
<1>3. /\ setup \in [stage : Stages, attempt : Nat, clip : Clips, channel : Int \cup {None},
                    duration : Int \cup {None}]
      /\ told \in [channels : SUBSET Int, durations : SUBSET Int]
  BY <1>2 DEF SetupTyped
<1>4. ASSUME NEW stage \in Stages, NEW attempt \in Nat, told' = told,
             setup' = [setup EXCEPT !.stage = stage, !.attempt = attempt]
      PROVE  SetupTyped' /\ setup'.stage = stage
  <2>1. /\ setup' \in [stage : Stages, attempt : Nat, clip : Clips, channel : Int \cup {None},
                       duration : Int \cup {None}]
        /\ setup'.stage = stage
    BY <1>3, <1>4
  <2> QED BY <1>2, <1>3, <1>4, <2>1 DEF SetupTyped
<1>5. CASE world.site = "kick" /\ KickSetup
  <2>1. KickSettling
    BY <1>1, <1>2, <1>5 DEF KickSettling, KickSettled
  <2>2. KickSettled'
    BY <1>5, <2>1, KickSetupSound
  <2>3. /\ SetupTyped' /\ RightlyTold' /\ window' \in Windows \cup {None}
        /\ setup'.stage # "found" => window' = None
        /\ setup'.stage = "found" => WindowFits'
    <3>1. Windows' = Windows
      BY DEF Windows
    <3> QED BY <2>2, <3>1 DEF KickSettled
  <2> QED BY <1>1, <1>5, <2>3, SetUpNext
<1>6. CASE world.site = "backfill" /\ BackfillSetup /\ UNCHANGED told
  <2>1. world.start \in Int /\ world.end \in Int
    BY <1>2, <1>6, World
  <2>2. /\ window' = [from |-> world.start, to |-> world.end, origin |-> 0,
                      start |-> world.start, end |-> world.end]
        /\ setup' = [setup EXCEPT !.stage = "found"] /\ told' = told
    BY <1>6 DEF BackfillSetup
  <2>3. window' \in Windows
    BY <2>1, <2>2 DEF Windows
  <2>4. setup.attempt \in Nat /\ setup' = [setup EXCEPT !.stage = "found", !.attempt = setup.attempt]
    BY <1>3, <2>2
  <2>5. SetupTyped' /\ setup'.stage = "found"
    BY <1>4, <2>2, <2>4 DEF Stages
  <2>6. Begins(world)' = world.start
    BY <1>1, <1>6 DEF Begins
  <2>7. WindowFits'
    <3>1. world'.site = "backfill"
      BY <1>1, <1>6
    <3>2. None \notin Int
      BY Parameters
    <3>3. world.start <= world.start - 0 /\ world.end - 0 <= world.end
      BY <2>1
    <3>4. Windows' = Windows
      BY DEF Windows
    <3>5. /\ window'.from = world.start /\ window'.to = world.end /\ window'.origin = 0
          /\ window'.start = world.start /\ window'.end = world.end
      BY <2>2
    <3> QED BY <2>1, <2>3, <2>6, <3>1, <3>2, <3>3, <3>4, <3>5 DEF WindowFits
  <2>8. told' = NothingTold /\ world.site # "kick"
    BY <1>2, <1>6, <2>2
  <2> QED BY <1>1, <2>3, <2>5, <2>7, <2>8, SetUpNext
<1>7. CASE world.site = "twitch" /\ UNCHANGED told /\ \E failure \in GqlOutcomes : TwitchSetup(failure)
  <2>1. told' = NothingTold /\ world.site # "kick" /\ world.site # "backfill" /\ told' = told
    BY <1>2, <1>7
  <2>2. CASE setup' = [setup EXCEPT !.stage = "found"] /\ window' = TwitchWindow
    <3>1. /\ setup.attempt \in Nat
          /\ setup' = [setup EXCEPT !.stage = "found", !.attempt = setup.attempt]
      BY <1>3, <2>2
    <3>2. SetupTyped' /\ setup'.stage = "found"
      BY <1>4, <2>1, <3>1 DEF Stages
    <3> DEFINE w == TwitchWindow
    <3>3. /\ w \in Windows /\ w.start <= w.from - w.origin
          /\ w.end # None => w.to # None /\ w.to - w.origin <= w.end
      BY <1>2, <1>7, TwitchWindowFits
    <3>4. TwitchWindow' = w /\ window' = w
      BY <1>1, <2>2 DEF TwitchWindow
    <3> HIDE DEF w
    <3>5. WindowFits'
      <4>1. ~Kick' /\ Windows' = Windows
        BY <1>1, <1>7 DEF Kick, Windows
      <4> QED BY <3>3, <3>4, <4>1 DEF WindowFits
    <3>6. window' \in Windows
      BY <3>3, <3>4
    <3> QED BY <1>1, <2>1, <3>2, <3>5, <3>6, SetUpNext
  <2>3. CASE /\ UNCHANGED window
             /\ \/ setup' = [setup EXCEPT !.attempt = @ + 1]
                \/ setup' = [setup EXCEPT !.stage = "failed"]
    <3>1. setup.stage \in Stages /\ setup.attempt \in Nat /\ setup.attempt + 1 \in Nat
      BY <1>3
    <3>2. \/ setup' = [setup EXCEPT !.stage = setup.stage, !.attempt = setup.attempt + 1]
          \/ setup' = [setup EXCEPT !.stage = "failed", !.attempt = setup.attempt]
      BY <1>3, <2>3
    <3>3. SetupTyped' /\ setup'.stage \in {setup.stage, "failed"}
      BY <1>4, <2>1, <3>1, <3>2 DEF Stages
    <3>4. window' = None /\ setup'.stage # "found"
      BY <1>1, <1>2, <2>3, <3>3
    <3> QED BY <1>1, <2>1, <3>3, <3>4, SetUpNext
  <2> QED BY <1>7, <2>2, <2>3 DEF TwitchSetup
<1> QED BY <1>5, <1>6, <1>7 DEF GetChat

\* The retrieval starts, or the error ends the run.
LEMMA SetUpEndsSound ==
    ASSUME DatedSound, SetUpEnds
    PROVE  DatedSound'
<1> DEFINE next == IF setup.stage = "failed" THEN "ended"
                 ELSE IF world.site = "backfill" THEN "recovery" ELSE "loop"
<1>1. /\ run.pc = "setup" /\ setup.stage \in {"found", "failed"} /\ run' = [run EXCEPT !.pc = next]
      /\ UNCHANGED <<world, window, setup, told, cancelled, source, state, ready, written>>
  BY DEF SetUpEnds, setupVars, sourceVars
<1>2. next \in {"ended", "recovery", "loop"}
  OBVIOUS
<1>3. /\ world' = world /\ window' = window /\ setup' = setup /\ told' = told
      /\ cancelled' = cancelled /\ source' = source /\ state' = state /\ ready' = ready
      /\ written' = written
  BY <1>1
<1>4. run \in Runs /\ world \in Worlds
  BY DEF DatedSound, ReplayTyped
<1>5. /\ run' \in Runs /\ run'.pc = next /\ run'.success = run.success /\ run'.reason = run.reason
      /\ run'.certified = run.certified
  <2> HIDE DEF next
  <2> QED BY <1>1, <1>2, <1>4 DEF Runs
<1>6. /\ source = (IF Kick THEN KickStart ELSE TwitchStart) /\ state = NoState
      /\ ready = <<>> /\ written = <<>> /\ cancelled = FALSE
  BY <1>1 DEF DatedSound, SettingUp
<1>7. ~run.success /\ ~run.certified
  BY <1>1 DEF DatedSound, Claims
<1>8. next = "ended" => setup.stage = "failed"
  BY <1>1
<1>9. world.site = "backfill" => setup.stage # "failed"
  BY DEF DatedSound, SettingUp
<1>10. /\ Records' = Records /\ Wanted' = Wanted /\ (EmptyWindow' <=> EmptyWindow)
       /\ (Kick' <=> Kick) /\ Count' = Count
  BY <1>3, SameWorld
<1>11. Given = <<>> /\ Given' = <<>>
  <2>1. <<>> \o <<>> = <<>>
    OBVIOUS
  <2> QED BY <1>3, <1>6, <2>1 DEF Given
<1>12. ToSet(<<>>) = {} /\ IsInjective(<<>>) /\ DOMAIN <<>> = {}
  <2>1. DOMAIN <<>> = {}
    OBVIOUS
  <2> QED BY <2>1, Single
<1>13. ReplayTyped'
  <2>1. cancelled' \in BOOLEAN /\ written' \in Seq(Records) /\ ready' \in Seq(Records)
    BY <1>3 DEF DatedSound, ReplayTyped
  <2> QED BY <1>3, <1>5, <2>1, TypedKept DEF DatedSound
<1>14. GivenRight'
  BY <1>11, <1>12 DEF GivenRight
<1>15. Limits'
  BY <1>3 DEF DatedSound, Limits
<1>16. None \notin Stops /\ None # "completed" /\ None # "empty_window"
  BY Parameters DEF Stops, Reasons
<1>17. KickReplaySound'
  BY <1>3, <1>6, <1>11, <1>16 DEF KickReplaySound, KickStart, NoState, Kick
<1>18. TwitchReplaySound'
  <2>1. world.site = "twitch" => source.pc = "ask" /\ source.cursor = 0 /\ Count \in Nat
    <3>1. Count \in Nat
      BY <1>4, RecordsAre
    <3> QED BY <1>6, <3>1 DEF TwitchStart, Kick
  <2> QED BY <1>3, <1>6, <1>10, <1>11, <1>12, <1>16, <2>1 DEF TwitchReplaySound, NoState
<1>19. RecoverySound'
  <2>1. world.site = "backfill" => next = "recovery" /\ source = KickStart
    BY <1>6, <1>9 DEF Kick
  <2> HIDE DEF next
  <2> QED BY <1>3, <1>5, <1>6, <1>7, <1>11, <2>1 DEF RecoverySound, KickStart, NoState
<1>20. Claims'
  <2>1. next # "timedout"
    BY <1>2
  <2> HIDE DEF next
  <2> QED BY <1>5, <1>7, <2>1 DEF Claims
<1>21. SettingUp'
  <2>1. next \in {"loop", "recovery", "closing", "timedout"} => setup.stage = "found"
    BY <1>1
  <2>2. /\ (Clips' = Clips) /\ NothingTold' = NothingTold /\ KickStart' = KickStart
        /\ TwitchStart' = TwitchStart /\ NoClip' = NoClip /\ TwitchWindow' = TwitchWindow
        /\ Begins(world)' = Begins(world)
    BY <1>3 DEF Clips, NoClip, NothingTold, WebClips, RightClip, OneWrong, Conflict, KickStart,
                TwitchStart, TwitchWindow, Begins
  <2>3. SetupTyped' /\ (world.site = "kick" => RightlyTold') /\ (setup.stage = "found" => WindowFits')
    <3>1. SetupTyped'
      BY <1>3, <2>2 DEF DatedSound, SettingUp, SetupTyped
    <3>2. RightlyTold' <=> RightlyTold
      BY <1>3, <2>2 DEF RightlyTold
    <3>3. WindowFits' <=> WindowFits
      BY <1>3, <1>10, <2>2 DEF WindowFits
    <3> QED BY <3>1, <3>2, <3>3 DEF DatedSound, SettingUp
  <2>4. next # "setup"
    BY <1>2
  <2> HIDE DEF next
  <2> QED BY <1>1, <1>3, <1>5, <1>10, <2>1, <2>2, <2>3, <2>4 DEF DatedSound, SettingUp
<1> QED BY <1>13, <1>14, <1>15, <1>17, <1>18, <1>19, <1>20, <1>21 DEF DatedSound

\* A run starts with nothing found and nothing given out.
LEMMA ReplayInitSound ==
    ASSUME ReplayInit
    PROVE  DatedSound
<1>1. /\ world \in Worlds /\ window = None /\ source = (IF Kick THEN KickStart ELSE TwitchStart)
      /\ state = NoState /\ cancelled = FALSE /\ ready = <<>> /\ written = <<>>
      /\ setup = SetupStart /\ told = NothingTold /\ run = RunStart
  BY DEF ReplayInit
<1>2. None \notin Stops /\ None # "completed" /\ None # "empty_window"
  BY Parameters DEF Stops, Reasons
<1>3. /\ run.pc = "setup" /\ ~run.success /\ ~run.certified
      /\ setup.stage \in {"webClip", "legacyVod"}
      /\ setup.clip = NoClip
  BY <1>1 DEF RunStart, SetupStart
<1>4. Given = <<>> /\ ToSet(<<>>) = {} /\ IsInjective(<<>>) /\ DOMAIN <<>> = {}
  <2>1. <<>> \o <<>> = <<>> /\ DOMAIN <<>> = {}
    OBVIOUS
  <2>2. Given = <<>>
    BY <1>1, <2>1 DEF Given
  <2>3. ToSet(<<>>) = {} /\ IsInjective(<<>>)
    BY Single
  <2> QED BY <2>1, <2>2, <2>3
<1>5. ReplayTyped
  <2>1. run \in Runs
    BY <1>1 DEF RunStart, Runs, Parities, Reasons
  <2>2. state \in Diagnostics
    BY <1>1 DEF NoState, Diagnostics
  <2>3. <<>> \in Seq(Records)
    OBVIOUS
  <2>4. Kick => source \in KickSources
    BY <1>1, <2>3 DEF KickStart, KickSources
  <2>5. ~Kick => source \in TwitchSources
    BY <1>1, <2>3 DEF TwitchStart, TwitchSources
  <2> QED BY <1>1, <2>1, <2>2, <2>3, <2>4, <2>5 DEF ReplayTyped
<1>6. SettingUp
  <2>1. SetupTyped
    <3>1. NoClip \in Clips
      BY DEF Clips
    <3>2. /\ setup \in [stage : Stages, attempt : Nat, clip : Clips, channel : Int \cup {None},
                        duration : Int \cup {None}]
      BY <1>1, <3>1 DEF SetupStart, Stages
    <3> QED BY <1>1, <3>2 DEF SetupTyped, NothingTold
  <2>2. RightlyTold
    <3>1. world.source \in {"vod", "clip"}
      BY <1>1, World
    <3> QED BY <1>1, <3>1 DEF RightlyTold, SetupStart
  <2> QED BY <1>1, <1>3, <2>1, <2>2 DEF SettingUp
<1>7. GivenRight
  BY <1>4 DEF GivenRight
<1>8. Limits
  <2>1. world.limit # None => world.limit \in Nat \ {0}
    BY <1>1, World
  <2> QED BY <1>1, <2>1 DEF Limits, NoState
<1>9. KickReplaySound
  BY <1>3 DEF KickReplaySound
<1>10. TwitchReplaySound
  BY <1>3 DEF TwitchReplaySound
<1>11. RecoverySound
  BY <1>1, <1>3, <1>4 DEF RecoverySound, KickStart, Kick, NoState
<1>12. Claims
  BY <1>3 DEF Claims
<1> QED BY <1>5, <1>6, <1>7, <1>8, <1>9, <1>10, <1>11, <1>12 DEF DatedSound

LEMMA StandsStill ==
    ASSUME DatedSound, UNCHANGED replayVars
    PROVE  DatedSound'
<1>1. /\ world' = world /\ window' = window /\ setup' = setup /\ told' = told /\ run' = run
      /\ cancelled' = cancelled /\ source' = source /\ state' = state /\ ready' = ready
      /\ written' = written
  BY DEF replayVars
<1>2. /\ Records' = Records /\ Wanted' = Wanted /\ (EmptyWindow' <=> EmptyWindow)
      /\ \A i : At(i)' = At(i) /\ Kind(i)' = Kind(i) /\ Class(i)' = Class(i)
      /\ (Kick' <=> Kick) /\ Count' = Count
  BY <1>1, SameWorld
<1>3. /\ Clips' = Clips /\ NothingTold' = NothingTold /\ KickStart' = KickStart
      /\ TwitchStart' = TwitchStart /\ NoClip' = NoClip /\ TwitchWindow' = TwitchWindow
      /\ Begins(world)' = Begins(world) /\ NoState' = NoState
  BY <1>1 DEF Clips, NoClip, NothingTold, WebClips, RightClip, OneWrong, Conflict, KickStart,
              TwitchStart, TwitchWindow, Begins, NoState
<1>4. Given' = Given
  BY <1>1 DEF Given
<1>5. ReplayTyped'
  <2>1. cancelled' \in BOOLEAN /\ written' \in Seq(Records) /\ ready' \in Seq(Records) /\ run' \in Runs
    BY <1>1 DEF DatedSound, ReplayTyped
  <2> QED BY <1>1, <2>1, TypedKept DEF DatedSound
<1>6. SettingUp'
  <2>1. (SetupTyped' <=> SetupTyped) /\ (RightlyTold' <=> RightlyTold) /\ (WindowFits' <=> WindowFits)
    <3>1. SetupTyped' <=> SetupTyped
      BY <1>1, <1>3 DEF SetupTyped
    <3>2. RightlyTold' <=> RightlyTold
      BY <1>1, <1>3 DEF RightlyTold
    <3>3. WindowFits' <=> WindowFits
      BY <1>1, <1>2, <1>3 DEF WindowFits
    <3> QED BY <3>1, <3>2, <3>3
  <2> QED BY <1>1, <1>2, <1>3, <2>1 DEF DatedSound, SettingUp
<1>7. GivenRight'
  BY <1>2, <1>4 DEF DatedSound, GivenRight
<1>8. Limits'
  BY <1>1 DEF DatedSound, Limits
<1>9. KickReplaySound'
  <2>1. Emitting' <=> Emitting
    BY <1>1, <1>2, <1>4 DEF Emitting, Lost
  <2>2. Collecting' <=> Collecting
    BY <1>1, <1>2, <1>4 DEF Collecting, Lost, SpoolSound
  <2> QED BY <1>1, <1>2, <1>4, <2>1, <2>2 DEF DatedSound, KickReplaySound, Lost
<1>10. TwitchReplaySound'
  <2>1. \A n : PageAt(n)' <=> PageAt(n)
    BY <1>1, <1>2, <1>4 DEF PageAt, Lost
  <2> QED BY <1>1, <1>2, <1>4, <2>1 DEF DatedSound, TwitchReplaySound, Lost
<1>11. RecoverySound'
  BY <1>1, <1>2, <1>4 DEF DatedSound, RecoverySound
<1>12. Claims'
  BY <1>1, <1>2 DEF DatedSound, Claims, Lost
<1> QED BY <1>5, <1>6, <1>7, <1>8, <1>9, <1>10, <1>11, <1>12 DEF DatedSound

\* No step changes the recording or the request.
LEMMA WorldStays ==
    ASSUME [ReplayNext]_replayVars
    PROVE  world' = world /\ (DatedWorld' <=> DatedWorld)
<1>1. world' = world
  BY DEF ReplayNext, Proceed, GetChat, SetUpEnds, Retrieve, Take, SourceFails, SourceEnds, TimedOut,
         DeadlineEnds, Finalize, Verify, CompleteRecord, RecoveryEnds, WriteFails, Interrupt, Deadline,
         RecoveryStops, replayVars
<1> QED BY <1>1 DEF DatedWorld, Records, Kind

\* Every step keeps the invariant.
LEMMA ReplayStepSound ==
    ASSUME DatedSound, DatedWorld, [ReplayNext]_replayVars
    PROVE  DatedSound'
  BY StandsStill, GetChatSound, SetUpEndsSound, RetrieveSound, TakeSound, WriteFailsSound,
     SourceEndsSound, TimedOutSound, FinalizeSound, CompleteRecordSound, RecoveryEndsSound, DeadlineSound
     DEF ReplayNext, Proceed

\* The invariant: what was given out is what was asked for, each record once and in the
\* order of time; what was asked for was given out, waits in the spool, lies on pages
\* still to come or was counted as lost; and the report's claims follow
\* (replay_service.py:201-359, history.py:104-190, _replay_vod_loop.py, runner.py:370-539).
THEOREM ReplayInvHolds == ReplaySpec => []ReplayInv
<1>1. ReplayInit => ReplayInv
  BY ReplayInitSound DEF ReplayInv
<1>2. ReplayInv /\ [ReplayNext]_replayVars => ReplayInv'
  BY WorldStays, ReplayStepSound DEF ReplayInv
<1> QED BY <1>1, <1>2, PTL DEF ReplaySpec

\* A recovery that ends without an error, and was not stopped, has yielded every dated
\* record of its window, for every history, page size, budget and overlap of the pages
\* (history.py:104-190).
THEOREM RecoveriesAreWhole == ReplaySpec => []BackfillIsWhole
<1>1. ReplayInv => BackfillIsWhole
  <2> SUFFICES ASSUME ReplayInv, world.site = "backfill", source.pc = "done", ~cancelled,
                      NEW i \in Wanted, Kind(i) # "undated"
               PROVE  \E k \in DOMAIN source.out : source.out[k] = i
    BY DEF BackfillIsWhole
  <2>1. RecoverySound
    BY DEF ReplayInv, DatedWorld, DatedSound
  <2>2. i \in ToSet(source.out)
    BY <2>1 DEF RecoverySound
  <2> QED BY <2>2 DEF ToSet
<1> QED BY <1>1, ReplayInvHolds, PTL

\* What is in the files was asked for.
LEMMA WrittenIsWanted ==
    ASSUME DatedSound
    PROVE  /\ IsInjective(written) /\ ToSet(written) \subseteq Wanted
           /\ ToSet(ready) \cap ToSet(written) = {} /\ ToSet(ready) \subseteq Wanted
<1>1. written \in Seq(Records) /\ ready \in Seq(Records)
  BY DEF DatedSound, ReplayTyped
<1>2. /\ ToSet(Given) = ToSet(written) \cup ToSet(ready)
      /\ IsInjective(Given) <=>
           IsInjective(written) /\ IsInjective(ready) /\ ToSet(written) \cap ToSet(ready) = {}
  BY <1>1, Concatenated DEF Given
<1>3. IsInjective(Given) /\ ToSet(Given) \subseteq Wanted
  BY DEF DatedSound, GivenRight
<1> QED BY <1>2, <1>3

\* A Kick replay that the offline inspection finds nothing wrong with has every record
\* of its window in the raw file, and no other (capture_inspection.py:240-396).
THEOREM InspectedReplaysAreWhole == ReplaySpec => []LedgerSound
<1>1. ReplayInv => LedgerSound
  <2> DEFINE file == [k \in DOMAIN written |-> Record(written[k])]
  <2> SUFFICES ASSUME ReplayInv, world.site = "kick", run.pc = "recorded", window # None,
                      ~NeedsReview(state, run, file, window.from, window.to)
               PROVE  Wanted = {written[k] : k \in DOMAIN written}
    BY DEF LedgerSound
  <2> HIDE DEF file
  <2>1. run.success /\ run.reason \in {"completed", "empty_window"} /\ ~Lost
    BY DEF NeedsReview, Lost
  <2>2. DatedSound
    BY DEF ReplayInv, DatedWorld
  <2>3. Wanted \subseteq ToSet(written)
    BY <2>1, <2>2 DEF DatedSound, Claims
  <2>4. ToSet(written) = {written[k] : k \in DOMAIN written}
    BY DEF ToSet
  <2> QED BY <2>2, <2>3, <2>4, WrittenIsWanted
<1> QED BY <1>1, ReplayInvHolds, PTL

-----------------------------------------------------------------------------
(* Where every comment of a Twitch recording has its offset.               *)

Dated == \A w \in Worlds : w.site = "twitch" => \A i \in DOMAIN w.history : w.history[i].kind # "undated"

\* Then the invariant holds of the downloads from Twitch too.
LEMMA DatedHolds ==
    ASSUME Dated
    PROVE  ReplaySpec => []DatedSound
<1>1. ReplayInit => DatedSound /\ DatedWorld
  <2>1. ReplayInit => DatedWorld
    BY DEF ReplayInit, Dated, DatedWorld, Records, Kind
  <2> QED BY <2>1, ReplayInitSound
<1>2. DatedSound /\ DatedWorld /\ [ReplayNext]_replayVars => (DatedSound /\ DatedWorld)'
  BY WorldStays, ReplayStepSound
<1> QED BY <1>1, <1>2, PTL DEF ReplaySpec

\* A clip is read from the one channel, and over the one length, that every answer that
\* was used named; and every record's time lies in the window that is reported
\* (clip_service.py:287-478, replay_service.py:168-194, _process_vod_edge.py).
THEOREM SourcesAreRight == ASSUME Dated PROVE ReplaySpec => []RightSource
<1>1. DatedSound => OneSource
  <2> SUFFICES ASSUME DatedSound, setup.stage = "found"
               PROVE  Cardinality(told.channels) <= 1 /\ Cardinality(told.durations) <= 1
    BY DEF OneSource
  <2>1. CASE world.site = "kick"
    BY <2>1 DEF DatedSound, SettingUp, RightlyTold
  <2>2. CASE world.site # "kick"
    <3>1. told.channels = {} /\ told.durations = {}
      BY <2>2 DEF DatedSound, SettingUp, NothingTold
    <3>2. Cardinality({}) = 0
      BY FS_EmptySet
    <3>3. Cardinality(told.channels) = 0 /\ Cardinality(told.durations) = 0
      BY <3>1, <3>2, Zenon
    <3> QED BY <3>3
  <2> QED BY <2>1, <2>2
<1>2. DatedSound => OffsetsInWindow
  <2> SUFFICES ASSUME DatedSound, NEW k \in DOMAIN written
               PROVE  LET time == At(written[k]) - window.origin
                      IN  /\ time >= window.start
                          /\ window.end = None \/ time <= window.end
    BY DEF OffsetsInWindow
  <2> DEFINE i == written[k]
  <2>1. i \in Wanted /\ i \in Records
    BY WrittenIsWanted DEF ToSet, Wanted
  <2> HIDE DEF i
  <2>2. window # None /\ At(i) >= window.from /\ (window.to = None \/ At(i) <= window.to)
    BY <2>1 DEF Wanted
  <2>3. At(i) \in Int
    BY <2>1, RecordsAre DEF DatedSound, ReplayTyped
  <2>4. WindowFits
    BY <2>2 DEF DatedSound, SettingUp
  <2>5. /\ window.from \in Int /\ window.to \in Int \cup {None} /\ window.origin \in Int
        /\ window.start \in Int /\ window.end \in Int \cup {None}
    BY <2>4 DEF WindowFits, Windows
  <2>6. At(i) - window.origin >= window.start
    BY <2>2, <2>3, <2>4, <2>5 DEF WindowFits
  <2>7. window.end # None => At(i) - window.origin <= window.end
    BY <2>2, <2>3, <2>4, <2>5 DEF WindowFits
  <2> QED BY <2>6, <2>7 DEF i
<1> QED BY <1>1, <1>2, DatedHolds, PTL DEF RightSource

-----------------------------------------------------------------------------
(* The refinement.                                                         *)

\* The raw file, as its reader sees it.
File == [k \in DOMAIN written |-> Record(written[k])]

AskedFor == {Record(i) : i \in Wanted}

Called == IF run.pc # "recorded" THEN "open" ELSE IF run.certified THEN "whole" ELSE "partial"

FileRecords == [id : Int, at : Int]

\* The file holds the records in the order they were written.
LEMMA FileIs ==
    ASSUME DatedSound
    PROVE  /\ File \in Seq(FileRecords) /\ Len(File) = Len(written) /\ Len(written) \in Nat
           /\ DOMAIN File = 1..Len(written) /\ DOMAIN written = 1..Len(written)
           /\ \A k \in 1..Len(written) : File[k] = Record(written[k]) /\ written[k] \in Records
           /\ \A i \in Records : Record(i).id = i /\ Record(i).at = At(i) /\ Record(i) \in FileRecords
<1>1. /\ written \in Seq(Records) /\ Records = 1..Len(world.history)
      /\ \A i \in Records : At(i) \in Int
  BY RecordsAre DEF DatedSound, ReplayTyped
<1>2. /\ Len(written) \in Nat /\ DOMAIN written = 1..Len(written)
      /\ \A k \in 1..Len(written) : written[k] \in Records
  BY <1>1
<1>3. \A i \in Records : Record(i).id = i /\ Record(i).at = At(i) /\ Record(i) \in FileRecords
  <2> SUFFICES ASSUME NEW i \in Records
               PROVE  Record(i).id = i /\ Record(i).at = At(i) /\ Record(i) \in FileRecords
    OBVIOUS
  <2>1. i \in Int /\ At(i) \in Int
    BY <1>1
  <2> QED BY <2>1 DEF Record, FileRecords
<1>4. File \in [1..Len(written) -> FileRecords]
  BY <1>2, <1>3 DEF File
<1>5. File \in Seq(FileRecords) /\ Len(File) = Len(written)
  <2> DEFINE n == Len(written)
  <2>1. n \in Nat /\ File \in [1..n -> FileRecords]
    BY <1>2, <1>4
  <2> HIDE DEF n, File, FileRecords
  <2>2. File \in Seq(FileRecords)
    BY <2>1
  <2>3. Len(File) = n
    BY <2>1, <2>2
  <2> QED BY <2>2, <2>3 DEF n
<1> QED BY <1>2, <1>3, <1>5 DEF File

\* What the promise speaks of is not touched.
LEMMA PromiseKept ==
    ASSUME UNCHANGED <<world, window, written>>, Called' = Called
    PROVE  UNCHANGED <<AskedFor, File, Called>>
<1>1. Wanted' = Wanted /\ written' = written /\ world' = world
  BY SameWorld
<1>2. \A i : Record(i)' = Record(i)
  BY <1>1 DEF Record, At
<1> QED BY <1>1, <1>2 DEF AskedFor, File

\* The set-up says what is asked for; before it nothing was.
LEMMA PromiseOpens ==
    ASSUME DatedSound, GetChat
    PROVE  /\ AskedFor = {} /\ Called = "open" /\ File' = File /\ Called' = Called
           /\ \A r \in AskedFor' : \E i \in Records : r = [id |-> i, at |-> world.history[i].at]
<1>1. run.pc = "setup" /\ window = None /\ world' = world /\ written' = written /\ run' = run
  BY DEF GetChat, DatedSound, SettingUp
<1>2. AskedFor = {}
  BY <1>1 DEF AskedFor, Wanted
<1>3. File' = File
  BY <1>1 DEF File, Record, At
<1>4. Called = "open" /\ Called' = Called
  BY <1>1 DEF Called
<1>5. \A r \in AskedFor' : \E i \in Records : r = [id |-> i, at |-> world.history[i].at]
  <2>1. Wanted' \subseteq Records
    BY <1>1 DEF Wanted, Records
  <2> QED BY <1>1, <2>1 DEF AskedFor, Record, At
<1> QED BY <1>2, <1>3, <1>4, <1>5

\* A record that is taken is one that was asked for, is not in the file yet and is not
\* older than the last.
LEMMA PromiseGives ==
    ASSUME DatedSound, DatedSound', Take
    PROVE  /\ Called = "open" /\ Called' = "open" /\ AskedFor' = AskedFor
           /\ \E r \in AskedFor \ {File[k] : k \in DOMAIN File} :
                /\ File # <<>> => File[Len(File)].at <= r.at
                /\ File' = Append(File, r)
<1> DEFINE i == Head(ready)
           n == Len(written)
<1>1. /\ run.pc = "loop" /\ ready # <<>> /\ written' = Append(written, i)
      /\ world' = world /\ window' = window /\ run' = [run EXCEPT !.count = @ + 1]
  BY DEF Take, setupVars
<1>2. run \in Runs /\ ready \in Seq(Records) /\ written \in Seq(Records) /\ world \in Worlds
  BY DEF DatedSound, ReplayTyped
<1>3. Called = "open" /\ Called' = "open"
  <2>1. run'.pc = "loop"
    BY <1>1, <1>2 DEF Runs
  <2> QED BY <1>1, <2>1 DEF Called
<1>4. Wanted' = Wanted /\ \A x : Record(x)' = Record(x)
  BY <1>1, SameWorld DEF Record, At
<1>5. i \in Records /\ i \in ToSet(ready)
  <2>1. 1 \in DOMAIN ready /\ ready[1] = i /\ ready[1] \in Records
    BY <1>1, <1>2
  <2> QED BY <2>1 DEF ToSet
<1>6. i \in Wanted /\ i \notin ToSet(written)
  BY <1>5, WrittenIsWanted
<1>7. /\ File \in Seq(FileRecords) /\ Len(File) = n /\ n \in Nat
      /\ DOMAIN File = 1..n /\ DOMAIN written = 1..n
      /\ \A k \in 1..n : File[k] = Record(written[k]) /\ written[k] \in Records
      /\ \A x \in Records : Record(x).id = x /\ Record(x).at = At(x) /\ Record(x) \in FileRecords
  BY FileIs
<1> HIDE DEF i, n
<1>8. Record(i) \in AskedFor \ {File[k] : k \in DOMAIN File}
  <2>1. \A k \in 1..n : File[k] # Record(i)
    <3> SUFFICES ASSUME NEW k \in 1..n, File[k] = Record(i) PROVE FALSE
      OBVIOUS
    <3>1. written[k] = i
      BY <1>5, <1>7
    <3> QED BY <1>6, <1>7, <3>1 DEF ToSet
  <2> QED BY <1>6, <1>7, <2>1 DEF AskedFor
<1>9. File # <<>> => File[Len(File)].at <= Record(i).at
  <2> SUFFICES ASSUME File # <<>> PROVE File[n].at <= Record(i).at
    BY <1>7
  <2>1. n \in 1..n
    BY <1>7
  <2>2. At(written[n]) <= At(i)
    <3> DEFINE w == written
               s == ready
               m == Len(s)
    <3>1. w \in Seq(Records) /\ s \in Seq(Records) /\ m \in Nat /\ m >= 1 /\ s[1] = i /\ n = Len(w)
      BY <1>1, <1>2 DEF i, n
    <3> HIDE DEF w, s
    <3>2. /\ n \in DOMAIN (w \o s) /\ n + 1 \in DOMAIN (w \o s)
          /\ (w \o s)[n] = w[n] /\ (w \o s)[n + 1] = s[1]
      BY <1>7, <2>1, <3>1
    <3>3. n \in DOMAIN Given /\ n + 1 \in DOMAIN Given /\ Given[n] = written[n] /\ Given[n + 1] = i
      BY <3>1, <3>2 DEF Given, w, s
    <3>4. \A a, b \in DOMAIN Given : a < b => At(Given[a]) <= At(Given[b])
      BY DEF DatedSound, GivenRight
    <3>5. n < n + 1
      BY <1>7
    <3>6. At(Given[n]) <= At(Given[n + 1])
      BY <3>3, <3>4, <3>5
    <3> QED BY <3>3, <3>6
  <2> QED BY <1>5, <1>7, <2>1, <2>2
<1>10. File' = Append(File, Record(i))
  <2>1. /\ Len(Append(written, i)) = n + 1 /\ DOMAIN Append(written, i) = 1..(n + 1)
        /\ Append(written, i)[n + 1] = i /\ \A k \in 1..n : Append(written, i)[k] = written[k]
    BY <1>2, <1>5, <1>7 DEF n
  <2>2. File' = [k \in 1..(n + 1) |-> Record(Append(written, i)[k])]
    BY <1>1, <1>4, <2>1 DEF File
  <2> DEFINE r == Record(i)
  <2>3. r \in FileRecords
    BY <1>5, <1>7
  <2>4. /\ DOMAIN Append(File, r) = 1..(n + 1) /\ Append(File, r)[n + 1] = r
        /\ \A k \in 1..n : Append(File, r)[k] = File[k]
    <3> HIDE DEF r, File
    <3> QED BY <1>7, <2>3
  <2>5. Append(File, r) = [k \in 1..(n + 1) |-> Append(File, r)[k]]
    <3>1. Append(File, r) \in Seq(FileRecords)
      <4> HIDE DEF r, File
      <4> QED BY <1>7, <2>3
    <3>2. \A X, s : s \in Seq(X) => s \in [DOMAIN s -> X]
      OBVIOUS
    <3>3. Append(File, r) \in [1..(n + 1) -> FileRecords]
      BY <2>4, <3>1, <3>2, Zenon
    <3> QED BY <3>3
  <2>6. \A k \in 1..(n + 1) : Append(File, r)[k] = Record(Append(written, i)[k])
    <3>1. \A k \in 1..(n + 1) : k \in 1..n \/ k = n + 1
      BY <1>7
    <3> HIDE DEF File
    <3> QED BY <1>7, <2>1, <2>4, <3>1 DEF r
  <2> QED BY <2>2, <2>5, <2>6
<1>11. AskedFor' = AskedFor
  BY <1>4 DEF AskedFor
<1> QED BY <1>3, <1>8, <1>9, <1>10, <1>11

\* The report calls the recording whole only when the file has all that was asked for.
LEMMA PromiseCloses ==
    ASSUME DatedSound, DatedSound', CompleteRecord \/ RecoveryEnds
    PROVE  /\ AskedFor' = AskedFor /\ File' = File /\ Called = "open" /\ Called' \in {"whole", "partial"}
           /\ Called' = "whole" => {File[k] : k \in DOMAIN File} = AskedFor
<1>1. /\ world' = world /\ window' = window /\ written' = written /\ run.pc # "recorded"
      /\ run \in Runs
  BY DEF CompleteRecord, RecoveryEnds, setupVars, DatedSound, ReplayTyped
<1>2. run'.pc = "recorded"
  BY <1>1 DEF CompleteRecord, RecoveryEnds, Runs
<1>3. Called = "open" /\ Called' \in {"whole", "partial"} /\ (Called' = "whole" => run'.certified)
  BY <1>1, <1>2 DEF Called
<1>4. Wanted' = Wanted /\ \A x : Record(x)' = Record(x)
  BY <1>1, SameWorld DEF Record, At
<1>5. AskedFor' = AskedFor /\ File' = File
  BY <1>1, <1>4 DEF AskedFor, File
<1>6. run'.certified => {File[k] : k \in DOMAIN File} = AskedFor
  <2> SUFFICES ASSUME run'.certified PROVE {File[k] : k \in DOMAIN File} = AskedFor
    OBVIOUS
  <2>1. Wanted' \subseteq ToSet(written')
    BY DEF DatedSound, Claims
  <2>2. Wanted = ToSet(written)
    BY <1>1, <1>4, <2>1, WrittenIsWanted
  <2>3. {File[k] : k \in DOMAIN File} = {Record(written[k]) : k \in DOMAIN written}
    BY DEF File
  <2>4. {Record(i) : i \in ToSet(written)} = {Record(written[k]) : k \in DOMAIN written}
    BY DEF ToSet
  <2> QED BY <2>2, <2>3, <2>4 DEF AskedFor
<1> QED BY <1>3, <1>5, <1>6

\* Otherwise the file stays, and the report is out or it is not.
LEMMA OtherSteps ==
    ASSUME DatedSound, [ReplayNext]_replayVars
    PROVE  \/ GetChat \/ Take \/ CompleteRecord \/ RecoveryEnds
           \/ UNCHANGED <<world, window, written>> /\ Called' = Called
<1>1. run \in Runs
  BY DEF DatedSound, ReplayTyped
<1>2. ASSUME run' = run PROVE Called' = Called
  BY <1>2 DEF Called
<1>3. ASSUME run.pc # "recorded", run'.pc # "recorded" PROVE Called' = Called
  BY <1>3 DEF Called
<1>4. SetUpEnds => UNCHANGED <<world, window, written>> /\ run.pc # "recorded" /\ run'.pc # "recorded"
  BY <1>1 DEF SetUpEnds, setupVars, Runs
<1>5. Retrieve => UNCHANGED <<world, window, written>> /\ run' = run
  BY DEF Retrieve, setupVars
<1>6. WriteFails \/ Interrupt \/ SourceFails =>
        UNCHANGED <<world, window, written>> /\ run.pc # "recorded" /\ run'.pc # "recorded"
  BY <1>1 DEF WriteFails, Interrupt, SourceFails, setupVars, Runs
<1>7. SourceEnds \/ DeadlineEnds =>
        UNCHANGED <<world, window, written>> /\ run.pc # "recorded" /\ run'.pc # "recorded"
  BY <1>1 DEF SourceEnds, DeadlineEnds, Finishes, setupVars, Runs
<1>8. Deadline \/ TimedOut =>
        UNCHANGED <<world, window, written>> /\ run.pc # "recorded" /\ run'.pc # "recorded"
  BY <1>1 DEF Deadline, TimedOut, setupVars, Runs
<1>9. Finalize => UNCHANGED <<world, window, written>> /\ run.pc # "recorded" /\ run'.pc # "recorded"
  BY <1>1 DEF Finalize, setupVars, Runs
<1>10. Verify => UNCHANGED <<world, window, written>> /\ run.pc # "recorded" /\ run'.pc # "recorded"
  BY <1>1 DEF Verify, setupVars, Runs
<1>11. RecoveryStops => UNCHANGED <<world, window, written>> /\ run' = run
  BY DEF RecoveryStops, setupVars
<1>12. UNCHANGED replayVars => UNCHANGED <<world, window, written>> /\ run' = run
  BY DEF replayVars
<1> QED BY <1>2, <1>3, <1>4, <1>5, <1>6, <1>7, <1>8, <1>9, <1>10, <1>11, <1>12
    DEF ReplayNext, Proceed

\* Every step is a step of the promise, or none.
LEMMA PromiseStep ==
    ASSUME DatedSound, DatedSound', [ReplayNext]_replayVars
    PROVE  [Promise!Next]_(Promise!vars)
<1>1. CASE GetChat
  <2>1. AskedFor' \in SUBSET UNION {{[id |-> i, at |-> w.history[i].at] : i \in DOMAIN w.history} :
                                    w \in Worlds}
    <3>1. world \in Worlds
      BY DEF DatedSound, ReplayTyped
    <3> QED BY <1>1, <3>1, PromiseOpens DEF Records
  <2>2. Promise!Open
    BY <1>1, <2>1, PromiseOpens DEF Promise!Open, AskedFor, File, Called
  <2> QED BY <2>2 DEF Promise!Next
<1>2. CASE Take
  <2>1. Promise!Give
    BY <1>2, PromiseGives DEF Promise!Give, Promise!GivenSet, AskedFor, File, Called
  <2> QED BY <2>1 DEF Promise!Next
<1>3. CASE CompleteRecord \/ RecoveryEnds
  <2>1. Promise!Close
    BY <1>3, PromiseCloses DEF Promise!Close, Promise!GivenSet, AskedFor, File, Called
  <2> QED BY <2>1 DEF Promise!Next
<1>4. CASE UNCHANGED <<world, window, written>> /\ Called' = Called
  <2>1. UNCHANGED Promise!vars
    BY <1>4, PromiseKept DEF Promise!vars, AskedFor, File, Called
  <2> QED BY <2>1
<1> QED BY <1>1, <1>2, <1>3, <1>4, OtherSteps

\* The downloads implement ReplayPromise: a file only grows by records that were asked
\* for, each once and in the order of time, and the report calls the recording whole only
\* when all of them are there (runner.py:370-539, _complete_run_record).
THEOREM PromiseIsKept == ASSUME Dated PROVE ReplaySpec => KeepsPromise
<1>1. ReplayInit => Promise!Init
  <2> SUFFICES ASSUME ReplayInit PROVE Promise!Init
    OBVIOUS
  <2>1. window = None /\ written = <<>> /\ run.pc = "setup"
    BY DEF ReplayInit, RunStart
  <2>2. Wanted = {}
    BY <2>1 DEF Wanted
  <2> QED BY <2>1, <2>2 DEF Promise!Init
<1>2. DatedSound /\ DatedSound' /\ [ReplayNext]_replayVars => [Promise!Next]_(Promise!vars)
  BY PromiseStep
<1> QED BY <1>1, <1>2, DatedHolds, PTL DEF ReplaySpec, KeepsPromise, Promise!Spec
=============================================================================
