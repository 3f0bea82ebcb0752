------------------------ MODULE EventBackboneProofs ------------------------
(***************************************************************************)
(* Proofs about EventBackbone for any number of events, relays, retry      *)
(* tiers and crashes.                                                      *)
(***************************************************************************)
EXTENDS EventBackbone, TLAPS

-----------------------------------------------------------------------------
(* What the queue operations do to the messages a queue holds. *)

\* Appending adds one message (publish, retry copy, expiry).
LEMMA ContentsAppend ==
    ASSUME NEW S, NEW s \in Seq(S), NEW m \in S
    PROVE  Contents(Append(s, m)) = Contents(s) \union {m}
<1>1. /\ Append(s, m) \in Seq(S)
      /\ Len(Append(s, m)) = Len(s) + 1
      /\ Append(s, m)[Len(s) + 1] = m
      /\ \A i \in 1..Len(s) : Append(s, m)[i] = s[i]
  OBVIOUS
<1>2. Len(s) \in Nat
  OBVIOUS
<1>3. 1..(Len(s) + 1) = 1..Len(s) \union {Len(s) + 1}
  BY <1>2
<1> QED  BY <1>1, <1>3 DEF Contents

\* A nonempty queue holds its head and the contents of its tail.
LEMMA ContentsHeadTail ==
    ASSUME NEW S, NEW s \in Seq(S), s # <<>>
    PROVE  Contents(s) = {Head(s)} \union Contents(Tail(s))
<1>1. /\ Len(s) \in Nat /\ Len(s) >= 1
      /\ Len(Tail(s)) = Len(s) - 1
      /\ Head(s) = s[1]
      /\ \A i \in 1..(Len(s) - 1) : Tail(s)[i] = s[i + 1]
  OBVIOUS
<1>2. Contents(s) \subseteq {Head(s)} \union Contents(Tail(s))
  <2> SUFFICES ASSUME NEW i \in 1..Len(s)
               PROVE  s[i] \in {Head(s)} \union Contents(Tail(s))
    BY DEF Contents
  <2>1. CASE i = 1
    BY <1>1, <2>1
  <2>2. CASE i # 1
    <3>1. i - 1 \in 1..Len(Tail(s)) /\ Tail(s)[i - 1] = s[i]
      BY <1>1, <2>2
    <3> QED  BY <3>1 DEF Contents
  <2> QED  BY <2>1, <2>2
<1>3. {Head(s)} \union Contents(Tail(s)) \subseteq Contents(s)
  <2>1. Head(s) \in Contents(s)
    BY <1>1 DEF Contents
  <2>2. ASSUME NEW i \in 1..Len(Tail(s))
        PROVE  Tail(s)[i] \in Contents(s)
    <3>1. i + 1 \in 1..Len(s) /\ Tail(s)[i] = s[i + 1]
      BY <1>1
    <3> QED  BY <3>1 DEF Contents
  <2> QED  BY <2>1, <2>2 DEF Contents
<1> QED  BY <1>2, <1>3

\* Requeueing keeps the messages of both sequences.
LEMMA ContentsConcat ==
    ASSUME NEW S, NEW s \in Seq(S), NEW t \in Seq(S)
    PROVE  Contents(s \o t) = Contents(s) \union Contents(t)
<1>1. /\ Len(s) \in Nat /\ Len(t) \in Nat
      /\ Len(s \o t) = Len(s) + Len(t)
      /\ \A i \in 1..Len(s) : (s \o t)[i] = s[i]
      /\ \A i \in 1..Len(t) : (s \o t)[Len(s) + i] = t[i]
  OBVIOUS
<1>2. ASSUME NEW i \in 1..Len(s \o t)
      PROVE  (s \o t)[i] \in Contents(s) \union Contents(t)
  <2>1. CASE i \in 1..Len(s)
    BY <1>1, <2>1 DEF Contents
  <2>2. CASE i \notin 1..Len(s)
    <3>1. i - Len(s) \in 1..Len(t) /\ i = Len(s) + (i - Len(s))
      BY <1>1, <2>2
    <3>2. (s \o t)[i] = t[i - Len(s)]
      BY <1>1, <3>1
    <3> QED  BY <3>1, <3>2 DEF Contents
  <2> QED  BY <2>1, <2>2
<1>3. ASSUME NEW i \in 1..Len(s)
      PROVE  s[i] \in Contents(s \o t)
  <2>1. i \in 1..Len(s \o t) /\ (s \o t)[i] = s[i]
    BY <1>1
  <2> QED  BY <2>1 DEF Contents
<1>4. ASSUME NEW i \in 1..Len(t)
      PROVE  t[i] \in Contents(s \o t)
  <2>1. Len(s) + i \in 1..Len(s \o t) /\ (s \o t)[Len(s) + i] = t[i]
    BY <1>1
  <2> QED  BY <2>1 DEF Contents
<1> QED  BY <1>2, <1>3, <1>4 DEF Contents

\* The messages of a sequence over S are members of S.
LEMMA ContentsInSet ==
    ASSUME NEW S, NEW s \in Seq(S)
    PROVE  Contents(s) \subseteq S
BY DEF Contents

-----------------------------------------------------------------------------
(* Type correctness. *)

LEMMA InitTypeOK == Init => TypeOK
<1> SUFFICES ASSUME Init
             PROVE  TypeOK
  OBVIOUS
<1>1. /\ row \in [Events -> {"none", "open", "committed"}]
      /\ seqOf \in [Events -> Nat] /\ nextSequence \in Nat
      /\ attempts \in [Events -> Nat] /\ projected \in [Events -> Nat]
      /\ faults \in [Events -> Nat]
  BY DEF Init
<1>2. publishedAt \in [Events -> BOOLEAN] /\ failedAt \in [Events -> BOOLEAN]
  BY DEF Init
<1>3. /\ claimed \in [Relays -> SUBSET Events] /\ pending \in [Relays -> SUBSET Events]
      /\ confirmed \in [Relays -> SUBSET Events] /\ failures \in [Relays -> SUBSET Events]
  BY DEF Init
<1>4. /\ queue \in Seq(Messages) /\ delivered \in Seq(Messages)
      /\ retry \in [Tiers -> Seq(Messages)]
  BY DEF Init
<1>5. /\ bound \in BOOLEAN /\ dlq \subseteq Events /\ discarded \subseteq Events
      /\ settling \in {"idle", "handled", "failed", "copied"}
      /\ processed \subseteq Events /\ lastSequence \in Nat
      /\ crashes \in Nat /\ refusals \in Nat
  BY DEF Init
<1> QED  BY <1>1, <1>2, <1>3, <1>4, <1>5 DEF TypeOK

\* Publishing appends a fresh message or discards the event.
LEMMA RouteTypeOK ==
    ASSUME TypeOK, NEW e \in Events, Route(e)
    PROVE  queue' \in Seq(Messages) /\ discarded' \subseteq Events
<1>1. [event |-> e, attempt |-> 0] \in Messages
  BY LimitsAssumption DEF Messages
<1>2. CASE bound
  <2>1. queue' = Append(queue, [event |-> e, attempt |-> 0]) /\ discarded' = discarded
    BY <1>2 DEF Route
  <2>2. queue \in Seq(Messages) /\ discarded \subseteq Events
    BY DEF TypeOK
  <2>3. \A m \in Messages : Append(queue, m) \in Seq(Messages)
    BY <2>2
  <2> QED  BY <1>1, <2>1, <2>2, <2>3
<1>3. CASE ~bound
  BY <1>3 DEF Route, TypeOK
<1> QED  BY <1>2, <1>3

\* Applying an event keeps the shape of the read model.
LEMMA ApplyTypeOK ==
    ASSUME TypeOK, NEW e \in Events, Apply(e)
    PROVE  /\ processed' \subseteq Events
           /\ projected' \in [Events -> Nat]
           /\ lastSequence' \in Nat
BY DEF Apply, WatermarkAfter, TypeOK

\* The oldest delivery is a message.
LEMMA SettledTypeOK ==
    ASSUME TypeOK, delivered # <<>>
    PROVE  /\ Settled \in Messages
           /\ Settled.event \in Events
           /\ Settled.attempt \in 0..RetryTiers
           /\ Tail(delivered) \in Seq(Messages)
<1>1. delivered \in Seq(Messages) /\ delivered # <<>>
  BY DEF TypeOK
<1>2. Head(delivered) \in Messages /\ Tail(delivered) \in Seq(Messages)
  BY <1>1
<1> QED  BY <1>2 DEF Settled, Messages

LEMMA NextTypeOK == TypeOK /\ DeliveryInProgress /\ [Next]_vars => TypeOK'
<1> SUFFICES ASSUME TypeOK, DeliveryInProgress, [Next]_vars
             PROVE  TypeOK'
  OBVIOUS
<1> USE LimitsAssumption, BoundsAssumption
<1>1. ASSUME NEW e \in Events, Publisher(e)
      PROVE  TypeOK'
  <2>1. CASE AppendDomainEvent(e)
    BY <2>1 DEF AppendDomainEvent, TypeOK, relayVars, brokerVars, consumerVars
  <2>2. CASE CommitEvent(e)
    BY <2>2 DEF CommitEvent, TypeOK, relayVars, brokerVars, consumerVars
  <2>3. CASE RollbackEvent(e)
    BY <2>3 DEF RollbackEvent, TypeOK, relayVars, brokerVars, consumerVars
  <2> QED  BY <1>1, <2>1, <2>2, <2>3 DEF Publisher, EndTransaction
<1>2. ASSUME NEW r \in Relays, Relay(r)
      PROVE  TypeOK'
  <2>1. CASE ClaimUnpublishedEvents(r)
    BY <2>1 DEF ClaimUnpublishedEvents, Deliverable, TypeOK, outbox, brokerVars, consumerVars
  <2>2. CASE SkipUnparsable(r)
    BY <2>2 DEF SkipUnparsable, TypeOK, outbox, brokerVars, consumerVars
  <2>3. CASE PublishConfirmed(r)
    <3>1. PICK e \in pending[r] \ Unparsable :
             /\ Route(e)
             /\ pending' = [pending EXCEPT ![r] = @ \ {e}]
             /\ confirmed' = [confirmed EXCEPT ![r] = @ \union {e}]
      BY <2>3 DEF PublishConfirmed
    <3>2. e \in Events
      BY <3>1 DEF TypeOK
    <3>3. queue' \in Seq(Messages) /\ discarded' \subseteq Events
      BY <3>1, <3>2, RouteTypeOK
    <3> QED  BY <2>3, <3>1, <3>2, <3>3 DEF PublishConfirmed, TypeOK, outbox, consumerVars
  <2>4. CASE PublishRefused(r)
    <3>1. PICK e \in pending[r] \ Unparsable :
             /\ Route(e) \/ UNCHANGED <<queue, discarded>>
             /\ failures' = [failures EXCEPT ![r] = @ \union {e}]
             /\ pending' = [pending EXCEPT ![r] = LeftAfterRefusal(@, e)]
      BY <2>4 DEF PublishRefused
    <3>2. e \in Events
      BY <3>1 DEF TypeOK
    <3>3. queue' \in Seq(Messages) /\ discarded' \subseteq Events
      BY <3>1, <3>2, RouteTypeOK DEF TypeOK
    <3> QED  BY <2>4, <3>1, <3>2, <3>3
             DEF PublishRefused, LeftAfterRefusal, TypeOK, outbox, consumerVars
  <2>5. CASE FinishDrain(r)
    <3>1. publishedAt' \in [Events -> BOOLEAN]
      BY <2>5, Zenon DEF FinishDrain
    <3>2. \A n \in Nat : Exhausted(n) \in BOOLEAN
      BY DEF Exhausted
    <3>3. failedAt' \in [Events -> BOOLEAN]
      BY <2>5, <3>2 DEF FinishDrain, TypeOK
    <3>4. attempts' \in [Events -> Nat]
      BY <2>5 DEF FinishDrain, TypeOK
    <3> QED  BY <2>5, <3>1, <3>3, <3>4 DEF FinishDrain, TypeOK, brokerVars, consumerVars
  <2>6. CASE CrashRelay(r)
    BY <2>6 DEF CrashRelay, TypeOK, outbox, brokerVars, consumerVars
  <2> QED  BY <1>2, <2>1, <2>2, <2>3, <2>4, <2>5, <2>6 DEF Relay, PublishNext
<1>3. CASE Broker
  <2>1. CASE BindQueue
    BY <2>1 DEF BindQueue, TypeOK, outbox, relayVars, consumerVars
  <2>2. CASE Deliver
    BY <2>2 DEF Deliver, TypeOK, outbox, relayVars, consumerVars
  <2>3. ASSUME NEW t \in Tiers, ExpireRetry(t)
        PROVE  TypeOK'
    BY <2>3 DEF ExpireRetry, TypeOK, outbox, relayVars, consumerVars
  <2> QED  BY <1>3, <2>1, <2>2, <2>3 DEF Broker
<1>4. CASE Consumer
  <2>1. CASE HandleEvent
    BY <2>1, SettledTypeOK, ApplyTypeOK
       DEF HandleEvent, TypeOK, outbox, relayVars, brokerVars
  <2>2. CASE HandleFails
    <3>1. Settled.event \in Events
      BY <2>2, SettledTypeOK DEF HandleFails
    <3>2. /\ processed' \subseteq Events
          /\ projected' \in [Events -> Nat]
          /\ lastSequence' \in Nat
      BY <2>2, <3>1, ApplyTypeOK DEF HandleFails, TypeOK
    <3>3. faults' \in [Events -> Nat] /\ settling' = "failed"
      BY <2>2, <3>1 DEF HandleFails, TypeOK
    <3>4. UNCHANGED <<outbox, relayVars, brokerVars, crashes, refusals>>
      BY <2>2 DEF HandleFails
    <3> QED  BY <3>2, <3>3, <3>4 DEF TypeOK, outbox, relayVars, brokerVars
  <2>3. CASE DeadLetterUnreadable
    BY <2>3, SettledTypeOK
       DEF DeadLetterUnreadable, TypeOK, outbox, relayVars, consumerVars
  <2>4. CASE GiveUp
    BY <2>4, SettledTypeOK DEF GiveUp, DeliveryInProgress, TypeOK, outbox, relayVars
  <2>5. CASE SendRetryCopy
    <3>1. Settled \in Messages /\ Settled.attempt < RetryTiers
      BY <2>5, SettledTypeOK DEF SendRetryCopy, DeliveryInProgress, Spent, Messages
    <3>2. RetryCopy(Settled) \in Messages
      BY <3>1 DEF RetryCopy, Messages
    <3>3. retry' \in [Tiers -> Seq(Messages)]
      <4> DEFINE tier == Settled.attempt + 1
      <4>1. tier \in Tiers
        BY <3>1 DEF Messages, Tiers
      <4>2. retry \in [Tiers -> Seq(Messages)]
        BY DEF TypeOK
      <4>3. Append(retry[tier], RetryCopy(Settled)) \in Seq(Messages)
        BY <3>2, <4>1, <4>2
      <4>4. retry' = [retry EXCEPT ![tier] = Append(retry[tier], RetryCopy(Settled))]
        BY <2>5 DEF SendRetryCopy
      <4> QED  BY <4>1, <4>2, <4>3, <4>4
    <3> QED  BY <2>5, <3>3 DEF SendRetryCopy, TypeOK, outbox, relayVars
  <2>6. CASE RequeueOriginal
    <3>1. Settled \in Messages /\ Tail(delivered) \in Seq(Messages)
      BY <2>6, SettledTypeOK DEF RequeueOriginal, DeliveryInProgress
    <3> QED  BY <2>6, <3>1 DEF RequeueOriginal, TypeOK, outbox, relayVars
  <2>7. CASE Acknowledge
    BY <2>7, SettledTypeOK DEF Acknowledge, DeliveryInProgress, TypeOK, outbox, relayVars
  <2>8. CASE CrashConsumer
    BY <2>8 DEF CrashConsumer, TypeOK, outbox, relayVars
  <2> QED  BY <1>4, <2>1, <2>2, <2>3, <2>4, <2>5, <2>6, <2>7, <2>8
           DEF Consumer, SettleDelivery
<1>5. CASE UNCHANGED vars
  BY <1>5 DEF vars, TypeOK, outbox, relayVars, brokerVars, consumerVars
<1> QED  BY <1>1, <1>2, <1>3, <1>4, <1>5 DEF Next

\* The type invariant of the backbone, with what it needs to be inductive.
LEMMA NextDeliveryInProgress ==
    TypeOK /\ DeliveryInProgress /\ [Next]_vars => DeliveryInProgress'
<1> SUFFICES ASSUME TypeOK, DeliveryInProgress, [Next]_vars
             PROVE  DeliveryInProgress'
  OBVIOUS
<1>1. ASSUME NEW e \in Events, Publisher(e)
      PROVE  DeliveryInProgress'
  BY <1>1 DEF Publisher, AppendDomainEvent, EndTransaction, CommitEvent, RollbackEvent,
              DeliveryInProgress, brokerVars, consumerVars
<1>2. ASSUME NEW r \in Relays, Relay(r)
      PROVE  DeliveryInProgress'
  BY <1>2 DEF Relay, PublishNext, ClaimUnpublishedEvents, SkipUnparsable, PublishConfirmed,
              PublishRefused, FinishDrain, CrashRelay, DeliveryInProgress, brokerVars,
              consumerVars
<1>3. CASE Broker
  <2>1. CASE BindQueue
    BY <2>1 DEF BindQueue, DeliveryInProgress, consumerVars
  <2>2. CASE Deliver
    <3>1. delivered \in Seq(Messages) /\ Head(queue) \in Messages
      BY <2>2 DEF Deliver, TypeOK
    <3>2. Len(Append(delivered, Head(queue))) = Len(delivered) + 1 /\ Len(delivered) \in Nat
      BY <3>1
    <3>3. Append(delivered, Head(queue)) # <<>>
      BY <3>2
    <3> QED  BY <2>2, <3>3 DEF Deliver, DeliveryInProgress, consumerVars
  <2>3. ASSUME NEW t \in Tiers, ExpireRetry(t)
        PROVE  DeliveryInProgress'
    BY <2>3 DEF ExpireRetry, DeliveryInProgress, consumerVars
  <2> QED  BY <1>3, <2>1, <2>2, <2>3 DEF Broker
<1>4. CASE Consumer
  BY <1>4 DEF Consumer, SettleDelivery, HandleEvent, HandleFails, DeadLetterUnreadable,
              GiveUp, SendRetryCopy, RequeueOriginal, Acknowledge, CrashConsumer,
              DeliveryInProgress, brokerVars, consumerVars
<1>5. CASE UNCHANGED vars
  BY <1>5 DEF vars, DeliveryInProgress, brokerVars, consumerVars
<1> QED  BY <1>1, <1>2, <1>3, <1>4, <1>5 DEF Next

\* Every reachable state is well typed, for any events, relays and limits.
THEOREM TypeCorrect == Spec => []TypeOK
<1>1. Init => TypeOK /\ DeliveryInProgress
  BY InitTypeOK DEF Init, DeliveryInProgress
<1>2. TypeOK /\ DeliveryInProgress /\ [Next]_vars => (TypeOK /\ DeliveryInProgress)'
  BY NextTypeOK, NextDeliveryInProgress
<1> QED  BY <1>1, <1>2, PTL DEF Spec

-----------------------------------------------------------------------------
(* How the copies of a message move. *)

\* Steps that leave the queues alone leave the copies alone.
LEMMA CopiesFrame ==
    ASSUME UNCHANGED <<queue, delivered, retry>>
    PROVE  Copies' = Copies /\ OtherCopies' = OtherCopies /\ Settled' = Settled
BY DEF Copies, OtherCopies, Contents, Settled

LEMMA CopiesAreMessages ==
    ASSUME TypeOK
    PROVE  Copies \subseteq Messages
<1>1. /\ Contents(queue) \subseteq Messages /\ Contents(delivered) \subseteq Messages
      /\ \A t \in Tiers : Contents(retry[t]) \subseteq Messages
  BY ContentsInSet DEF TypeOK
<1> QED  BY <1>1 DEF Copies

\* The delivery being settled is one copy; the others remain when it leaves.
LEMMA CopiesSplit ==
    ASSUME TypeOK, delivered # <<>>
    PROVE  Copies = OtherCopies \union {Settled}
<1>1. Contents(delivered) = {Head(delivered)} \union Contents(Tail(delivered))
  BY ContentsHeadTail DEF TypeOK
<1> QED  BY <1>1 DEF Copies, OtherCopies, Settled

\* A publish adds at most the published event, and accounts for it.
LEMMA RouteAccounts ==
    ASSUME TypeOK, NEW e \in Events, Route(e), UNCHANGED <<delivered, retry, processed, dlq>>
    PROVE  /\ Copies \subseteq Copies'
           /\ Copies' \subseteq Copies \union {[event |-> e, attempt |-> 0]}
           /\ OtherCopies \subseteq OtherCopies'
           /\ discarded \subseteq discarded' /\ discarded' \subseteq discarded \union {e}
           /\ Accounted(e)'
<1> DEFINE m == [event |-> e, attempt |-> 0]
<1>0. m \in Messages
  BY LimitsAssumption DEF Messages
<1>1. CASE bound
  <2>1. queue' = Append(queue, m) /\ discarded' = discarded
    BY <1>1 DEF Route
  <2>2. Contents(queue') = Contents(queue) \union {m}
    BY <1>0, <2>1, ContentsAppend DEF TypeOK
  <2>3. /\ Contents(delivered') = Contents(delivered)
        /\ Contents(Tail(delivered')) = Contents(Tail(delivered))
        /\ UNION {Contents(retry'[t]) : t \in Tiers} = UNION {Contents(retry[t]) : t \in Tiers}
    OBVIOUS
  <2>4. Copies' = Copies \union {m} /\ OtherCopies' = OtherCopies \union {m}
    BY <2>2, <2>3 DEF Copies, OtherCopies
  <2>5. m.event = e
    OBVIOUS
  <2> QED  BY <2>1, <2>4, <2>5 DEF Accounted
<1>2. CASE ~bound
  <2>1. queue' = queue /\ discarded' = discarded \union {e}
    BY <1>2 DEF Route
  <2>2. Copies' = Copies /\ OtherCopies' = OtherCopies
    BY <2>1, CopiesFrame
  <2> QED  BY <2>1, <2>2 DEF Accounted
<1> QED  BY <1>1, <1>2

\* Delivering moves a copy from the queue to the consumer.
LEMMA DeliverKeepsCopies ==
    ASSUME TypeOK, Deliver
    PROVE  Copies' = Copies /\ (delivered # <<>> => OtherCopies' = OtherCopies /\ Settled' = Settled)
<1>1. Contents(queue) = {Head(queue)} \union Contents(Tail(queue))
  BY ContentsHeadTail DEF Deliver, TypeOK
<1>2. Head(queue) \in Messages
  BY DEF Deliver, TypeOK
<1>3. Contents(Append(delivered, Head(queue))) = Contents(delivered) \union {Head(queue)}
  BY <1>2, ContentsAppend DEF TypeOK
<1>4. queue' = Tail(queue) /\ delivered' = Append(delivered, Head(queue)) /\ retry' = retry
  BY DEF Deliver
<1>5. Copies' = Copies
  BY <1>1, <1>3, <1>4 DEF Copies
<1>6. CASE delivered # <<>>
  <2>1. /\ Head(Append(delivered, Head(queue))) = Head(delivered)
        /\ Tail(Append(delivered, Head(queue))) = Append(Tail(delivered), Head(queue))
    BY <1>2, <1>6 DEF TypeOK
  <2>2. Tail(delivered) \in Seq(Messages)
    BY <1>6 DEF TypeOK
  <2>3. Contents(Tail(delivered')) = Contents(Tail(delivered)) \union {Head(queue)}
    <3>1. Contents(Append(Tail(delivered), Head(queue)))
            = Contents(Tail(delivered)) \union {Head(queue)}
      <4>1. \A s \in Seq(Messages), m \in Messages :
               Contents(Append(s, m)) = Contents(s) \union {m}
        BY ContentsAppend
      <4> QED  BY <1>2, <2>2, <4>1
    <3>2. Tail(delivered') = Append(Tail(delivered), Head(queue))
      BY <1>4, <2>1
    <3> QED  BY <3>1, <3>2
  <2>4. OtherCopies' = OtherCopies
    BY <1>1, <1>4, <2>3 DEF OtherCopies
  <2> QED  BY <1>4, <1>5, <2>1, <2>4 DEF Settled
<1> QED  BY <1>5, <1>6

\* An expired message moves from its tier to the work queue.
LEMMA ExpireKeepsCopies ==
    ASSUME TypeOK, NEW t \in Tiers, ExpireRetry(t)
    PROVE  Copies' = Copies /\ OtherCopies' = OtherCopies /\ Settled' = Settled
<1> DEFINE m == Head(retry[t])
           InTiers == UNION {Contents(retry[u]) : u \in Tiers}
<1>1. retry[t] \in Seq(Messages) /\ retry[t] # <<>> /\ m \in Messages
  BY DEF ExpireRetry, TypeOK
<1>2. Contents(retry[t]) = {m} \union Contents(Tail(retry[t]))
  BY <1>1, ContentsHeadTail
<1>3. Contents(queue') = Contents(queue) \union {m}
  BY <1>1, ContentsAppend DEF ExpireRetry, TypeOK
<1>4. \A u \in Tiers : retry'[u] = IF u = t THEN Tail(retry[t]) ELSE retry[u]
  BY DEF ExpireRetry, TypeOK
<1>5. InTiers = {m} \union InTiers'
  BY <1>2, <1>4
<1>6. delivered' = delivered
  BY DEF ExpireRetry
<1>7. Contents(delivered') = Contents(delivered)
      /\ Contents(Tail(delivered')) = Contents(Tail(delivered))
  BY <1>6
<1> QED  BY <1>3, <1>5, <1>6, <1>7 DEF Copies, OtherCopies, Settled

\* A retry adds a copy of the delivery to the next tier.
LEMMA RetryAddsCopy ==
    ASSUME TypeOK, DeliveryInProgress, SendRetryCopy
    PROVE  /\ RetryCopy(Settled) \in Messages
           /\ Copies' = Copies \union {RetryCopy(Settled)}
           /\ RetryCopy(Settled) \in OtherCopies'
           /\ Settled' = Settled
<1> DEFINE tier == Settled.attempt + 1
           InTiers == UNION {Contents(retry[u]) : u \in Tiers}
<1>1. Settled \in Messages /\ Settled.attempt < RetryTiers
  BY SettledTypeOK, LimitsAssumption DEF SendRetryCopy, DeliveryInProgress, Spent, Messages
<1>2. RetryCopy(Settled) \in Messages /\ tier \in Tiers
  BY <1>1, LimitsAssumption DEF RetryCopy, Messages, Tiers
<1>3. Contents(Append(retry[tier], RetryCopy(Settled)))
        = Contents(retry[tier]) \union {RetryCopy(Settled)}
  BY <1>2, ContentsAppend DEF TypeOK
<1>4. \A u \in Tiers :
         retry'[u] = IF u = tier THEN Append(retry[tier], RetryCopy(Settled)) ELSE retry[u]
  BY <1>2 DEF SendRetryCopy, TypeOK
<1>5. InTiers' = InTiers \union {RetryCopy(Settled)}
  BY <1>2, <1>3, <1>4
<1>6. queue' = queue /\ delivered' = delivered
  BY DEF SendRetryCopy
<1>7. Contents(queue') = Contents(queue) /\ Contents(delivered') = Contents(delivered)
      /\ Contents(Tail(delivered')) = Contents(Tail(delivered))
  BY <1>6
<1> QED  BY <1>2, <1>5, <1>6, <1>7 DEF Copies, OtherCopies, Settled

\* Requeueing one delivery or all of them loses none.
LEMMA RequeueKeepsCopies ==
    ASSUME TypeOK, DeliveryInProgress, RequeueOriginal \/ CrashConsumer
    PROVE  Copies' = Copies
<1>1. CASE RequeueOriginal
  <2>1. delivered # <<>> /\ Settled \in Messages
    BY <1>1, SettledTypeOK DEF RequeueOriginal, DeliveryInProgress
  <2>2. Contents(delivered) = {Settled} \union Contents(Tail(delivered))
    BY <2>1, ContentsHeadTail DEF TypeOK, Settled
  <2>3. <<Settled>> \in Seq(Messages)
    BY <2>1
  <2>4. Contents(<<Settled>>) = {Settled}
    BY <2>1 DEF Contents
  <2>5. Contents(<<Settled>> \o queue) = {Settled} \union Contents(queue)
    <3>1. queue \in Seq(Messages)
      BY DEF TypeOK
    <3>2. \A s \in Seq(Messages) :
             Contents(s \o queue) = Contents(s) \union Contents(queue)
      BY <3>1, ContentsConcat
    <3>3. Contents(<<Settled>> \o queue) = Contents(<<Settled>>) \union Contents(queue)
      BY <2>3, <3>2, Zenon
    <3> QED  BY <2>4, <3>3
  <2> QED  BY <1>1, <2>2, <2>5 DEF RequeueOriginal, Copies
<1>2. CASE CrashConsumer
  <2>1. Contents(delivered \o queue) = Contents(delivered) \union Contents(queue)
    BY ContentsConcat DEF TypeOK
  <2>2. Contents(<<>>) = {}
    BY DEF Contents
  <2> QED  BY <1>2, <2>1, <2>2 DEF CrashConsumer, Copies
<1> QED  BY <1>1, <1>2

-----------------------------------------------------------------------------
(* The inductive invariant. *)

\* The conjuncts of IInv beyond typing, as the steps below re-establish them.
StateInv ==
    /\ DrainsConsistent
    /\ ClaimsDisjoint
    /\ SettlingConsistent
    /\ AttemptsCounted
    /\ NoStampedEventLost
    /\ AppliedOnce
    /\ OnlyCommittedAnnounced
    /\ StampedOrQuarantined
    /\ DeadLetteredWhenSpent
    /\ WatermarkIsHighest

LEMMA InitStateInv == Init => StateInv
<1> SUFFICES ASSUME Init
             PROVE  StateInv
  OBVIOUS
<1>1. /\ Contents(queue) = {} /\ Contents(delivered) = {}
      /\ \A t \in Tiers : Contents(retry[t]) = {}
  BY DEF Init, Contents
<1>2. Copies = {}
  BY <1>1 DEF Copies
<1>3. \A e \in Events : ~Accounted(e)
  BY <1>2 DEF Init, Accounted
<1>4. DrainsConsistent /\ ClaimsDisjoint
  BY DEF Init, DrainsConsistent, ClaimsDisjoint
<1>5. SettlingConsistent /\ AttemptsCounted
  BY <1>2 DEF Init, SettlingConsistent, AttemptsCounted
<1>6. NoStampedEventLost /\ StampedOrQuarantined /\ OnlyCommittedAnnounced
  BY <1>3 DEF Init, NoStampedEventLost, StampedOrQuarantined, OnlyCommittedAnnounced
<1>7. AppliedOnce /\ DeadLetteredWhenSpent /\ WatermarkIsHighest
  BY DEF Init, AppliedOnce, DeadLetteredWhenSpent, WatermarkIsHighest
<1> QED  BY <1>4, <1>5, <1>6, <1>7 DEF StateInv

\* A publisher only touches rows no relay, message or projection knows.
LEMMA PublisherStateInv ==
    ASSUME IInv, NEW e \in Events, Publisher(e)
    PROVE  StateInv'
<1>1. UNCHANGED <<publishedAt, failedAt, relayVars, brokerVars, consumerVars>>
  BY DEF Publisher, AppendDomainEvent, EndTransaction, CommitEvent, RollbackEvent
<1>2. \A f \in Events : row[f] = "committed" => row'[f] = "committed" /\ seqOf'[f] = seqOf[f]
  BY DEF Publisher, AppendDomainEvent, EndTransaction, CommitEvent, RollbackEvent, IInv, TypeOK
<1>3. Copies' = Copies /\ OtherCopies' = OtherCopies /\ Settled' = Settled
  BY <1>1, CopiesFrame DEF brokerVars
<1>4. \A f \in Events : Accounted(f)' <=> Accounted(f)
  BY <1>1, <1>3 DEF Accounted, brokerVars, consumerVars
<1>5. DrainsConsistent'
  BY <1>1, <1>2, <1>4 DEF IInv, TypeOK, DrainsConsistent, relayVars
<1>6. ClaimsDisjoint' /\ StampedOrQuarantined' /\ NoStampedEventLost'
  BY <1>1, <1>4 DEF IInv, ClaimsDisjoint, StampedOrQuarantined, NoStampedEventLost, relayVars
<1>7. SettlingConsistent' /\ AttemptsCounted'
  BY <1>1, <1>3 DEF IInv, SettlingConsistent, AttemptsCounted, brokerVars, consumerVars
<1>8. OnlyCommittedAnnounced'
  BY <1>2, <1>4 DEF IInv, OnlyCommittedAnnounced
<1>9. AppliedOnce' /\ DeadLetteredWhenSpent'
  BY <1>1 DEF IInv, AppliedOnce, DeadLetteredWhenSpent, brokerVars, consumerVars
<1>10. WatermarkIsHighest'
  <2>1. \A f \in processed : f \in Events /\ row[f] = "committed"
    BY DEF IInv, TypeOK, OnlyCommittedAnnounced, Accounted
  <2>2. \A f \in processed : seqOf'[f] = seqOf[f]
    BY <1>2, <2>1
  <2> QED  BY <1>1, <2>2 DEF IInv, WatermarkIsHighest, consumerVars
<1> QED  BY <1>5, <1>6, <1>7, <1>8, <1>9, <1>10 DEF StateInv

\* Steps of a drain that publish nothing leave the broker and the read model alone.
LEMMA QuietDrainStep ==
    ASSUME IInv, UNCHANGED <<row, seqOf, brokerVars, consumerVars>>
    PROVE  /\ \A e \in Events : Accounted(e)' <=> Accounted(e)
           /\ SettlingConsistent' /\ AttemptsCounted' /\ AppliedOnce'
           /\ OnlyCommittedAnnounced' /\ DeadLetteredWhenSpent' /\ WatermarkIsHighest'
<1>1. Copies' = Copies /\ OtherCopies' = OtherCopies /\ Settled' = Settled
  BY CopiesFrame DEF brokerVars
<1>2. \A e \in Events : Accounted(e)' <=> Accounted(e)
  BY <1>1 DEF Accounted, brokerVars, consumerVars
<1>3. SettlingConsistent' /\ AttemptsCounted'
  BY <1>1 DEF IInv, SettlingConsistent, AttemptsCounted, brokerVars, consumerVars
<1>4. OnlyCommittedAnnounced'
  BY <1>2 DEF IInv, OnlyCommittedAnnounced
<1>5. AppliedOnce' /\ DeadLetteredWhenSpent' /\ WatermarkIsHighest'
  BY DEF IInv, AppliedOnce, DeadLetteredWhenSpent, WatermarkIsHighest, brokerVars, consumerVars
<1> QED  BY <1>2, <1>3, <1>4, <1>5

LEMMA ClaimStateInv ==
    ASSUME IInv, NEW r \in Relays, ClaimUnpublishedEvents(r)
    PROVE  StateInv'
<1>1. PICK batch \in SUBSET Deliverable :
         claimed' = [claimed EXCEPT ![r] = batch] /\ pending' = [pending EXCEPT ![r] = batch]
  BY DEF ClaimUnpublishedEvents
<1>2. /\ claimed[r] = {}
      /\ UNCHANGED <<outbox, confirmed, failures, brokerVars, consumerVars>>
  BY DEF ClaimUnpublishedEvents
<1>3. /\ \A e \in Events : Accounted(e)' <=> Accounted(e)
      /\ SettlingConsistent' /\ AttemptsCounted' /\ AppliedOnce'
      /\ OnlyCommittedAnnounced' /\ DeadLetteredWhenSpent' /\ WatermarkIsHighest'
  BY <1>2, QuietDrainStep DEF outbox
<1>4. /\ batch \subseteq Events
      /\ \A e \in batch : row[e] = "committed" /\ ~publishedAt[e] /\ ~failedAt[e]
      /\ \A s \in Relays : batch \intersect claimed[s] = {}
  BY <1>1 DEF Deliverable, Recorded, Locked
<1>5. /\ claimed \in [Relays -> SUBSET Events] /\ pending \in [Relays -> SUBSET Events]
  BY DEF IInv, TypeOK
<1>6. /\ claimed'[r] = batch /\ pending'[r] = batch
      /\ \A s \in Relays \ {r} : claimed'[s] = claimed[s] /\ pending'[s] = pending[s]
  BY <1>1, <1>5
<1>7. confirmed[r] = {} /\ failures[r] = {}
  BY <1>2 DEF IInv, DrainsConsistent
<1>8. DrainsConsistent'
  <2> SUFFICES ASSUME NEW s \in Relays
               PROVE /\ pending'[s] \union confirmed'[s] \union failures'[s] \subseteq claimed'[s]
                     /\ pending'[s] \intersect confirmed'[s] = {}
                     /\ pending'[s] \intersect failures'[s] = {}
                     /\ confirmed'[s] \intersect failures'[s] = {}
                     /\ \A e \in claimed'[s] :
                           row'[e] = "committed" /\ ~publishedAt'[e] /\ ~failedAt'[e]
                     /\ \A e \in confirmed'[s] : Accounted(e)'
    BY DEF DrainsConsistent
  <2>1. confirmed[s] \subseteq Events
    BY DEF IInv, TypeOK
  <2>2. CASE s = r
    BY <1>2, <1>4, <1>6, <1>7, <2>2 DEF outbox
  <2>3. CASE s # r
    BY <1>2, <1>3, <1>6, <2>1, <2>3 DEF IInv, DrainsConsistent, outbox
  <2> QED  BY <2>2, <2>3
<1>9. ClaimsDisjoint'
  BY <1>4, <1>6 DEF IInv, ClaimsDisjoint
<1>10. NoStampedEventLost' /\ StampedOrQuarantined'
  BY <1>2, <1>3 DEF IInv, NoStampedEventLost, StampedOrQuarantined, outbox
<1> QED  BY <1>3, <1>8, <1>9, <1>10 DEF StateInv

LEMMA SkipStateInv ==
    ASSUME IInv, NEW r \in Relays, SkipUnparsable(r)
    PROVE  StateInv'
<1>1. PICK e \in pending[r] \intersect Unparsable :
         /\ pending' = [pending EXCEPT ![r] = @ \ {e}]
         /\ failures' = [failures EXCEPT ![r] = @ \union {e}]
  BY DEF SkipUnparsable
<1>2. UNCHANGED <<outbox, claimed, confirmed, brokerVars, consumerVars>>
  BY DEF SkipUnparsable
<1>3. /\ \A f \in Events : Accounted(f)' <=> Accounted(f)
      /\ SettlingConsistent' /\ AttemptsCounted' /\ AppliedOnce'
      /\ OnlyCommittedAnnounced' /\ DeadLetteredWhenSpent' /\ WatermarkIsHighest'
  BY <1>2, QuietDrainStep DEF outbox
<1>4. DrainsConsistent'
  BY <1>1, <1>2, <1>3 DEF IInv, TypeOK, DrainsConsistent, outbox
<1>5. ClaimsDisjoint' /\ NoStampedEventLost' /\ StampedOrQuarantined'
  BY <1>2, <1>3 DEF IInv, ClaimsDisjoint, NoStampedEventLost, StampedOrQuarantined, outbox
<1> QED  BY <1>3, <1>4, <1>5 DEF StateInv

\* What a publish changes besides the relay's own lists.
LEMMA PublishEffect ==
    ASSUME IInv, NEW r \in Relays, NEW e \in pending[r], Route(e),
           UNCHANGED <<outbox, claimed, delivered, retry, dlq, consumerVars>>
    PROVE  /\ e \in Events /\ row[e] = "committed" /\ Accounted(e)'
           /\ \A f \in Events : Accounted(f) => Accounted(f)'
           /\ ClaimsDisjoint' /\ SettlingConsistent' /\ AttemptsCounted'
           /\ NoStampedEventLost' /\ AppliedOnce' /\ OnlyCommittedAnnounced'
           /\ StampedOrQuarantined' /\ DeadLetteredWhenSpent' /\ WatermarkIsHighest'
<1> DEFINE m == [event |-> e, attempt |-> 0]
<1>1. e \in Events /\ row[e] = "committed"
  BY DEF IInv, TypeOK, DrainsConsistent
<1>2. /\ Copies \subseteq Copies' /\ Copies' \subseteq Copies \union {m}
      /\ OtherCopies \subseteq OtherCopies'
      /\ discarded \subseteq discarded' /\ discarded' \subseteq discarded \union {e}
      /\ Accounted(e)'
  BY <1>1, RouteAccounts DEF IInv, consumerVars
<1>3. m.event = e /\ m.attempt = 0
  OBVIOUS
<1>4. \A f \in Events : Accounted(f) => Accounted(f)'
  BY <1>2 DEF Accounted, consumerVars
<1>5. \A f \in Events : Accounted(f)' => Accounted(f) \/ f = e
  BY <1>2, <1>3 DEF Accounted, consumerVars
<1>6. OnlyCommittedAnnounced'
  BY <1>1, <1>5 DEF IInv, OnlyCommittedAnnounced, outbox
<1>7. Settled' = Settled
  BY DEF Settled
<1>8. SettlingConsistent'
  BY <1>2, <1>7 DEF IInv, SettlingConsistent, consumerVars
<1>9. AttemptsCounted'
  <2>1. faults[e] \in Nat
    BY <1>1 DEF IInv, TypeOK
  <2> QED  BY <1>2, <1>3, <1>7, <2>1 DEF IInv, AttemptsCounted, consumerVars
<1>10. ClaimsDisjoint' /\ NoStampedEventLost' /\ StampedOrQuarantined'
  BY <1>4 DEF IInv, ClaimsDisjoint, NoStampedEventLost, StampedOrQuarantined, outbox
<1>11. AppliedOnce' /\ DeadLetteredWhenSpent' /\ WatermarkIsHighest'
  BY DEF IInv, AppliedOnce, DeadLetteredWhenSpent, WatermarkIsHighest, outbox, consumerVars
<1> QED  BY <1>1, <1>2, <1>4, <1>6, <1>8, <1>9, <1>10, <1>11

LEMMA PublishConfirmedStateInv ==
    ASSUME IInv, NEW r \in Relays, PublishConfirmed(r)
    PROVE  StateInv'
<1>1. PICK e \in pending[r] \ Unparsable :
         /\ Route(e)
         /\ pending' = [pending EXCEPT ![r] = @ \ {e}]
         /\ confirmed' = [confirmed EXCEPT ![r] = @ \union {e}]
  BY DEF PublishConfirmed
<1>2. UNCHANGED <<outbox, claimed, failures, delivered, retry, dlq, consumerVars>>
  BY DEF PublishConfirmed
<1>3. /\ e \in Events /\ row[e] = "committed" /\ Accounted(e)'
      /\ \A f \in Events : Accounted(f) => Accounted(f)'
      /\ ClaimsDisjoint' /\ SettlingConsistent' /\ AttemptsCounted'
      /\ NoStampedEventLost' /\ AppliedOnce' /\ OnlyCommittedAnnounced'
      /\ StampedOrQuarantined' /\ DeadLetteredWhenSpent' /\ WatermarkIsHighest'
  BY <1>1, <1>2, PublishEffect
<1>4. DrainsConsistent'
  BY <1>1, <1>2, <1>3 DEF IInv, TypeOK, DrainsConsistent, outbox
<1> QED  BY <1>3, <1>4 DEF StateInv

LEMMA PublishRefusedStateInv ==
    ASSUME IInv, NEW r \in Relays, PublishRefused(r)
    PROVE  StateInv'
<1>1. PICK e \in pending[r] \ Unparsable :
         /\ Route(e) \/ UNCHANGED <<queue, discarded>>
         /\ failures' = [failures EXCEPT ![r] = @ \union {e}]
         /\ pending' = [pending EXCEPT ![r] = LeftAfterRefusal(@, e)]
  BY DEF PublishRefused
<1>2. UNCHANGED <<outbox, claimed, confirmed, bound, delivered, retry, dlq, consumerVars>>
  BY DEF PublishRefused
<1>3. /\ \A f \in Events : Accounted(f) => Accounted(f)'
      /\ ClaimsDisjoint' /\ SettlingConsistent' /\ AttemptsCounted'
      /\ NoStampedEventLost' /\ AppliedOnce' /\ OnlyCommittedAnnounced'
      /\ StampedOrQuarantined' /\ DeadLetteredWhenSpent' /\ WatermarkIsHighest'
  <2>1. CASE Route(e)
    BY <1>1, <1>2, <2>1, PublishEffect
  <2>2. CASE UNCHANGED <<queue, discarded>>
    <3>1. UNCHANGED brokerVars
      BY <1>2, <2>2 DEF brokerVars
    <3>2. /\ \A f \in Events : Accounted(f)' <=> Accounted(f)
          /\ SettlingConsistent' /\ AttemptsCounted' /\ AppliedOnce'
          /\ OnlyCommittedAnnounced' /\ DeadLetteredWhenSpent' /\ WatermarkIsHighest'
      BY <1>2, <3>1, QuietDrainStep DEF outbox
    <3>3. ClaimsDisjoint' /\ NoStampedEventLost' /\ StampedOrQuarantined'
      BY <1>2, <3>2 DEF IInv, ClaimsDisjoint, NoStampedEventLost, StampedOrQuarantined, outbox
    <3> QED  BY <3>2, <3>3
  <2> QED  BY <1>1, <2>1, <2>2
<1>4. /\ pending'[r] = {} /\ failures'[r] = failures[r] \union {e}
      /\ \A s \in Relays \ {r} : pending'[s] = pending[s] /\ failures'[s] = failures[s]
  BY <1>1 DEF IInv, TypeOK, LeftAfterRefusal
<1>5. \A s \in Relays : confirmed[s] \subseteq Events
  BY DEF IInv, TypeOK
<1>6. DrainsConsistent'
  BY <1>1, <1>2, <1>3, <1>4, <1>5 DEF IInv, DrainsConsistent, outbox
<1> QED  BY <1>3, <1>6 DEF StateInv

LEMMA FinishDrainStateInv ==
    ASSUME IInv, NEW r \in Relays, FinishDrain(r)
    PROVE  StateInv'
<1>1. UNCHANGED <<row, seqOf, pending, brokerVars, consumerVars>> /\ pending[r] = {}
  BY DEF FinishDrain
<1>2. /\ \A f \in Events : Accounted(f)' <=> Accounted(f)
      /\ SettlingConsistent' /\ AttemptsCounted' /\ AppliedOnce'
      /\ OnlyCommittedAnnounced' /\ DeadLetteredWhenSpent' /\ WatermarkIsHighest'
  BY <1>1, QuietDrainStep
<1>3. /\ claimed'[r] = {} /\ confirmed'[r] = {} /\ failures'[r] = {}
      /\ \A s \in Relays \ {r} : /\ claimed'[s] = claimed[s]
                                /\ confirmed'[s] = confirmed[s]
                                /\ failures'[s] = failures[s]
  BY DEF FinishDrain, IInv, TypeOK
<1>4. \A f \in Events : publishedAt'[f] <=> publishedAt[f] \/ f \in confirmed[r]
  BY Zenon DEF FinishDrain
<1>5. \A f \in Events : f \notin failures[r] => (failedAt'[f] <=> failedAt[f])
  BY Zenon DEF FinishDrain
<1>6. /\ confirmed[r] \subseteq claimed[r] /\ failures[r] \subseteq claimed[r]
      /\ confirmed[r] \intersect failures[r] = {}
      /\ \A f \in claimed[r] : f \in Events /\ ~publishedAt[f] /\ ~failedAt[f]
      /\ \A f \in confirmed[r] : Accounted(f)
  BY DEF IInv, TypeOK, DrainsConsistent
<1>7. ClaimsDisjoint'
  BY <1>3 DEF IInv, ClaimsDisjoint
<1>8. NoStampedEventLost'
  BY <1>2, <1>4, <1>6 DEF IInv, NoStampedEventLost
<1>9. StampedOrQuarantined'
  BY <1>4, <1>5, <1>6 DEF IInv, StampedOrQuarantined
<1>10. ASSUME NEW s \in Relays \ {r}, NEW f \in claimed[s]
       PROVE  ~publishedAt'[f] /\ ~failedAt'[f]
  <2>1. f \in Events /\ ~publishedAt[f] /\ ~failedAt[f]
    BY DEF IInv, TypeOK, DrainsConsistent
  <2>2. f \notin claimed[r]
    BY DEF IInv, ClaimsDisjoint
  <2> QED  BY <1>4, <1>5, <1>6, <2>1, <2>2
<1>11. \A s \in Relays : confirmed[s] \subseteq Events
  BY DEF IInv, TypeOK
<1>12. DrainsConsistent'
  BY <1>1, <1>2, <1>3, <1>10, <1>11 DEF IInv, DrainsConsistent
<1> QED  BY <1>2, <1>7, <1>8, <1>9, <1>12 DEF StateInv

LEMMA CrashRelayStateInv ==
    ASSUME IInv, NEW r \in Relays, CrashRelay(r)
    PROVE  StateInv'
<1>1. UNCHANGED <<outbox, brokerVars, consumerVars>>
  BY DEF CrashRelay
<1>2. /\ \A f \in Events : Accounted(f)' <=> Accounted(f)
      /\ SettlingConsistent' /\ AttemptsCounted' /\ AppliedOnce'
      /\ OnlyCommittedAnnounced' /\ DeadLetteredWhenSpent' /\ WatermarkIsHighest'
  BY <1>1, QuietDrainStep DEF outbox
<1>3. /\ claimed'[r] = {} /\ pending'[r] = {} /\ confirmed'[r] = {} /\ failures'[r] = {}
      /\ \A s \in Relays \ {r} :
           /\ claimed'[s] = claimed[s] /\ pending'[s] = pending[s]
           /\ confirmed'[s] = confirmed[s] /\ failures'[s] = failures[s]
  BY DEF CrashRelay, IInv, TypeOK
<1>4. \A s \in Relays : confirmed[s] \subseteq Events
  BY DEF IInv, TypeOK
<1>5. DrainsConsistent'
  BY <1>1, <1>2, <1>3, <1>4 DEF IInv, DrainsConsistent, outbox
<1>6. ClaimsDisjoint' /\ NoStampedEventLost' /\ StampedOrQuarantined'
  BY <1>1, <1>2, <1>3
     DEF IInv, ClaimsDisjoint, NoStampedEventLost, StampedOrQuarantined, outbox
<1> QED  BY <1>2, <1>5, <1>6 DEF StateInv

\* Steps of the broker and the consumer keep what the relays rely on, provided every
\* event that was accounted for still is.
LEMMA RelaysUndisturbed ==
    ASSUME IInv, UNCHANGED <<outbox, relayVars>>,
           \A e \in Events : Accounted(e) => Accounted(e)'
    PROVE  DrainsConsistent' /\ ClaimsDisjoint' /\ NoStampedEventLost' /\ StampedOrQuarantined'
<1>1. \A s \in Relays : confirmed[s] \subseteq Events
  BY DEF IInv, TypeOK
<1>2. DrainsConsistent'
  BY <1>1 DEF IInv, DrainsConsistent, outbox, relayVars
<1> QED  BY <1>2
         DEF IInv, ClaimsDisjoint, NoStampedEventLost, StampedOrQuarantined, outbox, relayVars

\* Steps that only move copies: deliveries, expiries and requeues.
LEMMA MovesOnly ==
    ASSUME IInv, UNCHANGED <<outbox, relayVars, dlq, discarded, processed, projected,
                             lastSequence, faults>>,
           Copies' = Copies, SettlingConsistent',
           settling' = "idle" \/ (settling' = settling /\ Settled' = Settled)
    PROVE  StateInv'
<1>1. \A e \in Events : Accounted(e)' <=> Accounted(e)
  BY DEF Accounted
<1>2. DrainsConsistent' /\ ClaimsDisjoint' /\ NoStampedEventLost' /\ StampedOrQuarantined'
  BY <1>1, RelaysUndisturbed
<1>3. OnlyCommittedAnnounced'
  BY <1>1 DEF IInv, OnlyCommittedAnnounced, outbox
<1>4. AttemptsCounted'
  BY DEF IInv, AttemptsCounted
<1>5. AppliedOnce' /\ DeadLetteredWhenSpent' /\ WatermarkIsHighest'
  BY DEF IInv, AppliedOnce, DeadLetteredWhenSpent, WatermarkIsHighest, outbox
<1> QED  BY <1>2, <1>3, <1>4, <1>5 DEF StateInv

LEMMA BrokerStateInv ==
    ASSUME IInv, Broker
    PROVE  StateInv'
<1>1. CASE BindQueue
  <2>1. UNCHANGED <<outbox, relayVars, queue, delivered, retry, dlq, discarded, consumerVars>>
    BY <1>1 DEF BindQueue
  <2>2. Copies' = Copies /\ OtherCopies' = OtherCopies /\ Settled' = Settled
    BY <2>1, CopiesFrame
  <2>3. SettlingConsistent'
    BY <2>1, <2>2 DEF IInv, SettlingConsistent, consumerVars
  <2> QED  BY <2>1, <2>2, <2>3, MovesOnly DEF consumerVars
<1>2. CASE Deliver
  <2>1. UNCHANGED <<outbox, relayVars, dlq, discarded, consumerVars>>
    BY <1>2 DEF Deliver
  <2>2. Copies' = Copies
        /\ (delivered # <<>> => OtherCopies' = OtherCopies /\ Settled' = Settled)
    BY <1>2, DeliverKeepsCopies DEF IInv
  <2>3. settling # "idle" => delivered # <<>>
    BY DEF IInv, DeliveryInProgress
  <2>4. SettlingConsistent'
    BY <2>1, <2>2, <2>3 DEF IInv, SettlingConsistent, consumerVars
  <2> QED  BY <2>1, <2>2, <2>3, <2>4, MovesOnly DEF consumerVars
<1>3. ASSUME NEW t \in Tiers, ExpireRetry(t)
      PROVE  StateInv'
  <2>1. UNCHANGED <<outbox, relayVars, dlq, discarded, consumerVars>>
    BY <1>3 DEF ExpireRetry
  <2>2. Copies' = Copies /\ OtherCopies' = OtherCopies /\ Settled' = Settled
    BY <1>3, ExpireKeepsCopies DEF IInv
  <2>3. SettlingConsistent'
    BY <2>1, <2>2 DEF IInv, SettlingConsistent, consumerVars
  <2> QED  BY <2>1, <2>2, <2>3, MovesOnly DEF consumerVars
<1> QED  BY <1>1, <1>2, <1>3 DEF Broker

\* A delivery that is settled is a copy of a committed event.
LEMMA SettledIsAccounted ==
    ASSUME IInv, delivered # <<>>
    PROVE  /\ Settled \in Copies /\ Settled \in Messages /\ Settled.event \in Events
           /\ Accounted(Settled.event) /\ row[Settled.event] = "committed"
<1>1. Settled \in Copies /\ Settled \in Messages /\ Settled.event \in Events
  BY CopiesSplit, SettledTypeOK DEF IInv
<1>2. Accounted(Settled.event)
  BY <1>1 DEF Accounted
<1> QED  BY <1>1, <1>2 DEF IInv, OnlyCommittedAnnounced

\* AnalyticsStore.apply keeps the ledger and the watermark right.
LEMMA ApplyKeepsLedger ==
    ASSUME IInv, NEW e \in Events, Apply(e), UNCHANGED outbox
    PROVE  /\ AppliedOnce' /\ WatermarkIsHighest'
           /\ e \in processed' /\ processed \subseteq processed'
           /\ processed' \subseteq processed \union {e}
<1>1. CASE e \in processed
  <2>1. UNCHANGED <<processed, projected, lastSequence>>
    BY <1>1 DEF Apply
  <2> QED  BY <1>1, <2>1 DEF IInv, AppliedOnce, WatermarkIsHighest, outbox
<1>2. CASE e \notin processed
  <2>1. /\ processed' = processed \union {e}
        /\ projected' = [projected EXCEPT ![e] = @ + 1]
        /\ lastSequence' = WatermarkAfter(e)
    BY <1>2 DEF Apply
  <2>2. AppliedOnce'
    BY <1>2, <2>1 DEF IInv, TypeOK, AppliedOnce
  <2>3. /\ lastSequence \in Nat /\ \A f \in Events : seqOf[f] \in Nat
        /\ processed \subseteq Events /\ seqOf' = seqOf
    BY DEF IInv, TypeOK, outbox
  <2>4. WatermarkIsHighest'
    <3>1. CASE seqOf[e] > lastSequence
      <4>1. lastSequence' = seqOf[e]
        BY <2>1, <3>1 DEF WatermarkAfter
      <4> QED  BY <2>1, <2>3, <3>1, <4>1 DEF IInv, WatermarkIsHighest
    <3>2. CASE ~(seqOf[e] > lastSequence)
      <4>1. lastSequence' = lastSequence /\ seqOf[e] <= lastSequence
        BY <2>1, <2>3, <3>2 DEF WatermarkAfter
      <4>2. CASE processed = {}
        <5>1. seqOf[e] = lastSequence
          BY <2>3, <4>1, <4>2 DEF IInv, WatermarkIsHighest
        <5> QED  BY <2>1, <2>3, <4>1, <4>2, <5>1 DEF WatermarkIsHighest
      <4>3. CASE processed # {}
        BY <2>1, <2>3, <4>1, <4>3 DEF IInv, WatermarkIsHighest
      <4> QED  BY <4>2, <4>3
    <3> QED  BY <3>1, <3>2
  <2> QED  BY <2>1, <2>2, <2>4
<1> QED  BY <1>1, <1>2

\* The handler ran, with or without effect, and the delivery is still unacknowledged.
LEMMA HandledStateInv ==
    ASSUME IInv, HandleEvent \/ HandleFails
    PROVE  StateInv'
<1> DEFINE e == Settled.event
<1>1. delivered # <<>> /\ UNCHANGED <<outbox, relayVars, brokerVars>>
  BY DEF HandleEvent, HandleFails
<1>2. /\ Settled \in Copies /\ Settled \in Messages /\ e \in Events
      /\ Accounted(e) /\ row[e] = "committed"
  BY <1>1, SettledIsAccounted
<1>3. Copies' = Copies /\ OtherCopies' = OtherCopies /\ Settled' = Settled
  BY <1>1, CopiesFrame DEF brokerVars
<1>4. Apply(e) \/ UNCHANGED <<processed, projected, lastSequence>>
  BY DEF HandleEvent, HandleFails
<1>5. /\ AppliedOnce' /\ WatermarkIsHighest'
      /\ processed \subseteq processed' /\ processed' \subseteq processed \union {e}
  <2>1. CASE Apply(e)
    BY <1>1, <1>2, <2>1, ApplyKeepsLedger
  <2>2. CASE UNCHANGED <<processed, projected, lastSequence>>
    BY <1>1, <2>2 DEF IInv, AppliedOnce, WatermarkIsHighest, outbox
  <2> QED  BY <1>4, <2>1, <2>2
<1>6. /\ \A f \in Events : faults[f] <= faults'[f] /\ faults[f] \in Nat
      /\ faults' \in [Events -> Nat]
      /\ settling' = "failed" => faults[e] < faults'[e]
      /\ settling' \in {"handled", "failed"}
      /\ settling' = "handled" => Apply(e)
  <2>1. faults \in [Events -> Nat]
    BY DEF IInv, TypeOK
  <2>2. CASE HandleEvent
    <3>1. faults' = faults /\ settling' = "handled" /\ Apply(e)
      BY <2>2 DEF HandleEvent
    <3> QED  BY <2>1, <3>1
  <2>3. CASE HandleFails
    <3>1. faults' = [faults EXCEPT ![e] = @ + 1] /\ settling' = "failed"
      BY <2>3 DEF HandleFails
    <3> QED  BY <1>2, <2>1, <3>1
  <2> QED  BY <2>2, <2>3
<1>7. \A f \in Events : Accounted(f) => Accounted(f)'
  BY <1>1, <1>3, <1>5 DEF Accounted, brokerVars
<1>8. \A f \in Events : Accounted(f)' => Accounted(f)
  BY <1>1, <1>2, <1>3, <1>5 DEF Accounted, brokerVars
<1>9. DrainsConsistent' /\ ClaimsDisjoint' /\ NoStampedEventLost' /\ StampedOrQuarantined'
  BY <1>1, <1>7, RelaysUndisturbed
<1>10. OnlyCommittedAnnounced'
  BY <1>1, <1>8 DEF IInv, OnlyCommittedAnnounced, outbox
<1>11. SettlingConsistent'
  <2>1. settling' = "handled" => e \in processed'
    BY <1>1, <1>2, <1>6, ApplyKeepsLedger
  <2> QED  BY <1>3, <1>6, <2>1 DEF SettlingConsistent
<1>12. AttemptsCounted'
  <2>1. \A m \in Copies : m.event \in Events /\ m.attempt \in Nat
    BY CopiesAreMessages, LimitsAssumption DEF IInv, Messages
  <2>2. \A m \in Copies : faults'[m.event] \in Nat
    BY <1>6, <2>1
  <2>3. \A m \in Copies : m.attempt <= faults'[m.event]
    BY <1>6, <2>1, <2>2 DEF IInv, AttemptsCounted
  <2>4. settling' = "failed" => Settled.attempt < faults'[Settled.event]
    BY <1>2, <1>6, <2>1, <2>2 DEF IInv, AttemptsCounted
  <2> QED  BY <1>3, <2>3, <2>4 DEF AttemptsCounted
<1>13. DeadLetteredWhenSpent'
  <2>1. \A f \in dlq : f \in Events
    BY DEF IInv, TypeOK
  <2>2. faults' \in [Events -> Nat] /\ dlq' = dlq
    BY <1>1, <1>6 DEF brokerVars
  <2> QED  BY <1>6, <2>1, <2>2, LimitsAssumption DEF IInv, DeadLetteredWhenSpent
<1> QED  BY <1>5, <1>9, <1>10, <1>11, <1>12, <1>13 DEF StateInv

\* The delivery left for the dead-letter queue.
LEMMA DeadLetteredStateInv ==
    ASSUME IInv, DeadLetterUnreadable \/ GiveUp
    PROVE  StateInv'
<1> DEFINE e == Settled.event
<1>1. /\ delivered # <<>> /\ delivered' = Tail(delivered) /\ dlq' = dlq \union {e}
      /\ UNCHANGED <<outbox, relayVars, queue, retry, discarded, processed, projected,
                     lastSequence, faults>>
      /\ settling' = "idle"
  BY DEF DeadLetterUnreadable, GiveUp, IInv, DeliveryInProgress, consumerVars
<1>2. /\ Settled \in Copies /\ Settled \in Messages /\ e \in Events
      /\ Accounted(e) /\ row[e] = "committed"
  BY <1>1, SettledIsAccounted
<1>3. Copies = OtherCopies \union {Settled}
  BY <1>1, CopiesSplit DEF IInv
<1>4. Copies' = OtherCopies
  BY <1>1 DEF Copies, OtherCopies, Contents
<1>5. \A f \in Events : Accounted(f)' <=> Accounted(f)
  BY <1>1, <1>2, <1>3, <1>4 DEF Accounted
<1>6. DrainsConsistent' /\ ClaimsDisjoint' /\ NoStampedEventLost' /\ StampedOrQuarantined'
  BY <1>1, <1>5, RelaysUndisturbed
<1>7. OnlyCommittedAnnounced'
  BY <1>1, <1>5 DEF IInv, OnlyCommittedAnnounced, outbox
<1>8. SettlingConsistent' /\ AttemptsCounted'
  BY <1>1, <1>3, <1>4 DEF IInv, SettlingConsistent, AttemptsCounted
<1>9. DeadLetteredWhenSpent'
  <2>1. e \in Unreadable \/ faults[e] > RetryTiers
    <3>1. CASE DeadLetterUnreadable
      BY <3>1 DEF DeadLetterUnreadable
    <3>2. CASE GiveUp
      <4>1. Settled.attempt >= RetryTiers /\ Settled.attempt < faults[e]
        BY <3>2 DEF GiveUp, Spent, IInv, AttemptsCounted
      <4>2. Settled.attempt \in Nat /\ faults[e] \in Nat
        BY <1>2, LimitsAssumption DEF Messages, IInv, TypeOK
      <4> QED  BY <4>1, <4>2, LimitsAssumption
    <3> QED  BY <3>1, <3>2
  <2> QED  BY <1>1, <2>1 DEF IInv, DeadLetteredWhenSpent
<1>10. AppliedOnce' /\ WatermarkIsHighest'
  BY <1>1 DEF IInv, AppliedOnce, WatermarkIsHighest, outbox
<1> QED  BY <1>6, <1>7, <1>8, <1>9, <1>10 DEF StateInv

LEMMA SendRetryCopyStateInv ==
    ASSUME IInv, SendRetryCopy
    PROVE  StateInv'
<1> DEFINE e == Settled.event
<1>1. /\ delivered # <<>> /\ settling = "failed" /\ settling' = "copied"
      /\ UNCHANGED <<outbox, relayVars, dlq, discarded, processed, projected,
                     lastSequence, faults>>
  BY DEF SendRetryCopy, IInv, DeliveryInProgress
<1>2. /\ Settled \in Copies /\ Settled \in Messages /\ e \in Events
      /\ Accounted(e) /\ row[e] = "committed"
  BY <1>1, SettledIsAccounted
<1>3. /\ RetryCopy(Settled) \in Messages
      /\ Copies' = Copies \union {RetryCopy(Settled)}
      /\ RetryCopy(Settled) \in OtherCopies'
      /\ Settled' = Settled
  BY RetryAddsCopy DEF IInv
<1>4. RetryCopy(Settled).event = e /\ RetryCopy(Settled).attempt = Settled.attempt + 1
  BY <1>2 DEF RetryCopy, Messages
<1>5. \A f \in Events : Accounted(f)' <=> Accounted(f)
  BY <1>1, <1>2, <1>3, <1>4 DEF Accounted
<1>6. DrainsConsistent' /\ ClaimsDisjoint' /\ NoStampedEventLost' /\ StampedOrQuarantined'
  BY <1>1, <1>5, RelaysUndisturbed
<1>7. OnlyCommittedAnnounced'
  BY <1>1, <1>5 DEF IInv, OnlyCommittedAnnounced, outbox
<1>8. SettlingConsistent'
  BY <1>1, <1>3, <1>4 DEF SettlingConsistent
<1>9. AttemptsCounted'
  <2>1. Settled.attempt \in Nat /\ faults[e] \in Nat /\ Settled.attempt < faults[e]
    BY <1>1, <1>2, LimitsAssumption DEF Messages, IInv, TypeOK, AttemptsCounted
  <2>2. RetryCopy(Settled).attempt <= faults[RetryCopy(Settled).event]
    BY <1>4, <2>1
  <2> QED  BY <1>1, <1>3, <2>2 DEF IInv, AttemptsCounted
<1>10. AppliedOnce' /\ DeadLetteredWhenSpent' /\ WatermarkIsHighest'
  BY <1>1 DEF IInv, AppliedOnce, DeadLetteredWhenSpent, WatermarkIsHighest, outbox
<1> QED  BY <1>6, <1>7, <1>8, <1>9, <1>10 DEF StateInv

\* What is acknowledged is accounted for without the original.
LEMMA AcknowledgeStateInv ==
    ASSUME IInv, Acknowledge
    PROVE  StateInv'
<1> DEFINE e == Settled.event
<1>1. /\ delivered # <<>> /\ delivered' = Tail(delivered)
      /\ settling \in {"handled", "copied"} /\ settling' = "idle"
      /\ UNCHANGED <<outbox, relayVars, queue, retry, dlq, discarded, processed, projected,
                     lastSequence, faults>>
  BY DEF Acknowledge, IInv, DeliveryInProgress
<1>2. Copies = OtherCopies \union {Settled} /\ Copies' = OtherCopies
  <2>1. Copies = OtherCopies \union {Settled}
    BY <1>1, CopiesSplit DEF IInv
  <2>2. Copies' = OtherCopies
    BY <1>1 DEF Copies, OtherCopies, Contents
  <2> QED  BY <2>1, <2>2
<1>3. \/ e \in processed \union dlq \union discarded
      \/ \E m \in OtherCopies : m.event = e
  BY <1>1 DEF IInv, SettlingConsistent
<1>4. \A f \in Events : Accounted(f)' <=> Accounted(f)
  BY <1>1, <1>2, <1>3 DEF Accounted
<1>5. DrainsConsistent' /\ ClaimsDisjoint' /\ NoStampedEventLost' /\ StampedOrQuarantined'
  BY <1>1, <1>4, RelaysUndisturbed
<1>6. OnlyCommittedAnnounced'
  BY <1>1, <1>4 DEF IInv, OnlyCommittedAnnounced, outbox
<1>7. SettlingConsistent' /\ AttemptsCounted'
  BY <1>1, <1>2 DEF IInv, SettlingConsistent, AttemptsCounted
<1>8. AppliedOnce' /\ DeadLetteredWhenSpent' /\ WatermarkIsHighest'
  BY <1>1 DEF IInv, AppliedOnce, DeadLetteredWhenSpent, WatermarkIsHighest, outbox
<1> QED  BY <1>5, <1>6, <1>7, <1>8 DEF StateInv

LEMMA RequeueStateInv ==
    ASSUME IInv, RequeueOriginal \/ CrashConsumer
    PROVE  StateInv'
<1>1. /\ settling' = "idle"
      /\ UNCHANGED <<outbox, relayVars, dlq, discarded, processed, projected,
                     lastSequence, faults>>
  BY DEF RequeueOriginal, CrashConsumer
<1>2. Copies' = Copies
  BY RequeueKeepsCopies DEF IInv
<1>3. SettlingConsistent'
  BY <1>1 DEF SettlingConsistent
<1> QED  BY <1>1, <1>2, <1>3, MovesOnly

\* No step leaves the inductive invariant.
LEMMA NextIInv == IInv /\ [Next]_vars => IInv'
<1> SUFFICES ASSUME IInv, [Next]_vars
             PROVE  IInv'
  OBVIOUS
<1>1. TypeOK' /\ DeliveryInProgress'
  BY NextTypeOK, NextDeliveryInProgress DEF IInv
<1>2. StateInv'
  <2>1. ASSUME NEW e \in Events, Publisher(e)
        PROVE  StateInv'
    BY <2>1, PublisherStateInv
  <2>2. ASSUME NEW r \in Relays, Relay(r)
        PROVE  StateInv'
    BY <2>2, ClaimStateInv, SkipStateInv, PublishConfirmedStateInv, PublishRefusedStateInv,
       FinishDrainStateInv, CrashRelayStateInv DEF Relay, PublishNext
  <2>3. CASE Broker
    BY <2>3, BrokerStateInv
  <2>4. CASE Consumer
    BY <2>4, HandledStateInv, DeadLetteredStateInv, SendRetryCopyStateInv,
       AcknowledgeStateInv, RequeueStateInv DEF Consumer, SettleDelivery
  <2>5. CASE UNCHANGED vars
    <3>1. UNCHANGED <<outbox, relayVars, brokerVars, consumerVars>>
      BY <2>5 DEF vars
    <3>2. Copies' = Copies /\ OtherCopies' = OtherCopies /\ Settled' = Settled
      BY <3>1, CopiesFrame DEF brokerVars
    <3>3. SettlingConsistent'
      BY <3>1, <3>2 DEF IInv, SettlingConsistent, brokerVars, consumerVars
    <3> QED  BY <3>1, <3>2, <3>3, MovesOnly DEF brokerVars, consumerVars
  <2> QED  BY <2>1, <2>2, <2>3, <2>4, <2>5 DEF Next
<1> QED  BY <1>1, <1>2 DEF IInv, StateInv

\* The inductive invariant holds in every reachable state.
THEOREM Invariant == Spec => []IInv
<1>1. Init => IInv
  BY InitTypeOK, InitStateInv DEF Init, IInv, StateInv, DeliveryInProgress
<1> QED  BY <1>1, NextIInv, PTL DEF Spec

\* A stamped event is projected, set aside or still in the broker: published_at is never
\* set on an event that is lost.
THEOREM StampedEventsSurvive == Spec => []NoStampedEventLost
<1>1. IInv => NoStampedEventLost
  BY DEF IInv
<1> QED  BY <1>1, Invariant, PTL

\* Every delivery beyond the first leaves the projections alone.
THEOREM ProjectedOnce == Spec => []AppliedOnce
<1>1. IInv => AppliedOnce
  BY DEF IInv
<1> QED  BY <1>1, Invariant, PTL

\* Nothing a rolled-back transaction recorded is ever announced.
THEOREM AnnouncedIsCommitted == Spec => []OnlyCommittedAnnounced
<1>1. IInv => OnlyCommittedAnnounced
  BY DEF IInv
<1> QED  BY <1>1, Invariant, PTL

\* Relays partition the backlog, so a row is stamped or quarantined, never both.
THEOREM RelaysPartition == Spec => [](ClaimsDisjoint /\ StampedOrQuarantined)
<1>1. IInv => ClaimsDisjoint /\ StampedOrQuarantined
  BY DEF IInv
<1> QED  BY <1>1, Invariant, PTL

\* A readable event is dead-lettered only after every tier has failed.
THEOREM AttemptsExhausted == Spec => []DeadLetteredWhenSpent
<1>1. IInv => DeadLetteredWhenSpent
  BY DEF IInv
<1> QED  BY <1>1, Invariant, PTL

\* The watermark is the highest sequence applied.
THEOREM WatermarkCorrect == Spec => []WatermarkIsHighest
<1>1. IInv => WatermarkIsHighest
  BY DEF IInv
<1> QED  BY <1>1, Invariant, PTL

-----------------------------------------------------------------------------
(* The backbone implements the abstract delivery of facts. *)

\* The facts the abstraction calls recorded, and those it calls set aside.
Committed == {e \in Events : row[e] = "committed"}
SetAsideFacts == dlq \union discarded \union {e \in Events : failedAt[e]}

\* Setting aside committed facts is a step of the abstraction, or none at all.
LEMMA SettingAside ==
    ASSUME NEW facts, facts \subseteq Committed, Committed' = Committed,
           projected' = projected, SetAsideFacts' = SetAsideFacts \union facts
    PROVE  Delivery!Next
<1>1. Delivery!SetAside(facts)
  BY DEF Delivery!SetAside, Committed, SetAsideFacts
<1> QED  BY <1>1 DEF Delivery!Next, Committed

LEMMA NextImplements ==
    IInv /\ IInv' /\ [Next]_vars => [Delivery!Next]_(Delivery!factVars)
<1> SUFFICES ASSUME IInv, IInv', [Next]_vars
             PROVE  [Delivery!Next]_(Delivery!factVars)
  OBVIOUS
<1>s. ASSUME UNCHANGED <<row, projected, dlq, discarded, failedAt>>
      PROVE  UNCHANGED Delivery!factVars
  BY <1>s DEF Delivery!factVars
<1>1. ASSUME NEW e \in Events, Publisher(e)
      PROVE  [Delivery!Next]_(Delivery!factVars)
  <2>1. UNCHANGED <<projected, dlq, discarded, failedAt>>
    BY <1>1 DEF Publisher, AppendDomainEvent, EndTransaction, CommitEvent, RollbackEvent,
                brokerVars, consumerVars
  <2>2. CASE CommitEvent(e)
    <3>1. e \notin Committed /\ Committed' = Committed \union {e}
      BY <2>2 DEF CommitEvent, Committed, IInv, TypeOK
    <3>2. SetAsideFacts' = SetAsideFacts
      BY <2>1 DEF SetAsideFacts
    <3>3. Delivery!Record(e)
      BY <2>1, <3>1, <3>2 DEF Delivery!Record, Committed, SetAsideFacts
    <3> QED  BY <3>3 DEF Delivery!Next
  <2>3. CASE AppendDomainEvent(e) \/ RollbackEvent(e)
    <3>1. Committed' = Committed
      BY <2>3 DEF AppendDomainEvent, RollbackEvent, Committed, IInv, TypeOK
    <3> QED  BY <2>1, <3>1 DEF Delivery!factVars, Committed
  <2> QED  BY <1>1, <2>2, <2>3 DEF Publisher, EndTransaction
<1>2. ASSUME NEW r \in Relays, Relay(r)
      PROVE  [Delivery!Next]_(Delivery!factVars)
  <2>1. CASE ClaimUnpublishedEvents(r) \/ SkipUnparsable(r) \/ CrashRelay(r)
    BY <1>s, <2>1 DEF ClaimUnpublishedEvents, SkipUnparsable, CrashRelay, outbox, brokerVars,
                    consumerVars
  <2>2. CASE PublishConfirmed(r) \/ PublishRefused(r)
    <3>1. UNCHANGED <<row, projected, dlq, failedAt>>
      BY <2>2 DEF PublishConfirmed, PublishRefused, outbox, consumerVars
    <3>2. PICK e \in pending[r] : discarded' = discarded \/ discarded' = discarded \union {e}
      BY <2>2 DEF PublishConfirmed, PublishRefused, Route
    <3>3. e \in Committed
      BY DEF IInv, TypeOK, DrainsConsistent, Committed
    <3>4. CASE discarded' = discarded
      BY <1>s, <3>1, <3>4
    <3>5. CASE discarded' = discarded \union {e}
      <4>1. SetAsideFacts' = SetAsideFacts \union {e} /\ Committed' = Committed
        BY <3>1, <3>5 DEF SetAsideFacts, Committed
      <4> QED  BY <3>1, <3>3, <4>1, SettingAside
    <3> QED  BY <3>2, <3>4, <3>5
  <2>3. CASE FinishDrain(r)
    <3> DEFINE quarantined == {e \in failures[r] : failedAt'[e]}
    <3>1. UNCHANGED <<row, projected, dlq, discarded>>
      BY <2>3 DEF FinishDrain, brokerVars, consumerVars
    <3>2. /\ failures[r] \subseteq Events
          /\ \A e \in failures[r] : row[e] = "committed" /\ ~failedAt[e]
      BY DEF IInv, TypeOK, DrainsConsistent
    <3>3. \A e \in Events : e \notin failures[r] => (failedAt'[e] <=> failedAt[e])
      BY <2>3, Zenon DEF FinishDrain
    <3>4. SetAsideFacts' = SetAsideFacts \union quarantined /\ Committed' = Committed
      BY <3>1, <3>2, <3>3 DEF SetAsideFacts, Committed
    <3>5. quarantined \subseteq Committed
      BY <3>2 DEF Committed
    <3> QED  BY <3>1, <3>4, <3>5, SettingAside
  <2> QED  BY <1>2, <2>1, <2>2, <2>3 DEF Relay, PublishNext
<1>3. CASE Broker
  BY <1>3, <1>s DEF Broker, BindQueue, Deliver, ExpireRetry, outbox, consumerVars
<1>4. CASE Consumer
  <2>1. CASE HandleEvent \/ HandleFails
    <3> DEFINE e == Settled.event
    <3>1. delivered # <<>> /\ UNCHANGED <<row, dlq, discarded, failedAt>>
      BY <2>1 DEF HandleEvent, HandleFails, outbox, brokerVars
    <3>2. e \in Committed
      BY <3>1, SettledIsAccounted DEF Committed
    <3>3. CASE projected' = projected
      BY <1>s, <3>1, <3>3
    <3>4. CASE projected' # projected
      <4>1. e \notin processed /\ projected' = [projected EXCEPT ![e] = @ + 1]
        BY <2>1, <3>4 DEF HandleEvent, HandleFails, Apply
      <4>2. projected[e] = 0 /\ projected' = [projected EXCEPT ![e] = 1]
        <5>1. e \in Events /\ projected[e] = 0
          BY <3>2, <4>1 DEF IInv, AppliedOnce, Committed
        <5>2. projected[e] + 1 = 1
          BY <5>1
        <5> QED  BY <4>1, <5>1, <5>2
      <4>3. Delivery!Project(e)
        BY <3>1, <3>2, <4>2 DEF Delivery!Project, Committed
      <4> QED  BY <3>2, <4>3 DEF Delivery!Next, Committed
    <3> QED  BY <3>3, <3>4
  <2>2. CASE DeadLetterUnreadable \/ GiveUp
    <3> DEFINE e == Settled.event
    <3>1. /\ delivered # <<>> /\ dlq' = dlq \union {e}
          /\ UNCHANGED <<row, projected, discarded, failedAt>>
      BY <2>2 DEF DeadLetterUnreadable, GiveUp, IInv, DeliveryInProgress, outbox, consumerVars
    <3>2. e \in Committed
      BY <3>1, SettledIsAccounted DEF Committed
    <3>3. SetAsideFacts' = SetAsideFacts \union {e} /\ Committed' = Committed
      BY <3>1 DEF SetAsideFacts, Committed
    <3> QED  BY <3>1, <3>2, <3>3, SettingAside
  <2>3. CASE SendRetryCopy \/ RequeueOriginal \/ Acknowledge \/ CrashConsumer
    BY <1>s, <2>3 DEF SendRetryCopy, RequeueOriginal, Acknowledge, CrashConsumer, outbox
  <2> QED  BY <1>4, <2>1, <2>2, <2>3 DEF Consumer, SettleDelivery
<1>5. CASE UNCHANGED vars
  BY <1>5, <1>s DEF vars, outbox, brokerVars, consumerVars
<1> QED  BY <1>1, <1>2, <1>3, <1>4, <1>5 DEF Next

\* Outbox, relays, broker and consumer together deliver facts as FactDelivery promises:
\* recorded for good, projected at most once and only when recorded.
THEOREM DeliveryImplemented == Spec => ImplementsDelivery
<1>1. Init => Delivery!Init
  BY DEF Init, Delivery!Init
<1> QED  BY <1>1, Invariant, NextImplements, PTL DEF Spec, ImplementsDelivery, Delivery!SafeSpec
-----------------------------------------------------------------------------
(* A fact never overtakes its causes in an ordered deployment. *)

\* Queue s holds a copy of c.
Holds(s, c) == \E m \in Contents(s) : m.event = c

\* Every copy of e in queue s comes after a copy of c.
Precedes(s, c, e) ==
    \A j \in 1..Len(s) : s[j].event = e => \E i \in 1..(j - 1) : s[i].event = c

\* c is not settled and nothing has set it back.
Waiting(c) ==
    /\ faults[c] = 0
    /\ ~failedAt[c]
    /\ c \notin processed \union dlq \union discarded

\* While its cause c waits, e is not applied, and the consumer meets c before any copy of e.
InOrder(c, e) ==
    /\ e \notin processed
    /\ \A t \in Tiers : ~Holds(retry[t], e)
    /\ Precedes(delivered, c, e)
    /\ Holds(delivered, c) \/ Precedes(queue, c, e)

\* The outbox numbers a fact after its causes, which are committed.
RowsInOrder ==
    \A e \in Events : row[e] # "none" =>
        /\ seqOf[e] < nextSequence
        /\ \A c \in Causes[e] : row[c] = "committed" /\ seqOf[c] < seqOf[e]

\* A drain takes a fact only together with, or after, its causes; until it has gone through
\* its batch nothing but unparsable rows has failed.
ClaimedInOrder ==
    \A r \in Relays :
        /\ \A e \in claimed[r], c \in Events :
              c \in Causes[e] => publishedAt[c] \/ failedAt[c] \/ c \in claimed[r]
        /\ pending[r] # {} =>
              /\ claimed[r] \subseteq pending[r] \union confirmed[r] \union failures[r]
              /\ failures[r] \subseteq Unparsable

\* Only a delivery whose handler failed is copied to a retry queue.
RetriedHasFailed ==
    /\ \A t \in Tiers : \A m \in Contents(retry[t]) : faults[m.event] > 0
    /\ settling = "copied" => faults[Settled.event] > 0

ConsumedInOrder ==
    \A e \in Events : \A c \in Causes[e] : Waiting(c) => InOrder(c, e)

\* The strengthening of IInv that orders a fact behind its causes.
OrderInv ==
    /\ RowsInOrder
    /\ ClaimedInOrder
    /\ RetriedHasFailed
    /\ ConsumedInOrder

\* How the queue operations keep e behind c.
LEMMA PrecedesAppend ==
    ASSUME NEW s \in Seq(Messages), NEW m \in Messages, NEW c, NEW e,
           Precedes(s, c, e), m.event # e \/ Holds(s, c)
    PROVE  Precedes(Append(s, m), c, e)
<1>1. /\ Len(s) \in Nat /\ Len(Append(s, m)) = Len(s) + 1
      /\ Append(s, m)[Len(s) + 1] = m
      /\ \A i \in 1..Len(s) : Append(s, m)[i] = s[i]
  OBVIOUS
<1> SUFFICES ASSUME NEW j \in 1..(Len(s) + 1), Append(s, m)[j].event = e
             PROVE  \E i \in 1..(j - 1) : Append(s, m)[i].event = c
  BY <1>1 DEF Precedes
<1>2. CASE j \in 1..Len(s)
  <2>1. PICK i \in 1..(j - 1) : s[i].event = c
    BY <1>1, <1>2 DEF Precedes
  <2>2. i \in 1..Len(s) /\ Append(s, m)[i] = s[i]
    BY <1>1, <1>2, <2>1
  <2> QED  BY <2>1, <2>2
<1>3. CASE j = Len(s) + 1
  <2>1. m.event = e
    BY <1>1, <1>3
  <2>2. PICK i \in 1..Len(s) : s[i].event = c
    BY <2>1 DEF Holds, Contents
  <2> QED  BY <1>1, <1>3, <2>2
<1> QED  BY <1>1, <1>2, <1>3

\* Nothing at the head of such a queue is a copy of e.
LEMMA PrecedesHead ==
    ASSUME NEW s \in Seq(Messages), s # <<>>, NEW c, NEW e, Precedes(s, c, e)
    PROVE  Head(s).event # e
<1>1. 1 \in 1..Len(s) /\ Head(s) = s[1] /\ 1..(1 - 1) = {}
  OBVIOUS
<1> QED  BY <1>1 DEF Precedes

LEMMA PrecedesTail ==
    ASSUME NEW s \in Seq(Messages), s # <<>>, NEW c, NEW e,
           Precedes(s, c, e), Head(s).event # c
    PROVE  Precedes(Tail(s), c, e)
<1>1. /\ Len(s) \in Nat /\ Len(Tail(s)) = Len(s) - 1 /\ Head(s) = s[1]
      /\ \A i \in 1..(Len(s) - 1) : Tail(s)[i] = s[i + 1]
  OBVIOUS
<1> SUFFICES ASSUME NEW j \in 1..(Len(s) - 1), s[j + 1].event = e
             PROVE  \E i \in 1..(j - 1) : Tail(s)[i].event = c
  BY <1>1 DEF Precedes
<1>2. j + 1 \in 1..Len(s) /\ (j + 1) - 1 = j
  BY <1>1
<1>3. PICK k \in 1..j : s[k].event = c
  BY <1>2 DEF Precedes
<1>4. k # 1
  BY <1>1, <1>3
<1>5. k - 1 \in 1..(j - 1) /\ Tail(s)[k - 1] = s[k]
  BY <1>1, <1>3, <1>4
<1> QED  BY <1>3, <1>5

LEMMA PrecedesConcat ==
    ASSUME NEW s \in Seq(Messages), NEW u \in Seq(Messages), NEW c, NEW e,
           Precedes(s, c, e), Holds(s, c) \/ Precedes(u, c, e)
    PROVE  Precedes(s \o u, c, e)
<1>1. /\ Len(s) \in Nat /\ Len(u) \in Nat /\ Len(s \o u) = Len(s) + Len(u)
      /\ \A i \in 1..Len(s) : (s \o u)[i] = s[i]
      /\ \A i \in 1..Len(u) : (s \o u)[Len(s) + i] = u[i]
  OBVIOUS
<1> SUFFICES ASSUME NEW j \in 1..(Len(s) + Len(u)), (s \o u)[j].event = e
             PROVE  \E i \in 1..(j - 1) : (s \o u)[i].event = c
  BY <1>1 DEF Precedes
<1>2. CASE j \in 1..Len(s)
  <2>1. PICK i \in 1..(j - 1) : s[i].event = c
    BY <1>1, <1>2 DEF Precedes
  <2>2. i \in 1..Len(s) /\ (s \o u)[i] = s[i]
    BY <1>1, <1>2, <2>1
  <2> QED  BY <2>1, <2>2
<1>3. CASE j \notin 1..Len(s) /\ Holds(s, c)
  <2>1. PICK i \in 1..Len(s) : s[i].event = c
    BY <1>3 DEF Holds, Contents
  <2> QED  BY <1>1, <1>3, <2>1
<1>4. CASE j \notin 1..Len(s) /\ Precedes(u, c, e)
  <2> DEFINE k == j - Len(s)
  <2>1. k \in 1..Len(u) /\ (s \o u)[j] = u[k]
    BY <1>1, <1>4
  <2>2. PICK i \in 1..(k - 1) : u[i].event = c
    BY <1>4, <2>1 DEF Precedes
  <2>3. /\ Len(s) + i \in 1..(j - 1) /\ i \in 1..Len(u)
        /\ (s \o u)[Len(s) + i] = u[i]
    BY <1>1, <2>1, <2>2
  <2> QED  BY <2>2, <2>3
<1> QED  BY <1>2, <1>3, <1>4

\* A waiting fact is in the queue or with the consumer once the broker has taken it.
LEMMA WaitingIsQueued ==
    ASSUME IInv, RetriedHasFailed, NEW c \in Events, Waiting(c), Accounted(c)
    PROVE  Holds(queue, c) \/ Holds(delivered, c)
<1>1. PICK m \in Copies : m.event = c
  BY DEF Accounted, Waiting
<1>2. \A t \in Tiers : m \notin Contents(retry[t])
  BY <1>1 DEF RetriedHasFailed, Waiting
<1> QED  BY <1>1, <1>2 DEF Copies, Holds

\* A publish puts a fact behind its causes: the batch is published in sequence order.
LEMMA PublishedAfterCauses ==
    ASSUME IInv, OrderInv, NEW r \in Relays, NEW e \in pending[r], IsNextOf(e, pending[r]),
           OrderedDeployment, NEW c \in Causes[e], Waiting(c)
    PROVE  Accounted(c)
<1>1. e \in Events /\ c \in Events /\ e \in claimed[r] /\ row[e] = "committed"
  BY EventsAssumption DEF IInv, TypeOK, DrainsConsistent
<1>2. seqOf[c] < seqOf[e] /\ seqOf[c] \in Nat /\ seqOf[e] \in Nat
  BY <1>1 DEF OrderInv, RowsInOrder, IInv, TypeOK
<1>3. publishedAt[c] \/ c \in pending[r] \union confirmed[r] \union failures[r]
  BY <1>1 DEF OrderInv, ClaimedInOrder, Waiting
<1>4. c \notin pending[r]
  BY <1>2 DEF IsNextOf
<1>5. c \notin failures[r]
  BY <1>1 DEF OrderInv, ClaimedInOrder, OrderedDeployment
<1>6. publishedAt[c] => Accounted(c)
  BY <1>1 DEF IInv, NoStampedEventLost
<1>7. c \in confirmed[r] => Accounted(c)
  BY DEF IInv, DrainsConsistent
<1> QED  BY <1>3, <1>4, <1>5, <1>6, <1>7

\* Steps that move no message and apply no event.
LEMMA QueuesUndisturbed ==
    ASSUME OrderInv, UNCHANGED <<queue, delivered, retry, processed>>,
           \A c \in Events : Waiting(c)' => Waiting(c)
    PROVE  ConsumedInOrder'
<1> SUFFICES ASSUME NEW e \in Events, NEW c \in Causes[e], Waiting(c)'
             PROVE  InOrder(c, e)'
  BY DEF ConsumedInOrder
<1>1. Waiting(c)
  BY EventsAssumption
<1>2. InOrder(c, e)
  BY <1>1 DEF OrderInv, ConsumedInOrder
<1> QED  BY <1>2 DEF InOrder, Holds, Contents, Precedes

LEMMA RouteConsumedInOrder ==
    ASSUME IInv, OrderInv, OrderedDeployment, NEW r \in Relays, NEW f \in pending[r],
           IsNextOf(f, pending[r]), Route(f),
           UNCHANGED <<failedAt, delivered, retry, processed, dlq, faults>>
    PROVE  ConsumedInOrder'
<1>1. discarded \subseteq discarded'
  BY DEF Route
<1>2. \A c \in Events : Waiting(c)' => Waiting(c)
  BY <1>1 DEF Waiting
<1>3. CASE ~bound
  <2>1. queue' = queue
    BY <1>3 DEF Route
  <2> QED  BY <1>2, <2>1, QueuesUndisturbed
<1>4. CASE bound
  <2> DEFINE m == [event |-> f, attempt |-> 0]
  <2>1. queue' = Append(queue, m) /\ m.event = f
    BY <1>4 DEF Route
  <2>2. /\ f \in Events /\ queue \in Seq(Messages)
    BY DEF IInv, TypeOK
  <2>3. m \in Messages
    BY <2>2, LimitsAssumption DEF Messages
  <2> SUFFICES ASSUME NEW e \in Events, NEW c \in Causes[e], Waiting(c)'
               PROVE  InOrder(c, e)'
    BY DEF ConsumedInOrder
  <2>4. c \in Events /\ Waiting(c)
    BY <1>2, EventsAssumption
  <2>5. InOrder(c, e)
    BY <2>4 DEF OrderInv, ConsumedInOrder
  <2>6. Holds(delivered, c) \/ Precedes(queue', c, e)
    <3>1. CASE Holds(delivered, c)
      BY <3>1
    <3>2. CASE ~Holds(delivered, c)
      <4>1. Precedes(queue, c, e)
        BY <2>5, <3>2 DEF InOrder
      <4>2. f # e \/ Holds(queue, c)
        <5>1. CASE f = e
          <6>1. Accounted(c)
            BY <2>4, <5>1, PublishedAfterCauses
          <6> QED  BY <2>4, <3>2, <6>1, WaitingIsQueued DEF OrderInv
        <5> QED  BY <5>1
      <4>3. Precedes(Append(queue, m), c, e)
        BY <2>1, <2>2, <2>3, <4>1, <4>2, PrecedesAppend
      <4> QED  BY <2>1, <4>3
    <3> QED  BY <3>1, <3>2
  <2> QED  BY <2>5, <2>6 DEF InOrder, Holds, Contents, Precedes
<1> QED  BY <1>3, <1>4

LEMMA DeliverConsumedInOrder ==
    ASSUME IInv, OrderInv, Deliver
    PROVE  ConsumedInOrder'
<1> DEFINE m == Head(queue)
<1>1. /\ queue \in Seq(Messages) /\ queue # <<>> /\ delivered \in Seq(Messages)
      /\ m \in Messages
  BY DEF Deliver, IInv, TypeOK
<1>2. /\ delivered' = Append(delivered, m) /\ queue' = Tail(queue)
      /\ UNCHANGED <<failedAt, retry, processed, dlq, discarded, faults>>
  BY DEF Deliver, outbox, consumerVars
<1> SUFFICES ASSUME NEW e \in Events, NEW c \in Causes[e], Waiting(c)'
             PROVE  InOrder(c, e)'
  BY DEF ConsumedInOrder
<1>3. InOrder(c, e)
  BY <1>2 DEF OrderInv, ConsumedInOrder, Waiting
<1>4. Contents(delivered') = Contents(delivered) \union {m}
  BY <1>1, <1>2, ContentsAppend
<1>5. Precedes(delivered', c, e)
  <2>1. m.event # e \/ Holds(delivered, c)
    BY <1>1, <1>3, PrecedesHead DEF InOrder
  <2>2. Precedes(delivered, c, e)
    BY <1>3 DEF InOrder
  <2> QED  BY <1>1, <1>2, <2>1, <2>2, PrecedesAppend
<1>6. Holds(delivered', c) \/ Precedes(queue', c, e)
  <2>1. CASE Holds(delivered, c) \/ m.event = c
    BY <1>4, <2>1 DEF Holds
  <2>2. CASE ~Holds(delivered, c) /\ m.event # c
    <3>1. Precedes(queue, c, e)
      BY <1>3, <2>2 DEF InOrder
    <3> QED  BY <1>1, <1>2, <2>2, <3>1, PrecedesTail
  <2> QED  BY <2>1, <2>2
<1> QED  BY <1>2, <1>3, <1>5, <1>6 DEF InOrder, Holds, Contents, Precedes

LEMMA ExpireConsumedInOrder ==
    ASSUME IInv, OrderInv, NEW t \in Tiers, ExpireRetry(t)
    PROVE  ConsumedInOrder'
<1> DEFINE m == Head(retry[t])
<1>1. /\ retry[t] \in Seq(Messages) /\ retry[t] # <<>> /\ m \in Messages
      /\ queue \in Seq(Messages)
  BY DEF ExpireRetry, IInv, TypeOK
<1>2. /\ queue' = Append(queue, m)
      /\ \A u \in Tiers : retry'[u] = IF u = t THEN Tail(retry[t]) ELSE retry[u]
      /\ UNCHANGED <<failedAt, delivered, processed, dlq, discarded, faults>>
  BY DEF ExpireRetry, IInv, TypeOK, outbox, consumerVars
<1>3. Contents(retry[t]) = {m} \union Contents(Tail(retry[t]))
  BY <1>1, ContentsHeadTail
<1> SUFFICES ASSUME NEW e \in Events, NEW c \in Causes[e], Waiting(c)'
             PROVE  InOrder(c, e)'
  BY DEF ConsumedInOrder
<1>4. InOrder(c, e)
  BY <1>2 DEF OrderInv, ConsumedInOrder, Waiting
<1>5. m.event # e
  BY <1>3, <1>4 DEF InOrder, Holds
<1>6. Holds(delivered, c) \/ Precedes(queue', c, e)
  BY <1>1, <1>2, <1>4, <1>5, PrecedesAppend DEF InOrder
<1>7. \A u \in Tiers : Contents(retry'[u]) \subseteq Contents(retry[u])
  BY <1>2, <1>3
<1>8. \A u \in Tiers : ~Holds(retry'[u], e)
  BY <1>4, <1>7 DEF InOrder, Holds
<1> QED  BY <1>2, <1>4, <1>6, <1>8 DEF InOrder, Holds, Contents, Precedes

\* The handler runs on the oldest delivery, which is not behind one of its causes.
LEMMA HandledInOrder ==
    ASSUME IInv, OrderInv, HandleEvent \/ HandleFails
    PROVE  ConsumedInOrder'
<1>1. /\ delivered # <<>> /\ delivered \in Seq(Messages)
      /\ UNCHANGED <<failedAt, brokerVars>>
      /\ processed \subseteq processed' /\ processed' \subseteq processed \union {Settled.event}
  BY DEF HandleEvent, HandleFails, Apply, IInv, TypeOK, outbox
<1>2. /\ Settled.event \in Events /\ faults \in [Events -> Nat]
  BY <1>1, SettledTypeOK DEF IInv, TypeOK
<1>3. \A c \in Events : faults'[c] = 0 => faults[c] = 0
  BY <1>2 DEF HandleEvent, HandleFails
<1> SUFFICES ASSUME NEW e \in Events, NEW c \in Causes[e], Waiting(c)'
             PROVE  InOrder(c, e)'
  BY DEF ConsumedInOrder
<1>4. Waiting(c)
  BY <1>1, <1>3, EventsAssumption DEF Waiting, brokerVars
<1>5. InOrder(c, e)
  BY <1>4 DEF OrderInv, ConsumedInOrder
<1>6. Settled.event # e
  BY <1>1, <1>5, PrecedesHead DEF InOrder, Settled
<1> QED  BY <1>1, <1>5, <1>6 DEF InOrder, Holds, Contents, Precedes, brokerVars

\* A delivery leaves the consumer when it no longer waits.
LEMMA SettledConsumedInOrder ==
    ASSUME IInv, OrderInv, DeadLetterUnreadable \/ GiveUp \/ Acknowledge
    PROVE  ConsumedInOrder'
<1>1. /\ delivered # <<>> /\ delivered \in Seq(Messages)
      /\ delivered' = Tail(delivered)
      /\ UNCHANGED <<failedAt, queue, retry, processed, discarded, faults>>
      /\ dlq \subseteq dlq'
  BY DEF DeadLetterUnreadable, GiveUp, Acknowledge, IInv, TypeOK, DeliveryInProgress, outbox,
         consumerVars
<1>m. PICK m \in Messages : m = Settled
  BY <1>1, SettledTypeOK DEF IInv
<1>2. ~Waiting(m.event)'
  <2>1. CASE DeadLetterUnreadable \/ GiveUp
    BY <1>m, <2>1 DEF DeadLetterUnreadable, GiveUp, Waiting
  <2>2. CASE Acknowledge
    <3>1. CASE settling = "handled"
      BY <1>1, <1>m, <3>1 DEF IInv, SettlingConsistent, Waiting
    <3>2. CASE settling = "copied"
      <4>1. faults'[m.event] > 0
        BY <1>1, <1>m, <3>2 DEF OrderInv, RetriedHasFailed
      <4> QED  BY <4>1 DEF Waiting
    <3> QED  BY <2>2, <3>1, <3>2 DEF Acknowledge
  <2> QED  BY <2>1, <2>2
<1> SUFFICES ASSUME NEW e \in Events, NEW c \in Causes[e], Waiting(c)'
             PROVE  InOrder(c, e)'
  BY DEF ConsumedInOrder
<1>3. InOrder(c, e)
  BY <1>1 DEF OrderInv, ConsumedInOrder, Waiting
<1>4. Head(delivered).event # c
  BY <1>m, <1>2 DEF Settled
<1>5. Precedes(delivered', c, e)
  BY <1>1, <1>3, <1>4, PrecedesTail DEF InOrder
<1>6. Holds(delivered, c) => Holds(delivered', c)
  BY <1>1, <1>4, ContentsHeadTail DEF Holds
<1> QED  BY <1>1, <1>3, <1>5, <1>6 DEF InOrder, Holds, Contents, Precedes

\* The retry copy is of an event that may be handled already, never of one behind its cause.
LEMMA RetriedConsumedInOrder ==
    ASSUME IInv, OrderInv, SendRetryCopy
    PROVE  ConsumedInOrder'
<1> DEFINE tier == Settled.attempt + 1
<1>1. /\ delivered # <<>> /\ delivered \in Seq(Messages)
      /\ UNCHANGED <<failedAt, queue, delivered, processed, dlq, discarded, faults>>
  BY DEF SendRetryCopy, IInv, TypeOK, DeliveryInProgress, outbox
<1>2. Settled \in Messages /\ Settled.attempt < RetryTiers
  BY <1>1, SettledTypeOK, LimitsAssumption DEF IInv, SendRetryCopy, Spent, Messages
<1>3. /\ RetryCopy(Settled) \in Messages /\ RetryCopy(Settled).event = Settled.event
      /\ tier \in Tiers
  BY <1>2, LimitsAssumption DEF RetryCopy, Messages, Tiers
<1>4. Contents(Append(retry[tier], RetryCopy(Settled)))
        = Contents(retry[tier]) \union {RetryCopy(Settled)}
  BY <1>3, ContentsAppend DEF IInv, TypeOK
<1>5. \A u \in Tiers :
         retry'[u] = IF u = tier THEN Append(retry[tier], RetryCopy(Settled)) ELSE retry[u]
  BY <1>3 DEF SendRetryCopy, IInv, TypeOK
<1> SUFFICES ASSUME NEW e \in Events, NEW c \in Causes[e], Waiting(c)'
             PROVE  InOrder(c, e)'
  BY DEF ConsumedInOrder
<1>6. InOrder(c, e)
  BY <1>1 DEF OrderInv, ConsumedInOrder, Waiting
<1>7. Settled.event # e
  BY <1>1, <1>6, PrecedesHead DEF InOrder, Settled
<1>8. \A u \in Tiers : Contents(retry'[u]) \subseteq Contents(retry[u]) \union {RetryCopy(Settled)}
  BY <1>3, <1>4, <1>5
<1>9. \A u \in Tiers : ~Holds(retry'[u], e)
  BY <1>3, <1>6, <1>7, <1>8 DEF InOrder, Holds
<1> QED  BY <1>1, <1>6, <1>9 DEF InOrder, Holds, Contents, Precedes

\* A requeued delivery has failed; it goes back in front of the queue.
LEMMA RequeuedConsumedInOrder ==
    ASSUME IInv, OrderInv, RequeueOriginal
    PROVE  ConsumedInOrder'
<1>1. /\ delivered # <<>> /\ delivered \in Seq(Messages) /\ queue \in Seq(Messages)
      /\ delivered' = Tail(delivered) /\ queue' = <<Settled>> \o queue
      /\ UNCHANGED <<failedAt, retry, processed, dlq, discarded, faults>>
  BY DEF RequeueOriginal, IInv, TypeOK, DeliveryInProgress, outbox
<1>2. Settled \in Messages /\ Settled = Head(delivered)
  BY <1>1, SettledTypeOK DEF IInv, Settled
<1>3. faults[Settled.event] # 0
  <2>1. Settled.attempt < faults[Settled.event]
    BY DEF RequeueOriginal, IInv, AttemptsCounted
  <2>2. Settled.attempt \in Nat /\ faults[Settled.event] \in Nat
    BY <1>2, LimitsAssumption DEF Messages, IInv, TypeOK
  <2> QED  BY <2>1, <2>2
<1> SUFFICES ASSUME NEW e \in Events, NEW c \in Causes[e], Waiting(c)'
             PROVE  InOrder(c, e)'
  BY DEF ConsumedInOrder
<1>4. InOrder(c, e)
  BY <1>1 DEF OrderInv, ConsumedInOrder, Waiting
<1>5. Settled.event # c /\ Settled.event # e
  BY <1>1, <1>2, <1>3, <1>4, PrecedesHead DEF InOrder, Waiting
<1>6. Precedes(delivered', c, e)
  BY <1>1, <1>2, <1>4, <1>5, PrecedesTail DEF InOrder
<1>7. Holds(delivered', c) \/ Precedes(queue', c, e)
  <2>1. CASE Holds(delivered, c)
    BY <1>1, <1>2, <1>5, <2>1, ContentsHeadTail DEF Holds
  <2>2. CASE Precedes(queue, c, e)
    <3>1. <<Settled>> \in Seq(Messages)
      BY <1>2
    <3>2. Precedes(<<Settled>>, c, e)
      BY <1>5 DEF Precedes
    <3>3. Precedes(<<Settled>> \o queue, c, e)
      BY <1>1, <2>2, <3>1, <3>2, PrecedesConcat
    <3> QED  BY <1>1, <3>3
  <2> QED  BY <1>4, <2>1, <2>2 DEF InOrder
<1> QED  BY <1>1, <1>4, <1>6, <1>7 DEF InOrder, Holds, Contents, Precedes

LEMMA CrashConsumedInOrder ==
    ASSUME IInv, OrderInv, CrashConsumer
    PROVE  ConsumedInOrder'
<1>1. /\ delivered \in Seq(Messages) /\ queue \in Seq(Messages)
      /\ delivered' = <<>> /\ queue' = delivered \o queue
      /\ UNCHANGED <<failedAt, retry, processed, dlq, discarded, faults>>
  BY DEF CrashConsumer, IInv, TypeOK, outbox
<1> SUFFICES ASSUME NEW e \in Events, NEW c \in Causes[e], Waiting(c)'
             PROVE  InOrder(c, e)'
  BY DEF ConsumedInOrder
<1>2. InOrder(c, e)
  BY <1>1 DEF OrderInv, ConsumedInOrder, Waiting
<1>3. Precedes(queue', c, e)
  BY <1>1, <1>2, PrecedesConcat DEF InOrder
<1>4. Precedes(delivered', c, e)
  BY <1>1 DEF Precedes
<1> QED  BY <1>1, <1>2, <1>3, <1>4 DEF InOrder, Holds, Contents, Precedes

\* No step leaves the queues out of order.
LEMMA NextConsumedInOrder ==
    ASSUME IInv, OrderInv, OrderedDeployment, [Next]_vars
    PROVE  ConsumedInOrder'
<1>q. ASSUME UNCHANGED <<failedAt, brokerVars, consumerVars>>
      PROVE  ConsumedInOrder'
  <2>1. \A c \in Events : Waiting(c)' => Waiting(c)
    BY <1>q DEF Waiting, brokerVars, consumerVars
  <2> QED  BY <1>q, <2>1, QueuesUndisturbed DEF brokerVars, consumerVars
<1>1. ASSUME NEW e \in Events, Publisher(e)
      PROVE  ConsumedInOrder'
  BY <1>1, <1>q DEF Publisher, AppendDomainEvent, EndTransaction, CommitEvent, RollbackEvent
<1>2. ASSUME NEW r \in Relays, Relay(r)
      PROVE  ConsumedInOrder'
  <2>1. CASE ClaimUnpublishedEvents(r) \/ SkipUnparsable(r) \/ CrashRelay(r)
    BY <1>q, <2>1 DEF ClaimUnpublishedEvents, SkipUnparsable, CrashRelay, outbox
  <2>2. CASE PublishConfirmed(r)
    <3>1. PICK f \in pending[r] : IsNextOf(f, pending[r]) /\ Route(f)
      BY <2>2 DEF PublishConfirmed
    <3>2. UNCHANGED <<failedAt, delivered, retry, processed, dlq, faults>>
      BY <2>2 DEF PublishConfirmed, outbox, consumerVars
    <3> QED  BY <3>1, <3>2, RouteConsumedInOrder
  <2>3. CASE PublishRefused(r)
    <3>1. PICK f \in pending[r] :
             IsNextOf(f, pending[r]) /\ (Route(f) \/ UNCHANGED <<queue, discarded>>)
      BY <2>3 DEF PublishRefused
    <3>2. UNCHANGED <<failedAt, bound, delivered, retry, dlq, consumerVars>>
      BY <2>3 DEF PublishRefused, outbox
    <3>3. CASE Route(f)
      BY <3>1, <3>2, <3>3, RouteConsumedInOrder DEF consumerVars
    <3>4. CASE UNCHANGED <<queue, discarded>>
      BY <1>q, <3>2, <3>4 DEF brokerVars
    <3> QED  BY <3>1, <3>3, <3>4
  <2>4. CASE FinishDrain(r)
    <3>1. UNCHANGED <<brokerVars, consumerVars>>
      BY <2>4 DEF FinishDrain
    <3>2. \A c \in Events : c \notin failures[r] => (failedAt'[c] <=> failedAt[c])
      BY <2>4, Zenon DEF FinishDrain
    <3>3. \A c \in failures[r] : ~failedAt[c]
      BY DEF IInv, DrainsConsistent
    <3>4. \A c \in Events : Waiting(c)' => Waiting(c)
      BY <3>1, <3>2, <3>3 DEF Waiting, brokerVars, consumerVars
    <3> QED  BY <3>1, <3>4, QueuesUndisturbed DEF brokerVars, consumerVars
  <2> QED  BY <1>2, <2>1, <2>2, <2>3, <2>4 DEF Relay, PublishNext
<1>3. CASE Broker
  <2>1. CASE BindQueue
    <3>1. UNCHANGED <<outbox, queue, delivered, retry, dlq, discarded, consumerVars>>
      BY <2>1 DEF BindQueue
    <3>2. \A c \in Events : Waiting(c)' => Waiting(c)
      BY <3>1 DEF Waiting, outbox, consumerVars
    <3> QED  BY <3>1, <3>2, QueuesUndisturbed DEF consumerVars
  <2> QED  BY <1>3, <2>1, DeliverConsumedInOrder, ExpireConsumedInOrder DEF Broker
<1>4. CASE Consumer
  BY <1>4, HandledInOrder, SettledConsumedInOrder, RetriedConsumedInOrder,
     RequeuedConsumedInOrder, CrashConsumedInOrder DEF Consumer, SettleDelivery
<1>5. CASE UNCHANGED vars
  BY <1>5, <1>q DEF vars, outbox
<1> QED  BY <1>1, <1>2, <1>3, <1>4, <1>5 DEF Next

\* Sequence numbers are drawn after the causes are committed, and never change after that.
LEMMA NextRowsInOrder ==
    ASSUME IInv, RowsInOrder, [Next]_vars
    PROVE  RowsInOrder'
<1>t. /\ seqOf \in [Events -> Nat] /\ nextSequence \in Nat
      /\ row \in [Events -> {"none", "open", "committed"}]
  BY DEF IInv, TypeOK
<1>q. ASSUME UNCHANGED outbox
      PROVE  RowsInOrder'
  BY <1>q DEF RowsInOrder, outbox
<1>1. ASSUME NEW f \in Events, AppendDomainEvent(f)
      PROVE  RowsInOrder'
  <2>1. /\ row[f] = "none" /\ \A c \in Causes[f] : row[c] = "committed"
        /\ row' = [row EXCEPT ![f] = "open"]
        /\ seqOf' = [seqOf EXCEPT ![f] = nextSequence]
        /\ nextSequence' = nextSequence + 1
    BY <1>1 DEF AppendDomainEvent
  <2>2. \A c \in Events : row[c] = "committed" =>
           row'[c] = "committed" /\ seqOf'[c] = seqOf[c] /\ seqOf[c] < nextSequence
    BY <1>t, <2>1 DEF RowsInOrder
  <2> SUFFICES ASSUME NEW e \in Events, row'[e] # "none"
               PROVE  /\ seqOf'[e] < nextSequence'
                      /\ \A c \in Causes[e] : row'[c] = "committed" /\ seqOf'[c] < seqOf'[e]
    BY DEF RowsInOrder
  <2>3. Causes[e] \subseteq Events
    BY EventsAssumption
  <2>4. CASE e = f
    BY <1>t, <2>1, <2>2, <2>3, <2>4
  <2>5. CASE e # f
    <3>1. row'[e] = row[e] /\ seqOf'[e] = seqOf[e]
      BY <1>t, <2>1, <2>5
    <3> QED  BY <1>t, <2>1, <2>2, <2>3, <3>1 DEF RowsInOrder
  <2> QED  BY <2>4, <2>5
<1>2. ASSUME NEW f \in Events, EndTransaction(f)
      PROVE  RowsInOrder'
  <2>1. /\ row[f] = "open" /\ nextSequence' = nextSequence
        /\ row'[f] \in {"none", "committed"}
        /\ row'[f] = "committed" => seqOf' = seqOf
        /\ \A e \in Events \ {f} : row'[e] = row[e] /\ seqOf'[e] = seqOf[e]
    BY <1>2, <1>t DEF EndTransaction, CommitEvent, RollbackEvent
  <2> SUFFICES ASSUME NEW e \in Events, row'[e] # "none"
               PROVE  /\ seqOf'[e] < nextSequence'
                      /\ \A c \in Causes[e] : row'[c] = "committed" /\ seqOf'[c] < seqOf'[e]
    BY DEF RowsInOrder
  <2>2. Causes[e] \subseteq Events
    BY EventsAssumption
  <2>3. row[e] # "none" /\ seqOf'[e] = seqOf[e]
    BY <2>1
  <2>4. /\ seqOf[e] < nextSequence
        /\ \A c \in Causes[e] : row[c] = "committed" /\ seqOf[c] < seqOf[e]
    BY <2>3 DEF RowsInOrder
  <2>5. \A c \in Causes[e] : c # f
    BY <2>1, <2>4
  <2> QED  BY <2>1, <2>2, <2>3, <2>4, <2>5
<1>3. ASSUME NEW r \in Relays, Relay(r)
      PROVE  RowsInOrder'
  <2>1. UNCHANGED <<row, seqOf, nextSequence>>
    BY <1>3 DEF Relay, PublishNext, ClaimUnpublishedEvents, SkipUnparsable, PublishConfirmed,
                PublishRefused, FinishDrain, CrashRelay, outbox
  <2> QED  BY <2>1 DEF RowsInOrder
<1>4. CASE Broker
  BY <1>4, <1>q DEF Broker, BindQueue, Deliver, ExpireRetry
<1>5. CASE Consumer
  BY <1>5, <1>q DEF Consumer, SettleDelivery, HandleEvent, HandleFails, DeadLetterUnreadable,
                    GiveUp, SendRetryCopy, RequeueOriginal, Acknowledge, CrashConsumer
<1>6. CASE UNCHANGED vars
  BY <1>6, <1>q DEF vars
<1> QED  BY <1>1, <1>2, <1>3, <1>4, <1>5, <1>6 DEF Next, Publisher

\* A batch of the oldest rows contains the unfinished causes of every row in it.
LEMMA ClaimTakesCauses ==
    ASSUME IInv, RowsInOrder, OrderedDeployment, NEW r \in Relays, claimed[r] = {},
           NEW batch \in SUBSET Deliverable, IsOldestBatch(batch, Deliverable),
           NEW e \in batch, NEW c \in Causes[e]
    PROVE  publishedAt[c] \/ failedAt[c] \/ c \in batch
<1>1. e \in Events /\ c \in Events /\ row[e] = "committed"
  BY EventsAssumption DEF Deliverable, Recorded
<1>2. row[c] = "committed" /\ seqOf[c] < seqOf[e] /\ seqOf[c] \in Nat /\ seqOf[e] \in Nat
  BY <1>1 DEF RowsInOrder, IInv, TypeOK
<1>3. Locked = {}
  <2>1. \A s \in Relays : claimed[s] = {}
    BY DEF OrderedDeployment
  <2> QED  BY <2>1 DEF Locked
<1>4. c \in Deliverable \/ publishedAt[c] \/ failedAt[c]
  BY <1>1, <1>2, <1>3 DEF Deliverable, Recorded
<1>5. c \in Deliverable => c \in batch
  BY <1>2 DEF IsOldestBatch
<1> QED  BY <1>4, <1>5

LEMMA NextClaimedInOrder ==
    ASSUME IInv, RowsInOrder, ClaimedInOrder, OrderedDeployment, [Next]_vars
    PROVE  ClaimedInOrder'
<1>t. /\ claimed \in [Relays -> SUBSET Events] /\ pending \in [Relays -> SUBSET Events]
      /\ confirmed \in [Relays -> SUBSET Events] /\ failures \in [Relays -> SUBSET Events]
  BY DEF IInv, TypeOK
<1>q. ASSUME UNCHANGED <<publishedAt, failedAt, relayVars>>
      PROVE  ClaimedInOrder'
  BY <1>q DEF ClaimedInOrder, relayVars
<1>1. ASSUME NEW e \in Events, Publisher(e)
      PROVE  ClaimedInOrder'
  BY <1>1, <1>q DEF Publisher, AppendDomainEvent, EndTransaction, CommitEvent, RollbackEvent
<1>2. ASSUME NEW r \in Relays, Relay(r)
      PROVE  ClaimedInOrder'
  <2>o. \A s \in Relays : s = r
    BY DEF OrderedDeployment
  <2>1. CASE ClaimUnpublishedEvents(r)
    <3>1. PICK batch \in SUBSET Deliverable :
             /\ IsOldestBatch(batch, Deliverable)
             /\ claimed' = [claimed EXCEPT ![r] = batch]
             /\ pending' = [pending EXCEPT ![r] = batch]
      BY <2>1 DEF ClaimUnpublishedEvents
    <3>2. claimed[r] = {} /\ UNCHANGED <<publishedAt, failedAt, failures, confirmed>>
      BY <2>1 DEF ClaimUnpublishedEvents, outbox
    <3>3. claimed'[r] = batch /\ pending'[r] = batch /\ failures'[r] = {}
      BY <1>t, <3>1, <3>2 DEF IInv, DrainsConsistent
    <3>4. \A e \in batch, c \in Events :
             c \in Causes[e] => publishedAt[c] \/ failedAt[c] \/ c \in batch
      BY <3>1, <3>2, ClaimTakesCauses
    <3> QED  BY <2>o, <3>2, <3>3, <3>4 DEF ClaimedInOrder
  <2>2. CASE SkipUnparsable(r)
    <3>1. PICK e \in pending[r] \intersect Unparsable :
             /\ pending' = [pending EXCEPT ![r] = @ \ {e}]
             /\ failures' = [failures EXCEPT ![r] = @ \union {e}]
      BY <2>2 DEF SkipUnparsable
    <3>2. UNCHANGED <<publishedAt, failedAt, claimed, confirmed>>
      BY <2>2 DEF SkipUnparsable, outbox
    <3>3. pending'[r] = pending[r] \ {e} /\ failures'[r] = failures[r] \union {e}
      BY <1>t, <3>1
    <3> QED  BY <2>o, <3>1, <3>2, <3>3 DEF ClaimedInOrder
  <2>3. CASE PublishConfirmed(r)
    <3>1. PICK e \in pending[r] \ Unparsable :
             /\ pending' = [pending EXCEPT ![r] = @ \ {e}]
             /\ confirmed' = [confirmed EXCEPT ![r] = @ \union {e}]
      BY <2>3 DEF PublishConfirmed
    <3>2. UNCHANGED <<publishedAt, failedAt, claimed, failures>>
      BY <2>3 DEF PublishConfirmed, outbox
    <3>3. pending'[r] = pending[r] \ {e} /\ confirmed'[r] = confirmed[r] \union {e}
      BY <1>t, <3>1
    <3> QED  BY <2>o, <3>1, <3>2, <3>3 DEF ClaimedInOrder
  <2>4. CASE PublishRefused(r)
    <3>1. pending'[r] = {} /\ UNCHANGED <<publishedAt, failedAt, claimed>>
      BY <2>4, <1>t DEF PublishRefused, LeftAfterRefusal, outbox
    <3> QED  BY <2>o, <3>1 DEF ClaimedInOrder
  <2>5. CASE FinishDrain(r) \/ CrashRelay(r)
    <3>1. claimed'[r] = {} /\ pending'[r] = {}
      BY <2>5, <1>t DEF FinishDrain, CrashRelay
    <3> QED  BY <2>o, <3>1 DEF ClaimedInOrder
  <2> QED  BY <1>2, <2>1, <2>2, <2>3, <2>4, <2>5 DEF Relay, PublishNext
<1>3. CASE Broker
  BY <1>3, <1>q DEF Broker, BindQueue, Deliver, ExpireRetry, outbox
<1>4. CASE Consumer
  BY <1>4, <1>q DEF Consumer, SettleDelivery, HandleEvent, HandleFails, DeadLetterUnreadable,
                    GiveUp, SendRetryCopy, RequeueOriginal, Acknowledge, CrashConsumer, outbox
<1>5. CASE UNCHANGED vars
  BY <1>5, <1>q DEF vars, outbox
<1> QED  BY <1>1, <1>2, <1>3, <1>4, <1>5 DEF Next

\* Retry copies are made of failed deliveries, and failures are never forgotten.
LEMMA NextRetriedHasFailed ==
    ASSUME IInv, RetriedHasFailed, [Next]_vars
    PROVE  RetriedHasFailed'
<1>t. /\ faults \in [Events -> Nat]
      /\ \A t \in Tiers : \A m \in Contents(retry[t]) : m.event \in Events
  <2>1. \A t \in Tiers : Contents(retry[t]) \subseteq Messages
    BY ContentsInSet DEF IInv, TypeOK
  <2> QED  BY <2>1 DEF IInv, TypeOK, Messages
<1>q. ASSUME UNCHANGED <<retry, faults, settling>>,
             settling # "idle" => Settled' = Settled
      PROVE  RetriedHasFailed'
  BY <1>q DEF RetriedHasFailed, Contents
<1>s. ASSUME UNCHANGED <<retry, faults>>, settling' = "idle"
      PROVE  RetriedHasFailed'
  BY <1>s DEF RetriedHasFailed, Contents
<1>1. ASSUME NEW e \in Events, Publisher(e)
      PROVE  RetriedHasFailed'
  BY <1>1, <1>q DEF Publisher, AppendDomainEvent, EndTransaction, CommitEvent, RollbackEvent,
                    brokerVars, consumerVars, Settled
<1>2. ASSUME NEW r \in Relays, Relay(r)
      PROVE  RetriedHasFailed'
  <2>1. UNCHANGED <<delivered, retry, consumerVars>>
    BY <1>2 DEF Relay, PublishNext, ClaimUnpublishedEvents, SkipUnparsable, PublishConfirmed,
                PublishRefused, FinishDrain, CrashRelay, brokerVars
  <2> QED  BY <1>q, <2>1 DEF Settled, consumerVars
<1>3. CASE Broker
  <2>1. CASE BindQueue
    BY <1>q, <2>1 DEF BindQueue, Settled, consumerVars
  <2>2. CASE Deliver
    <3>1. UNCHANGED <<retry, faults, settling>>
      BY <2>2 DEF Deliver, consumerVars
    <3>2. settling # "idle" => Settled' = Settled
      BY <2>2, DeliverKeepsCopies DEF IInv, DeliveryInProgress
    <3> QED  BY <1>q, <3>1, <3>2
  <2>3. ASSUME NEW t \in Tiers, ExpireRetry(t)
        PROVE  RetriedHasFailed'
    <3>1. /\ \A u \in Tiers : retry'[u] = IF u = t THEN Tail(retry[t]) ELSE retry[u]
          /\ UNCHANGED <<delivered, faults, settling>>
      BY <2>3 DEF ExpireRetry, IInv, TypeOK, consumerVars
    <3>2. Contents(retry[t]) = {Head(retry[t])} \union Contents(Tail(retry[t]))
      BY <2>3, ContentsHeadTail DEF ExpireRetry, IInv, TypeOK
    <3>3. \A u \in Tiers : Contents(retry'[u]) \subseteq Contents(retry[u])
      BY <3>1, <3>2
    <3> QED  BY <3>1, <3>3 DEF RetriedHasFailed, Settled
  <2> QED  BY <1>3, <2>1, <2>2, <2>3 DEF Broker
<1>4. CASE Consumer
  <2>1. CASE HandleEvent
    <3>1. retry' = retry /\ faults' = faults /\ settling' = "handled"
      BY <2>1 DEF HandleEvent, brokerVars
    <3> QED  BY <3>1 DEF RetriedHasFailed, Contents
  <2>2. CASE HandleFails
    <3>1. retry' = retry /\ settling' = "failed"
      BY <2>2 DEF HandleFails, brokerVars
    <3>2. \A f \in Events : faults'[f] >= faults[f] /\ faults'[f] \in Nat
      BY <1>t, <2>2 DEF HandleFails
    <3> QED  BY <1>t, <3>1, <3>2 DEF RetriedHasFailed, Contents
  <2>3. CASE DeadLetterUnreadable \/ GiveUp \/ RequeueOriginal \/ Acknowledge \/ CrashConsumer
    BY <1>s, <2>3 DEF DeadLetterUnreadable, GiveUp, RequeueOriginal, Acknowledge, CrashConsumer,
                      consumerVars
  <2>4. CASE SendRetryCopy
    <3> DEFINE tier == Settled.attempt + 1
    <3>1. delivered # <<>> /\ UNCHANGED <<delivered, faults>>
      BY <2>4 DEF SendRetryCopy, IInv, DeliveryInProgress
    <3>2. /\ Settled \in Messages /\ Settled.attempt < RetryTiers
      BY <2>4, <3>1, SettledTypeOK, LimitsAssumption
         DEF IInv, SendRetryCopy, Spent, Messages
    <3>3. /\ RetryCopy(Settled) \in Messages /\ RetryCopy(Settled).event = Settled.event
          /\ tier \in Tiers
      BY <3>2, LimitsAssumption DEF RetryCopy, Messages, Tiers
    <3>4. faults[Settled.event] > 0
      <4>1. Settled.attempt < faults[Settled.event]
        BY <2>4 DEF SendRetryCopy, IInv, AttemptsCounted
      <4>2. Settled.attempt \in Nat /\ faults[Settled.event] \in Nat
        BY <1>t, <3>2, LimitsAssumption DEF Messages
      <4> QED  BY <4>1, <4>2
    <3>5. Contents(Append(retry[tier], RetryCopy(Settled)))
            = Contents(retry[tier]) \union {RetryCopy(Settled)}
      BY <3>3, ContentsAppend DEF IInv, TypeOK
    <3>6. \A u \in Tiers :
             retry'[u] = IF u = tier THEN Append(retry[tier], RetryCopy(Settled)) ELSE retry[u]
      BY <2>4, <3>3 DEF SendRetryCopy, IInv, TypeOK
    <3>7. \A u \in Tiers :
             Contents(retry'[u]) \subseteq Contents(retry[u]) \union {RetryCopy(Settled)}
      BY <3>3, <3>5, <3>6
    <3>8. Settled' = Settled
      BY <3>1 DEF Settled
    <3> QED  BY <3>1, <3>3, <3>4, <3>7, <3>8 DEF RetriedHasFailed
  <2> QED  BY <1>4, <2>1, <2>2, <2>3, <2>4 DEF Consumer, SettleDelivery
<1>5. CASE UNCHANGED vars
  BY <1>5, <1>q DEF vars, brokerVars, consumerVars, Settled
<1> QED  BY <1>1, <1>2, <1>3, <1>4, <1>5 DEF Next

LEMMA InitOrderInv == Init => OrderInv
<1> SUFFICES ASSUME Init
             PROVE  OrderInv
  OBVIOUS
<1>1. /\ RowsInOrder /\ ClaimedInOrder
  BY DEF Init, RowsInOrder, ClaimedInOrder
<1>2. /\ delivered = <<>> /\ queue = <<>> /\ processed = {} /\ settling = "idle"
      /\ \A t \in Tiers : retry[t] = <<>>
  BY DEF Init
<1>3. \A t \in Tiers : Contents(retry[t]) = {}
  BY <1>2 DEF Contents
<1>4. RetriedHasFailed
  BY <1>2, <1>3 DEF RetriedHasFailed
<1>5. ConsumedInOrder
  BY <1>2, <1>3 DEF ConsumedInOrder, InOrder, Precedes, Holds
<1> QED  BY <1>1, <1>4, <1>5 DEF OrderInv

\* In an ordered deployment a fact is applied only when each of its causes is settled, or was
\* set back by a failure: retries, crashes, refusals and redeliveries do not reorder them.
THEOREM CausesComeFirst ==
    ASSUME OrderedDeployment
    PROVE  Spec => []CausesAppliedFirst
<1>1. Init => IInv /\ OrderInv
  BY InitOrderInv, InitTypeOK, InitStateInv DEF Init, IInv, StateInv, DeliveryInProgress
<1>2. (IInv /\ OrderInv) /\ [Next]_vars => (IInv /\ OrderInv)'
  BY NextIInv, NextRowsInOrder, NextClaimedInOrder, NextRetriedHasFailed, NextConsumedInOrder
     DEF OrderInv
<1>3. IInv /\ OrderInv => CausesAppliedFirst
  <2> SUFFICES ASSUME IInv, OrderInv, NEW e \in processed, NEW c \in Undisturbed(e)
               PROVE  c \in processed \union dlq \union discarded
    BY DEF CausesAppliedFirst
  <2>1. e \in Events /\ c \in Causes[e] /\ ~failedAt[c] /\ faults[c] = 0
    BY DEF Undisturbed, IInv, TypeOK
  <2>2. Waiting(c) => e \notin processed
    BY <2>1 DEF OrderInv, ConsumedInOrder, InOrder
  <2> QED  BY <2>1, <2>2 DEF Waiting
<1> QED  BY <1>1, <1>2, <1>3, PTL DEF Spec

=============================================================================
