---------------------------- MODULE StreamsProofs ---------------------------
(***************************************************************************)
(* One who follows a job sees its events in order and each once, for       *)
(* buffers, batches and connections of any size and whatever breaks.       *)
(***************************************************************************)
EXTENDS Streams, TLAPS

USE StreamsAssumption

-----------------------------------------------------------------------------
(* Lists. *)

(* The log starts with one state, *)
LEMMA OneState == <<"state">> \in Seq(Kinds) /\ Len(<<"state">>) = 1
  BY DEF Kinds

(* and a transaction adds one event or two. *)
LEMMA BatchFacts ==
  ASSUME NEW b \in Batches
  PROVE  b \in Seq(Kinds) /\ Len(b) \in Nat /\ Len(b) > 0
  <1>1. CASE b = <<"step">>
    BY <1>1 DEF Kinds
  <1>2. CASE b = <<"state">>
    BY <1>2 DEF Kinds
  <1>3. CASE b = <<"rest">>
    BY <1>3 DEF Kinds
  <1>4. CASE b = <<"step", "rest">>
    BY <1>4 DEF Kinds
  <1>5. CASE b = <<"step", "state">>
    BY <1>5 DEF Kinds
  <1>6. CASE b = <<"state", "step">>
    BY <1>6 DEF Kinds
  <1> QED
    BY <1>1, <1>2, <1>3, <1>4, <1>5, <1>6 DEF Batches

(* Events that were stored stay as they are when others are. *)
LEMMA ConcatFacts ==
  ASSUME NEW S, NEW s \in Seq(S), NEW t \in Seq(S)
  PROVE  /\ s \o t \in Seq(S) /\ Len(s \o t) = Len(s) + Len(t)
         /\ \A i \in 1..Len(s) : (s \o t)[i] = s[i]
  OBVIOUS

(* What is put behind a list leaves the rest of it in place, *)
LEMMA AppendFacts ==
  ASSUME NEW S, NEW s \in Seq(S), NEW e \in S
  PROVE  /\ Append(s, e) \in Seq(S) /\ Len(Append(s, e)) = Len(s) + 1
         /\ \A i \in 1..Len(s) : Append(s, e)[i] = s[i]
         /\ Append(s, e)[Len(s) + 1] = e
  OBVIOUS

(* as what is taken from its head moves the rest up by one. *)
LEMMA TailFacts ==
  ASSUME NEW S, NEW s \in Seq(S), s # <<>>
  PROVE  /\ Len(s) \in Nat \ {0} /\ Head(s) = s[1] /\ s[1] \in S
         /\ Tail(s) \in Seq(S) /\ Len(Tail(s)) = Len(s) - 1
         /\ \A i \in 1..(Len(s) - 1) : Tail(s)[i] = s[i + 1]
  OBVIOUS

(* A list is empty when it has no length. *)
LEMMA EmptyFacts ==
  ASSUME NEW S, NEW s \in Seq(S)
  PROVE  Len(s) \in Nat /\ (s = <<>> <=> Len(s) = 0)
  OBVIOUS
(* What a replay reads next is a sequence of the numbers after the last event. *)
LEMMA NextBatch ==
  ASSUME NEW a \in Nat, NEW n \in Nat
  PROVE  /\ [i \in 1..n |-> a + i] \in Seq(Nat \ {0})
         /\ Len([i \in 1..n |-> a + i]) = n
  OBVIOUS

-----------------------------------------------------------------------------
(* Types. *)

(* The following goes on only while it may fail once more. *)
MayFail == cpc \notin Over => failed < MaxFailed

TypeInv == TypeOK /\ MayFail

LEMMA TypeInit == Init => TypeInv
  <1> SUFFICES ASSUME Init
               PROVE  TypeInv
    OBVIOUS
  <1>1. log \in Seq(Kinds) /\ Len(log) = 1
    BY OneState DEF Init
  <1>2. <<>> \in Seq(Nat \ {0})
    OBVIOUS
  <1>3. published \in 0..Len(log)
    BY <1>1 DEF Init
  <1>4. {hand, buffer, wire} \subseteq Seq(Nat \ {0})
    BY <1>2 DEF Init
  <1>5. /\ purged \in BOOLEAN /\ fresh \in BOOLEAN /\ broker = "open" /\ spc = "none" /\ sub = "none" /\ cpc = "ask"
        /\ at = 0 /\ last = 0 /\ failed = 0 /\ faults = 0 /\ restarts = 0
    BY DEF Init
  <1> QED
    BY <1>1, <1>3, <1>4, <1>5 DEF TypeInv, TypeOK, MayFail, Over

LEMMA TypeStep ==
  ASSUME TypeInv, [Next]_vars
  PROVE  TypeInv'
  <1> USE DEF TypeInv, TypeOK, MayFail, Over, Kinds, store, stream, client, bounds
  <1>1. ASSUME NEW b \in Batches, Store(b)
        PROVE  TypeInv'
    <2>1. b \in Seq(Kinds) /\ Len(b) \in Nat
      BY BatchFacts
    <2>2. log' = log \o b
      BY <1>1 DEF Store
    <2>3. log' \in Seq(Kinds) /\ Len(log') = Len(log) + Len(b) /\ Len(log) \in Nat
      BY <2>1, <2>2, ConcatFacts, EmptyFacts
    <2> QED
      BY <2>1, <2>3, <1>1 DEF Store
  <1>2. ASSUME Publish
        PROVE  TypeInv'
    <2>1. published \in Nat /\ Len(log) \in Nat /\ published + 1 \in Nat \ {0}
      <3>1. Len(log) \in Nat
        BY EmptyFacts
      <3> QED
        BY <3>1
    <2>2. published' \in 0..Len(log) /\ UNCHANGED log
      BY <2>1, <1>2 DEF Publish
    <2>3. buffer' \in Seq(Nat \ {0})
      <3>1. Append(buffer, published + 1) \in Seq(Nat \ {0})
        BY <2>1, AppendFacts
      <3> QED
        BY <3>1, <1>2 DEF Publish
    <2>4. sub' \in {"none", "on", "slow", "closed"}
      BY <1>2 DEF Publish
    <2> QED
      BY <2>2, <2>3, <2>4, <1>2 DEF Publish
  <1>3. ASSUME Purge
        PROVE  TypeInv'
    BY <1>3 DEF Purge
  <1>4. ASSUME CloseStreams
        PROVE  TypeInv'
    BY <1>4 DEF CloseStreams
  <1>5. ASSUME Restart
        PROVE  TypeInv'
    BY <1>5 DEF Restart, NoStream
  <1>6. ASSUME Subscribe
        PROVE  TypeInv'
    BY <1>6 DEF Subscribe
  <1>7. ASSUME Replay
        PROVE  TypeInv'
    <2> DEFINE n == IF Stored <= at THEN 0 ELSE IF Stored - at < ReplayBatch THEN Stored - at ELSE ReplayBatch
    <2>1. n \in Nat
      BY DEF Stored
    <2>2. hand' = [i \in 1..n |-> at + i]
      BY <1>7 DEF Replay
    <2>3. hand' \in Seq(Nat \ {0})
      BY <2>1, <2>2, NextBatch
    <2> QED
      BY <2>3, <1>7 DEF Replay
  <1>8. ASSUME Send
        PROVE  TypeInv'
    <2>1. Head(hand) \in Nat \ {0} /\ hand' \in Seq(Nat \ {0})
      BY TailFacts, <1>8 DEF Send
    <2>2. wire' \in Seq(Nat \ {0})
      BY <2>1, AppendFacts, <1>8 DEF Send
    <2> QED
      BY <2>1, <2>2, <1>8 DEF Send
  <1>9. ASSUME Check
        PROVE  TypeInv'
    BY <1>9 DEF Check
  <1>10. ASSUME Take
        PROVE  TypeInv'
    <2>1. Head(buffer) \in Nat \ {0} /\ buffer' \in Seq(Nat \ {0})
      BY TailFacts, <1>10 DEF Take
    <2>2. <<Head(buffer)>> \in Seq(Nat \ {0})
      BY <2>1
    <2>3. hand' \in Seq(Nat \ {0})
      BY <2>2, <1>10 DEF Take
    <2> QED
      BY <2>1, <2>3, <1>10 DEF Take
  <1>11. ASSUME Dropped
        PROVE  TypeInv'
    BY <1>11 DEF Dropped
  <1>12. ASSUME Ask
        PROVE  TypeInv'
    BY <1>12 DEF Ask
  <1>13. ASSUME Receive
        PROVE  TypeInv'
    <2>1. Head(wire) \in Nat \ {0} /\ wire' \in Seq(Nat \ {0})
      BY TailFacts, <1>13 DEF Receive
    <2>2. last' \in Nat /\ fresh' \in BOOLEAN
      BY <2>1, <1>13 DEF Receive
    <2> QED
      BY <2>1, <2>2, <1>13 DEF Receive
  <1>14. ASSUME Ends
        PROVE  TypeInv'
    BY <1>14 DEF Ends, NoStream
  <1>15. ASSUME Cut
        PROVE  TypeInv'
    BY <1>15 DEF Cut, NoStream
  <1>16. ASSUME Look
        PROVE  TypeInv'
    BY <1>16 DEF Look, TryEnds
  <1>17. ASSUME RequestFails
        PROVE  TypeInv'
    BY <1>17 DEF RequestFails, TryEnds
  <1>18. ASSUME NotFound
        PROVE  TypeInv'
    BY <1>18 DEF NotFound
  <1>19. CASE UNCHANGED vars
    BY <1>19 DEF vars
  <1> QED
    BY <1>1, <1>2, <1>3, <1>4, <1>5, <1>6, <1>7, <1>8, <1>9, <1>10, <1>11, <1>12, <1>13,
       <1>14, <1>15, <1>16, <1>17, <1>18, <1>19
       DEF Next, Service, Follow

(* Every reachable state is well typed, and no following fails more often than its bound. *)
THEOREM StreamsTypes == Spec => []TypeOK
  <1>1. TypeInv => TypeOK
    BY DEF TypeInv
  <1> QED
    BY <1>1, TypeInit, TypeStep, PTL DEF Spec

-----------------------------------------------------------------------------
(* Order. *)

(* What is on its way is consecutive: from the last event that was delivered, over what the *)
(* connection holds, to what is in hand, which is stored.                                   *)
InOrder ==
  /\ at = last + Len(wire)
  /\ \A i \in 1..Len(wire) : wire[i] = last + i
  /\ \A i \in 1..Len(hand) : hand[i] = at + i
  /\ at + Len(hand) <= Len(log)

(* A stream is there while the client reads, and holds nothing before it has subscribed. *)
OneStream ==
  /\ spc = "none" <=> cpc # "reading"
  /\ spc \in {"none", "begun"} => hand = <<>> /\ wire = <<>> /\ buffer = <<>> /\ sub = "none"

(* The buffer is consecutive too, and ends with the last event published. *)
Buffered ==
  /\ \A i \in 1..Len(buffer) : buffer[i] = buffer[1] + i - 1 /\ buffer[i] <= published
  /\ sub = "on" /\ buffer # <<>> => buffer[Len(buffer)] = published
  /\ purged => buffer = <<>> /\ published = Len(log)

(* Once the replay has read what there is, nothing lies between what is in hand and the *)
(* buffer, nor between it and what is to be published when the buffer is empty.         *)
NoneMissed ==
  spc \in {"check", "live"} =>
    /\ buffer # <<>> => buffer[1] <= at + Len(hand) + 1
    /\ sub = "on" /\ buffer = <<>> /\ ~purged => published <= at + Len(hand)

StreamInv == TypeInv /\ InOrder /\ OneStream /\ Buffered /\ NoneMissed

LEMMA StreamInit == Init => StreamInv
  <1> SUFFICES ASSUME Init
               PROVE  StreamInv
    OBVIOUS
  <1>1. TypeInv /\ Len(log) = 1
    BY TypeInit, OneState DEF Init
  <1> QED
    BY <1>1 DEF Init, StreamInv, InOrder, OneStream, Buffered, NoneMissed

(* The client delivers the event after the last one, which is stored, and never skips one. *)
LEMMA NextIsDelivered ==
  ASSUME StreamInv, Receive
  PROVE  last' = last + 1 /\ last < Len(log) /\ Len(wire) \in Nat \ {0}
  <1>1. wire \in Seq(Nat \ {0}) /\ wire # <<>> /\ at \in Nat /\ last \in Nat /\ Len(hand) \in Nat /\ Len(log) \in Nat
    BY EmptyFacts DEF Receive, StreamInv, TypeInv, TypeOK
  <1>2. Len(wire) \in Nat \ {0} /\ Head(wire) = wire[1]
    BY <1>1, TailFacts
  <1>3. wire[1] = last + 1
    BY <1>1, <1>2 DEF StreamInv, InOrder
  <1>4. last' = last + 1
    BY <1>1, <1>2, <1>3 DEF Receive
  <1>5. last < Len(log)
    BY <1>1, <1>2 DEF StreamInv, InOrder
  <1> QED
    BY <1>2, <1>4, <1>5

LEMMA StreamStep ==
  ASSUME StreamInv, [Next]_vars
  PROVE  StreamInv'
  <1> SUFFICES (InOrder /\ OneStream /\ Buffered /\ NoneMissed)'
    BY TypeStep DEF StreamInv
  <1>1. ASSUME NEW b \in Batches, Store(b)
        PROVE  (InOrder /\ OneStream /\ Buffered /\ NoneMissed)'
    <2>1. Len(log') >= Len(log) /\ Len(log) \in Nat /\ Len(hand) \in Nat
      <3>1. log \in Seq(Kinds) /\ hand \in Seq(Nat \ {0}) /\ log' = log \o b
        BY <1>1 DEF Store, StreamInv, TypeInv, TypeOK
      <3> QED
        BY <3>1, BatchFacts, ConcatFacts, EmptyFacts
    <2>2. at \in Nat /\ Len(wire) \in Nat /\ published = Len(log) /\ ~purged /\ UNCHANGED <<published, purged, broker, stream, client, bounds>>
      BY <1>1, EmptyFacts DEF Store, StreamInv, TypeInv, TypeOK
    <2> QED
      BY <2>1, <2>2 DEF StreamInv, InOrder, OneStream, Buffered, NoneMissed, stream, client
  <1>2. ASSUME Publish
        PROVE  (InOrder /\ OneStream /\ Buffered /\ NoneMissed)'
    <2>1. published \in Nat /\ published' = published + 1 /\ published < Len(log) /\ buffer \in Seq(Nat \ {0}) /\ at \in Nat
      BY <1>2, EmptyFacts DEF Publish, StreamInv, TypeInv, TypeOK
    <2>2. UNCHANGED <<log, purged, at, hand, spc, wire, last, cpc>>
      BY <1>2 DEF Publish, client
    <2>3. ~purged
      BY <2>1 DEF StreamInv, Buffered
    <2>4. InOrder'
      BY <2>2 DEF StreamInv, InOrder
    <2>5. Len(buffer) \in Nat /\ (buffer = <<>> <=> Len(buffer) = 0) /\ Len(hand) \in Nat
      BY <2>1, EmptyFacts DEF StreamInv, TypeInv, TypeOK
    <2>6. CASE sub = "on" /\ Len(buffer) < Buffer
      <3>1. buffer' = Append(buffer, published + 1) /\ sub' = sub
        BY <2>6, <1>2 DEF Publish
      <3>2. /\ Len(buffer') = Len(buffer) + 1
            /\ \A i \in 1..Len(buffer) : buffer'[i] = buffer[i]
            /\ buffer'[Len(buffer) + 1] = published + 1
        <4>1. published + 1 \in Nat \ {0}
          BY <2>1
        <4> QED
          BY <3>1, <4>1, <2>1, AppendFacts
      <3>3. buffer' # <<>> /\ OneStream'
        BY <3>1, <2>1, <2>2, <2>6 DEF StreamInv, OneStream
      <3>4. CASE buffer = <<>>
        <4>1. Len(buffer') = 1 /\ buffer'[1] = published + 1
          BY <3>4, <2>5, <3>2
        <4>2. Buffered'
          BY <4>1, <2>1, <2>2, <2>3 DEF Buffered
        <4>3. NoneMissed'
          BY <4>1, <2>2, <3>3, <3>4, <2>6, <2>1, <2>3 DEF NoneMissed, StreamInv
        <4> QED
          BY <4>2, <4>3, <2>4, <3>3
      <3>5. CASE buffer # <<>>
        <4>1. Len(buffer) > 0 /\ buffer[1] \in Nat
          BY <3>5, <2>5, <2>1, TailFacts
        <4>2. buffer[Len(buffer)] = published
          BY <3>5, <2>6 DEF StreamInv, Buffered
        <4>3. buffer[1] + Len(buffer) - 1 = published
          BY <4>1, <4>2, <2>5 DEF StreamInv, Buffered
        <4>4. buffer'[1] = buffer[1]
          BY <4>1, <2>5, <3>2
        <4>5. ASSUME NEW i \in 1..Len(buffer')
              PROVE  buffer'[i] = buffer'[1] + i - 1 /\ buffer'[i] <= published'
          <5>1. CASE i \in 1..Len(buffer)
            <6>1. buffer'[i] = buffer[i] /\ buffer[i] = buffer[1] + i - 1 /\ buffer[i] <= published
              BY <5>1, <3>2 DEF StreamInv, Buffered
            <6> QED
              BY <6>1, <4>4, <4>1, <2>1
          <5>2. CASE i = Len(buffer) + 1
            BY <5>2, <3>2, <4>1, <4>3, <4>4, <2>1, <2>5
          <5> QED
            BY <5>1, <5>2, <3>2, <2>5
        <4>6. Buffered'
          BY <4>5, <3>2, <2>1, <2>2, <2>3 DEF Buffered
        <4>7. NoneMissed'
          BY <4>4, <3>5, <2>2, <3>3 DEF NoneMissed, StreamInv
        <4> QED
          BY <4>6, <4>7, <2>4, <3>3
      <3> QED
        BY <3>4, <3>5
    <2>7. CASE ~(sub = "on" /\ Len(buffer) < Buffer)
      <3>1. buffer' = buffer /\ sub' # "on" /\ (sub' = "none" <=> sub = "none")
        BY <2>7, <1>2 DEF Publish
      <3>2. Buffered'
        BY <2>1, <2>2, <2>3, <2>5, <3>1 DEF StreamInv, Buffered, TypeInv, TypeOK
      <3> QED
        BY <3>1, <3>2, <2>2, <2>4 DEF StreamInv, OneStream, NoneMissed
    <2> QED
      BY <2>6, <2>7
  <1>3. ASSUME Purge
        PROVE  (InOrder /\ OneStream /\ Buffered /\ NoneMissed)'
    BY <1>3 DEF Purge,
          StreamInv, TypeInv, TypeOK, InOrder, OneStream, Buffered, NoneMissed, Over, store, stream, client, bounds
  <1>4. ASSUME CloseStreams
        PROVE  (InOrder /\ OneStream /\ Buffered /\ NoneMissed)'
    BY <1>4 DEF CloseStreams,
          StreamInv, TypeInv, TypeOK, InOrder, OneStream, Buffered, NoneMissed, Over, store, stream, client, bounds
  <1>5. ASSUME Restart
        PROVE  (InOrder /\ OneStream /\ Buffered /\ NoneMissed)'
    BY <1>5 DEF Restart, NoStream,
          StreamInv, TypeInv, TypeOK, InOrder, OneStream, Buffered, NoneMissed, Over, store, stream, client, bounds
  <1>6. ASSUME Subscribe
        PROVE  (InOrder /\ OneStream /\ Buffered /\ NoneMissed)'
    BY <1>6 DEF Subscribe,
          StreamInv, TypeInv, TypeOK, InOrder, OneStream, Buffered, NoneMissed, Over, store, stream, client, bounds
  <1>7. ASSUME Replay
        PROVE  (InOrder /\ OneStream /\ Buffered /\ NoneMissed)'
    <2> DEFINE n == IF Stored <= at THEN 0 ELSE IF Stored - at < ReplayBatch THEN Stored - at ELSE ReplayBatch
    <2>1. Len(log) \in Nat /\ at \in Nat /\ published \in Nat /\ published <= Len(log) /\ hand = <<>> /\ at <= Len(log)
      BY <1>7, EmptyFacts DEF Replay, StreamInv, TypeInv, TypeOK, InOrder
    <2>2. Stored \in Nat /\ Stored <= Len(log) /\ (~purged => Stored = Len(log))
      BY <2>1 DEF Stored
    <2>3. n \in Nat /\ at + n <= Len(log) /\ (n < ReplayBatch => Stored <= at + n)
      BY <2>1, <2>2
    <2>4. hand' = [i \in 1..n |-> at + i] /\ spc' = IF n < ReplayBatch THEN "check" ELSE "replay"
      BY <1>7 DEF Replay
    <2>5. UNCHANGED <<log, published, purged, at, sub, buffer, wire, last, cpc>> /\ spc = "replay"
      BY <1>7 DEF Replay, store, client
    <2> HIDE DEF n
    <2>6. Len(hand') = n /\ \A i \in 1..n : hand'[i] = at + i
      BY <2>1, <2>3, <2>4, NextBatch
    <2>7. InOrder'
      BY <2>3, <2>5, <2>6 DEF StreamInv, InOrder
    <2>8. NoneMissed'
      <3>1. CASE purged
        BY <3>1, <2>5 DEF StreamInv, Buffered, NoneMissed
      <3>2. CASE ~purged /\ n < ReplayBatch
        <4>1. published <= at + n
          BY <3>2, <2>1, <2>2, <2>3
        <4>2. buffer # <<>> => buffer[1] \in Nat /\ buffer[1] <= published
          <5>1. buffer \in Seq(Nat \ {0})
            BY DEF StreamInv, TypeInv, TypeOK
          <5> QED
            BY <5>1, TailFacts DEF StreamInv, Buffered
        <4> QED
          BY <4>1, <4>2, <2>1, <2>3, <2>5, <2>6 DEF NoneMissed
      <3>3. CASE ~(n < ReplayBatch)
        BY <3>3, <2>4 DEF NoneMissed
      <3> QED
        BY <3>1, <3>2, <3>3
    <2> QED
      BY <2>7, <2>8, <2>4, <2>5 DEF StreamInv, OneStream, Buffered
  <1>8. ASSUME Send
        PROVE  (InOrder /\ OneStream /\ Buffered /\ NoneMissed)'
    <2>1. hand \in Seq(Nat \ {0}) /\ hand # <<>> /\ wire \in Seq(Nat \ {0}) /\ at \in Nat /\ last \in Nat
      BY <1>8 DEF Send, StreamInv, TypeInv, TypeOK
    <2>2. UNCHANGED <<log, published, purged, sub, buffer, last, cpc>>
      BY <1>8 DEF Send, store, client
    <2>3. /\ Len(hand) \in Nat \ {0} /\ Head(hand) = hand[1] /\ Len(hand') = Len(hand) - 1
          /\ \A i \in 1..(Len(hand) - 1) : hand'[i] = hand[i + 1]
      BY <2>1, TailFacts, <1>8 DEF Send
    <2>4. Head(hand) = at + 1
      BY <2>1, <2>3 DEF StreamInv, InOrder
    <2>5. at' = at + 1 /\ wire' = Append(wire, at + 1)
      BY <2>4, <1>8 DEF Send
    <2>6. /\ Len(wire) \in Nat /\ Len(wire') = Len(wire) + 1
          /\ \A i \in 1..Len(wire) : wire'[i] = wire[i]
          /\ wire'[Len(wire) + 1] = at + 1
      <3>1. at + 1 \in Nat \ {0}
        BY <2>1
      <3> QED
        BY <2>1, <2>5, <3>1, AppendFacts, EmptyFacts
    <2>7. at = last + Len(wire) /\ at + Len(hand) <= Len(log)
      BY DEF StreamInv, InOrder
    <2>8. ASSUME NEW i \in 1..Len(wire')
          PROVE  wire'[i] = last + i
      <3>1. CASE i \in 1..Len(wire)
        BY <3>1, <2>6 DEF StreamInv, InOrder
      <3>2. CASE i = Len(wire) + 1
        BY <3>2, <2>6, <2>7, <2>1
      <3> QED
        BY <3>1, <3>2, <2>6
    <2>9. ASSUME NEW i \in 1..Len(hand')
          PROVE  hand'[i] = at' + i
      <3>1. i + 1 \in 1..Len(hand) /\ hand'[i] = hand[i + 1]
        BY <2>3
      <3>2. hand[i + 1] = at + (i + 1)
        BY <3>1 DEF StreamInv, InOrder
      <3> QED
        BY <3>1, <3>2, <2>5, <2>1
    <2>10. at' + Len(hand') = at + Len(hand) /\ at' = last + Len(wire')
      BY <2>1, <2>3, <2>5, <2>6, <2>7
    <2>11. InOrder'
      BY <2>2, <2>7, <2>8, <2>9, <2>10 DEF InOrder
    <2>12. spc \notin {"none", "begun"} /\ spc' \notin {"none", "begun"} /\ (spc' \in {"check", "live"} => spc' = spc)
      BY <2>1, <1>8 DEF Send, StreamInv, OneStream
    <2> QED
      BY <2>2, <2>10, <2>11, <2>12 DEF StreamInv, OneStream, Buffered, NoneMissed
  <1>9. ASSUME Check
        PROVE  (InOrder /\ OneStream /\ Buffered /\ NoneMissed)'
    BY <1>9 DEF Check,
          StreamInv, TypeInv, TypeOK, InOrder, OneStream, Buffered, NoneMissed, Over, store, stream, client, bounds
  <1>10. ASSUME Take
        PROVE  (InOrder /\ OneStream /\ Buffered /\ NoneMissed)'
    <2>1. UNCHANGED <<log, published, purged, at, spc, sub, wire, last, cpc>> /\ spc = "live" /\ hand = <<>> /\ buffer # <<>>
      BY <1>10 DEF Take, store, client
    <2>2. buffer \in Seq(Nat \ {0}) /\ at \in Nat /\ published \in Nat /\ published <= Len(log) /\ Len(log) \in Nat
      BY EmptyFacts DEF StreamInv, TypeInv, TypeOK
    <2>3. /\ Len(buffer) \in Nat \ {0} /\ Head(buffer) = buffer[1] /\ buffer[1] \in Nat
          /\ buffer' \in Seq(Nat \ {0}) /\ Len(buffer') = Len(buffer) - 1
          /\ \A i \in 1..(Len(buffer) - 1) : buffer'[i] = buffer[i + 1]
      BY <2>1, <2>2, TailFacts, <1>10 DEF Take
    <2>4. buffer[1] <= at + 1 /\ buffer[1] <= published /\ at <= Len(log)
      BY <2>1, <2>2, <2>3 DEF StreamInv, NoneMissed, Buffered, InOrder
    <2>5. /\ Len(hand') \in Nat /\ at + Len(hand') <= Len(log) /\ buffer[1] <= at + Len(hand')
          /\ \A i \in 1..Len(hand') : hand'[i] = at + i
      <3>1. CASE buffer[1] <= at
        <4>1. hand' = <<>>
          BY <3>1, <2>3, <1>10 DEF Take
        <4> QED
          BY <4>1, <3>1, <2>2, <2>4
      <3>2. CASE buffer[1] = at + 1
        <4>1. hand' = <<at + 1>>
          BY <3>2, <2>2, <2>3, <1>10 DEF Take
        <4>2. Len(hand') = 1 /\ hand'[1] = at + 1
          BY <4>1
        <4> QED
          BY <4>2, <3>2, <2>2, <2>4
      <3> QED
        BY <3>1, <3>2, <2>2, <2>3, <2>4
    <2>6. InOrder'
      BY <2>1, <2>5 DEF StreamInv, InOrder
    <2>7. Len(buffer') \in Nat /\ (buffer' = <<>> <=> Len(buffer') = 0)
      BY <2>3, EmptyFacts
    <2>8. \A i \in 1..Len(buffer') : buffer'[i] = buffer[1] + i /\ buffer'[i] <= published
      <3> SUFFICES ASSUME NEW i \in 1..Len(buffer')
                   PROVE  buffer'[i] = buffer[1] + i /\ buffer'[i] <= published
        OBVIOUS
      <3>1. i + 1 \in 1..Len(buffer) /\ buffer'[i] = buffer[i + 1]
        BY <2>3
      <3>2. buffer[i + 1] = buffer[1] + (i + 1) - 1 /\ buffer[i + 1] <= published
        BY <3>1 DEF StreamInv, Buffered
      <3> QED
        BY <3>1, <3>2, <2>3
    <2>9. sub = "on" => buffer[1] + Len(buffer) - 1 = published
      <3>1. Len(buffer) \in 1..Len(buffer)
        BY <2>3
      <3> QED
        BY <3>1, <2>1 DEF StreamInv, Buffered
    <2>10. buffer' # <<>> => Len(buffer') \in Nat \ {0} /\ 1 \in 1..Len(buffer') /\ buffer'[1] = buffer[1] + 1
      BY <2>7, <2>8
    <2>11. buffer' = <<>> => Len(buffer) = 1
      BY <2>3, <2>7
    <2>12. Buffered'
      <3>1. ~purged
        BY <2>1 DEF StreamInv, Buffered
      <3>2. \A i \in 1..Len(buffer') : buffer'[i] = buffer'[1] + i - 1 /\ buffer'[i] <= published
        <4> SUFFICES ASSUME NEW i \in 1..Len(buffer')
                     PROVE  buffer'[i] = buffer'[1] + i - 1 /\ buffer'[i] <= published
          OBVIOUS
        <4>1. buffer' # <<>>
          BY <2>7
        <4> QED
          BY <4>1, <2>3, <2>7, <2>8, <2>10
      <3>3. sub = "on" /\ buffer' # <<>> => buffer'[Len(buffer')] = published
        BY <2>3, <2>7, <2>8, <2>9
      <3> QED
        BY <3>1, <3>2, <3>3, <2>1 DEF Buffered
    <2>13. NoneMissed'
      <3>1. buffer' # <<>> => buffer'[1] <= at + Len(hand') + 1
        BY <2>2, <2>3, <2>5, <2>10
      <3>2. sub = "on" /\ buffer' = <<>> => published <= at + Len(hand')
        <4> SUFFICES ASSUME sub = "on", buffer' = <<>>
                     PROVE  published <= at + Len(hand')
          OBVIOUS
        <4>1. Len(buffer) = 1 /\ buffer[1] \in Nat
          BY <2>3, <2>11
        <4>2. buffer[1] + 1 - 1 = published
          BY <4>1, <2>9
        <4> QED
          BY <4>1, <4>2, <2>2, <2>5
      <3> QED
        BY <3>1, <3>2, <2>1 DEF NoneMissed
    <2> QED
      BY <2>1, <2>6, <2>12, <2>13 DEF StreamInv, OneStream
  <1>11. ASSUME Dropped
        PROVE  (InOrder /\ OneStream /\ Buffered /\ NoneMissed)'
    BY <1>11 DEF Dropped,
          StreamInv, TypeInv, TypeOK, InOrder, OneStream, Buffered, NoneMissed, Over, store, stream, client, bounds
  <1>12. ASSUME Ask
        PROVE  (InOrder /\ OneStream /\ Buffered /\ NoneMissed)'
    BY <1>12 DEF Ask,
          StreamInv, TypeInv, TypeOK, InOrder, OneStream, Buffered, NoneMissed, Over, store, stream, client, bounds
  <1>13. ASSUME Receive
        PROVE  (InOrder /\ OneStream /\ Buffered /\ NoneMissed)'
    <2>1. wire \in Seq(Nat \ {0}) /\ wire # <<>> /\ at \in Nat /\ last \in Nat
      BY <1>13 DEF Receive, StreamInv, TypeInv, TypeOK
    <2>2. UNCHANGED <<log, published, purged, at, hand, spc, sub, buffer, cpc>>
      BY <1>13 DEF Receive, store
    <2>3. last' = last + 1 /\ Len(wire) \in Nat \ {0}
      BY NextIsDelivered, <1>13
    <2>4. /\ Len(wire') = Len(wire) - 1
          /\ \A i \in 1..(Len(wire) - 1) : wire'[i] = wire[i + 1]
      BY <2>1, TailFacts, <1>13 DEF Receive
    <2>5. ASSUME NEW i \in 1..Len(wire')
          PROVE  wire'[i] = last' + i
      <3>1. i + 1 \in 1..Len(wire) /\ wire'[i] = wire[i + 1]
        BY <2>3, <2>4
      <3>2. wire[i + 1] = last + (i + 1)
        BY <3>1 DEF StreamInv, InOrder
      <3> QED
        BY <3>1, <3>2, <2>1, <2>3
    <2>6. at' = last' + Len(wire')
      BY <2>1, <2>2, <2>3, <2>4 DEF StreamInv, InOrder
    <2>7. InOrder'
      BY <2>2, <2>5, <2>6 DEF StreamInv, InOrder
    <2>8. spc \notin {"none", "begun"}
      BY <2>1 DEF StreamInv, OneStream
    <2> QED
      BY <2>2, <2>7, <2>8 DEF StreamInv, OneStream, Buffered, NoneMissed
  <1>14. ASSUME Ends
        PROVE  (InOrder /\ OneStream /\ Buffered /\ NoneMissed)'
    BY <1>14 DEF Ends, NoStream,
          StreamInv, TypeInv, TypeOK, InOrder, OneStream, Buffered, NoneMissed, Over, store, stream, client, bounds
  <1>15. ASSUME Cut
        PROVE  (InOrder /\ OneStream /\ Buffered /\ NoneMissed)'
    BY <1>15 DEF Cut, NoStream,
          StreamInv, TypeInv, TypeOK, InOrder, OneStream, Buffered, NoneMissed, Over, store, stream, client, bounds
  <1>16. ASSUME Look
        PROVE  (InOrder /\ OneStream /\ Buffered /\ NoneMissed)'
    BY <1>16 DEF Look, TryEnds,
          StreamInv, TypeInv, TypeOK, InOrder, OneStream, Buffered, NoneMissed, Over, store, stream, client, bounds
  <1>17. ASSUME RequestFails
        PROVE  (InOrder /\ OneStream /\ Buffered /\ NoneMissed)'
    BY <1>17 DEF RequestFails, TryEnds,
          StreamInv, TypeInv, TypeOK, InOrder, OneStream, Buffered, NoneMissed, Over, store, stream, client, bounds
  <1>18. ASSUME NotFound
        PROVE  (InOrder /\ OneStream /\ Buffered /\ NoneMissed)'
    BY <1>18 DEF NotFound,
          StreamInv, TypeInv, TypeOK, InOrder, OneStream, Buffered, NoneMissed, Over, store, stream, client, bounds
  <1>19. CASE UNCHANGED vars
    BY <1>19 DEF vars,
          StreamInv, TypeInv, TypeOK, InOrder, OneStream, Buffered, NoneMissed, Over, store, stream, client, bounds
  <1> QED
    BY <1>1, <1>2, <1>3, <1>4, <1>5, <1>6, <1>7, <1>8, <1>9, <1>10, <1>11, <1>12, <1>13,
       <1>14, <1>15, <1>16, <1>17, <1>18, <1>19
       DEF Next, Service, Follow

-----------------------------------------------------------------------------
(* The theorems. *)

(* One who follows sees the abstract feed. *)
THEOREM Follows == Spec => FollowsFeed
  <1>1. Init => FeedOf!Init
    BY DEF Init, FeedOf!Init, Over
  <1>2. ASSUME StreamInv, [Next]_vars
        PROVE  [FeedOf!Next]_<<Len(log), last, cpc \notin Over>>
    <2>1. ASSUME NEW b \in Batches, Store(b)
          PROVE  FeedOf!Store
      <3>1. b \in Seq(Kinds) /\ Len(b) \in Nat /\ Len(b) > 0 /\ log \in Seq(Kinds) /\ Len(log) \in Nat
        BY <1>2, BatchFacts, EmptyFacts DEF StreamInv, TypeInv, TypeOK
      <3>2. Len(log') = Len(log) + Len(b) /\ UNCHANGED <<last, cpc>>
        BY <3>1, <2>1, ConcatFacts DEF Store, client
      <3> QED
        BY <3>1, <3>2 DEF FeedOf!Store
    <2>2. ASSUME Receive
          PROVE  FeedOf!Deliver
      <3>1. cpc = "reading" /\ UNCHANGED <<log, cpc>>
        BY <2>2 DEF Receive, store
      <3> QED
        BY <1>2, <2>2, <3>1, NextIsDelivered DEF FeedOf!Deliver, Over
    <2>3. ASSUME Look \/ RequestFails \/ NotFound
          PROVE  FeedOf!End \/ UNCHANGED <<Len(log), last, cpc \notin Over>>
      BY <2>3 DEF Look, RequestFails, NotFound, TryEnds, Over, store, FeedOf!End
    <2>4. ASSUME Ask \/ Ends \/ Cut \/ Restart
          PROVE  UNCHANGED <<Len(log), last, cpc \notin Over>>
      BY <2>4 DEF Ask, Ends, Cut, Restart, Over, store
    <2>5. ASSUME Service \/ Purge \/ CloseStreams
          PROVE  UNCHANGED <<Len(log), last, cpc \notin Over>>
      BY <2>5 DEF Service, Publish, Subscribe, Replay, Send, Check, Take, Dropped, Purge, CloseStreams, store, client
    <2>6. CASE UNCHANGED vars
      BY <2>6 DEF vars, store, client
    <2> QED
      BY <1>2, <2>1, <2>2, <2>3, <2>4, <2>5, <2>6 DEF Next, Follow, FeedOf!Next
  <1> QED
    BY <1>1, <1>2, StreamInit, StreamStep, PTL DEF Spec, FollowsFeed, FeedOf!Spec

(* A stream that ends has nothing left in hand, and one that listens holds one event at most. *)
Ended ==
  /\ StreamEndsAtRest
  /\ spc = "over" => hand = <<>>
  /\ spc = "live" => Len(hand) <= 1

LEMMA EndedInit == Init => Ended
  BY DEF Init, Ended, StreamEndsAtRest

LEMMA EndedStep ==
  ASSUME StreamInv, Ended, [Next]_vars
  PROVE  Ended'
  <1>1. /\ at \in Nat /\ log \in Seq(Kinds) /\ Len(log) \in Nat /\ at <= Len(log)
        /\ hand \in Seq(Nat \ {0}) /\ Len(hand) \in Nat
    BY EmptyFacts DEF StreamInv, TypeInv, TypeOK, InOrder
  <1>2. ASSUME NEW b \in Batches, Store(b)
        PROVE  Ended'
    <2>1. log' = log \o b /\ UNCHANGED <<at, hand, spc, sub>>
      BY <1>2 DEF Store, stream
    <2>2. \A i \in 1..Len(log) : log'[i] = log[i]
      BY <1>1, <2>1, BatchFacts, ConcatFacts
    <2>3. RestsAt(at) => RestsAt(at)'
      <3>1. \A i \in 1..at : log'[i] = log[i]
        BY <1>1, <2>2
      <3>2. SUFFICES ASSUME RestsAt(at)
                     PROVE  RestsAt(at)'
        OBVIOUS
      <3>3. PICK i \in 1..at : log[i] = "rest" /\ \A k \in (i + 1)..at : log[k] = "step"
        BY <3>2 DEF RestsAt
      <3>4. log'[i] = "rest" /\ \A k \in (i + 1)..at : log'[k] = "step"
        BY <1>1, <3>1, <3>3
      <3> QED
        BY <2>1, <3>4 DEF RestsAt
    <2> QED
      BY <2>1, <2>3 DEF Ended, StreamEndsAtRest
  <1>3. ASSUME Send
        PROVE  Ended'
    <2>1. hand # <<>> /\ at' = Head(hand) /\ hand' = Tail(hand) /\ UNCHANGED <<log, sub>>
      BY <1>3 DEF Send, store
    <2>2. Len(hand') = Len(hand) - 1 /\ at' = hand[1] /\ hand[1] \in Nat \ {0} /\ hand' \in Seq(Nat \ {0})
      BY <1>1, <2>1, TailFacts
    <2>3. spc # "over" /\ (spc = "live" => hand' = <<>>)
      <3>1. Len(hand') = 0 => hand' = <<>>
        BY <2>2, EmptyFacts
      <3>2. Len(hand) > 0
        BY <1>1, <2>1, TailFacts
      <3> QED
        BY <1>1, <2>1, <2>2, <3>1, <3>2 DEF Ended
    <2>4. CASE spc = "live" /\ log[Head(hand)] = "rest"
      <3>1. spc' = "over" /\ log[at'] = "rest"
        BY <2>1, <2>4, <1>3 DEF Send
      <3>2. RestsAt(at)'
        BY <2>1, <2>2, <3>1 DEF RestsAt
      <3> QED
        BY <2>3, <2>4, <3>1, <3>2 DEF Ended, StreamEndsAtRest
    <2>5. CASE ~(spc = "live" /\ log[Head(hand)] = "rest")
      <3>1. spc' = spc
        BY <2>5, <1>3 DEF Send
      <3>2. spc = "live" => Len(hand') <= 1
        BY <1>1, <2>2 DEF Ended
      <3> QED
        BY <2>3, <3>1, <3>2 DEF Ended, StreamEndsAtRest
    <2> QED
      BY <2>4, <2>5
  <1>4. ASSUME Check
        PROVE  Ended'
    <2>1. hand = <<>> /\ UNCHANGED <<log, at, hand, sub>>
      BY <1>4 DEF Check, store
    <2>2. Len(hand') = 0
      BY <2>1
    <2>3. CASE ~NewState /\ AtRest
      <3>1. Stored = Len(log)
        BY <1>1, <2>3 DEF AtRest, RestsAt, Stored
      <3>2. PICK i \in 1..Stored : log[i] = "rest" /\ \A k \in (i + 1)..Stored : log[k] = "step"
        BY <2>3 DEF AtRest, RestsAt
      <3>3. i <= at
        BY <1>1, <2>3, <3>1, <3>2 DEF NewState
      <3>4. RestsAt(at)
        BY <1>1, <3>1, <3>2, <3>3 DEF RestsAt
      <3>5. RestsAt(at)'
        BY <2>1, <3>4 DEF RestsAt
      <3> QED
        BY <2>1, <2>2, <3>5 DEF Ended, StreamEndsAtRest
    <2>4. CASE ~(~NewState /\ AtRest)
      <3>1. spc' # "over"
        BY <2>4, <1>4 DEF Check
      <3> QED
        BY <2>2, <3>1 DEF Ended, StreamEndsAtRest
    <2> QED
      BY <2>3, <2>4
  <1>5. ASSUME Take
        PROVE  Ended'
    <2>1. spc = "live" /\ spc' = spc
      BY <1>5 DEF Take
    <2>2. Len(hand') <= 1
      BY <1>5 DEF Take
    <2> QED
      BY <2>1, <2>2 DEF Ended, StreamEndsAtRest
  <1>6. ASSUME Dropped
        PROVE  Ended'
    <2>1. sub' # "on" /\ hand' = <<>> /\ spc' = "over"
      BY <1>6 DEF Dropped
    <2> QED
      BY <2>1 DEF Ended, StreamEndsAtRest
  <1>7. ASSUME spc' \notin {"over", "live"}
        PROVE  Ended'
    BY <1>7 DEF Ended, StreamEndsAtRest
  <1>8. ASSUME UNCHANGED <<log, at, hand, spc>>, sub' = "on" => sub = "on"
        PROVE  Ended'
    <2>1. RestsAt(at) => RestsAt(at)'
      BY <1>8 DEF RestsAt
    <2> QED
      BY <1>8, <2>1 DEF Ended, StreamEndsAtRest
  <1>9. ASSUME Restart \/ Subscribe \/ Replay \/ Ask \/ Ends \/ Cut
        PROVE  Ended'
    <2>1. spc' \notin {"over", "live"}
      BY <1>9 DEF Restart, Subscribe, Replay, Ask, Ends, Cut, NoStream
    <2> QED
      BY <2>1, <1>7
  <1>10. ASSUME Publish \/ CloseStreams \/ Purge \/ Receive \/ Look \/ RequestFails \/ NotFound \/ UNCHANGED vars
         PROVE  Ended'
    <2>1. UNCHANGED <<log, at, hand, spc>>
      BY <1>10 DEF Publish, CloseStreams, Purge, Receive, Look, RequestFails, NotFound, vars, store, stream
    <2>2. sub' = "on" => sub = "on"
      BY <1>10 DEF Publish, CloseStreams, Purge, Receive, Look, RequestFails, NotFound, vars, store, stream
    <2> QED
      BY <2>1, <2>2, <1>8
  <1> QED
    BY <1>2, <1>3, <1>4, <1>5, <1>6, <1>9, <1>10 DEF Next, Service, Follow

(* A stream that ends of its own accord has sent everything up to a rest. *)
THEOREM EndsAtRest == Spec => []StreamEndsAtRest
  <1>1. Ended => StreamEndsAtRest
    BY DEF Ended
  <1> QED
    BY <1>1, StreamInit, StreamStep, EndedInit, EndedStep, PTL DEF Spec
=============================================================================
