------------------------------- MODULE Streams ------------------------------
(***************************************************************************)
(* The events of a job, from the transaction that stores them to the       *)
(* client that follows the job: the store and the broker, the stream of    *)
(* one request, the connection, and the client's tries.                    *)
(*                                                                         *)
(* One job and one who follows it: followers meet only in the broker,      *)
(* which never waits for any.  What is stored is any log that the states   *)
(* of a job allow; how a job comes to rest is in Jobs.                     *)
(*                                                                         *)
(* A definition marked VARIANT is the one after it with a mistake that     *)
(* would be easy to make.                                                  *)
(***************************************************************************)
EXTENDS Naturals, Sequences

CONSTANTS
  Buffer,       \* events that a subscriber may be behind by (256 in the code)
  ReplayBatch,  \* events that a replay reads at a time (500 in the code)
  Wire,         \* events that the connection holds before a write blocks
  MaxFailed,    \* failed tries in a row that end the following (5 in the code)
  MaxEvents,    \* bound: the length of the log
  MaxFaults,    \* bound: broken connections and failed requests
  MaxRestarts   \* bound: restarts of the service

ASSUME StreamsAssumption ==
  /\ Buffer \in Nat \ {0} /\ ReplayBatch \in Nat \ {0} /\ Wire \in Nat \ {0}
  /\ MaxFailed \in Nat \ {0}
  /\ MaxEvents \in Nat /\ MaxFaults \in Nat /\ MaxRestarts \in Nat

VARIABLES
  \* The store and the broker.
  log,        \* af_events of the job, as far as the properties tell them apart
  published,  \* the number of the last event that was handed to the broker
  purged,     \* whether retention removed the rows of the job
  broker,     \* open, or closed for the shutdown
  \* The stream of the request in progress.
  at,         \* Follower.last, the number of the last event that was sent
  hand,       \* the events it has read, or taken, and has yet to send
  spc,        \* where Service.Stream is
  sub,        \* its subscription
  buffer,     \* the channel of the subscription
  wire,       \* what it wrote and the client has not read
  \* The client.
  cpc,        \* where Client.Follow is
  last,       \* the number of the last event that it delivered
  fresh,      \* whether this try delivered an event
  failed,     \* the failed tries in a row
  \* Bounds.
  faults, restarts

store == <<log, published, purged>>
stream == <<at, hand, spc, sub, buffer, wire>>
client == <<cpc, last, fresh, failed>>
bounds == <<faults, restarts>>
vars == <<store, broker, stream, client, bounds>>

(* A job_state at rest, any other job_state, and any other event. *)
Kinds == {"rest", "state", "step"}

(* What one transaction stores: an event; a state and the start of an attempt; or the end of *)
(* one, and the state that comes of it.                                                      *)
Batches == {<<"step">>, <<"state">>, <<"rest">>, <<"state", "step">>, <<"step", "state">>, <<"step", "rest">>}

(* Whether the latest job_state of the first n events says that the job is at rest. *)
RestsAt(n) == \E i \in 1..n : log[i] = "rest" /\ \A k \in (i + 1)..n : log[k] = "step"

Stored == IF purged THEN 0 ELSE Len(log)
AtRest == RestsAt(Stored)

(* LatestState, compared with the last event sent: the replay did not have that state. *)
NewState == \E i \in (at + 1)..Stored : log[i] # "step"

NoStream(at0) ==
  /\ at' = at0 /\ hand' = <<>> /\ spc' = "none"
  /\ sub' = "none" /\ buffer' = <<>> /\ wire' = <<>>

(* The job was created, which stored its first state. *)
Init ==
  /\ log = <<"state">> /\ published = 0 /\ purged = FALSE
  /\ broker = "open"
  /\ at = 0 /\ hand = <<>> /\ spc = "none" /\ sub = "none" /\ buffer = <<>> /\ wire = <<>>
  /\ cpc = "ask" /\ last = 0 /\ fresh = FALSE /\ failed = 0
  /\ faults = 0 /\ restarts = 0

-----------------------------------------------------------------------------
(* The store and the broker. *)

(* Store.run, its transaction: under the lock of the job, which is held until what it stored *)
(* is published.  No attempt runs of a job at rest, so a state is what comes next.           *)
Store(b) ==
  /\ published = Len(log)
  /\ ~purged
  /\ Len(log) + Len(b) <= MaxEvents
  /\ AtRest => Head(b) # "step"
  /\ log' = log \o b
  /\ UNCHANGED <<published, purged, broker, stream, client, bounds>>

\* VARIANT of Publish: an event that finds the buffer full is dropped, and the subscriber stays.
PublishDropping ==
  /\ published < Len(log)
  /\ published' = published + 1
  /\ buffer' = IF sub = "on" /\ Len(buffer) < Buffer THEN Append(buffer, published + 1) ELSE buffer
  /\ UNCHANGED <<log, purged, broker, at, hand, spc, sub, wire, client, bounds>>

(* Broker.Publish: a subscriber whose buffer is full is dropped. *)
Publish ==
  /\ published < Len(log)
  /\ published' = published + 1
  /\ IF sub = "on" /\ Len(buffer) < Buffer
     THEN buffer' = Append(buffer, published + 1) /\ UNCHANGED sub
     ELSE sub' = (IF sub = "on" THEN "slow" ELSE sub) /\ UNCHANGED buffer
  /\ UNCHANGED <<log, purged, broker, at, hand, spc, wire, client, bounds>>

(* Service.Purge, at least an hour after the job came to rest: what was published by then *)
(* is no longer in a buffer.                                                              *)
Purge ==
  /\ AtRest
  /\ published = Len(log)
  /\ buffer = <<>>
  /\ purged' = TRUE
  /\ UNCHANGED <<log, published, broker, stream, client, bounds>>

(* CloseStreams *)
CloseStreams ==
  /\ broker = "open"
  /\ broker' = "closed"
  /\ sub' = IF sub = "on" THEN "closed" ELSE sub
  /\ UNCHANGED <<store, at, hand, spc, buffer, wire, client, bounds>>

(* The process ends and another starts: what was stored and not published never is. *)
Restart ==
  /\ restarts < MaxRestarts
  /\ restarts' = restarts + 1
  /\ broker' = "open"
  /\ published' = Len(log)
  /\ NoStream(last)
  /\ cpc' = IF cpc = "reading" THEN "look" ELSE cpc
  /\ UNCHANGED <<log, purged, last, fresh, failed, faults>>

-----------------------------------------------------------------------------
(* Service.Stream. *)

(* Broker.Follow: it subscribes before it reads anything. *)
Subscribe ==
  /\ spc = "begun"
  /\ spc' = "replay"
  /\ sub' = IF broker = "open" THEN "on" ELSE "closed"
  /\ UNCHANGED <<store, broker, at, hand, buffer, wire, client, bounds>>

(* Follower.Replay: the next stored events; fewer than a batch are the last. *)
Replay ==
  /\ spc = "replay"
  /\ hand = <<>>
  /\ LET n == IF Stored <= at THEN 0 ELSE IF Stored - at < ReplayBatch THEN Stored - at ELSE ReplayBatch
     IN /\ hand' = [i \in 1..n |-> at + i]
        /\ spc' = IF n < ReplayBatch THEN "check" ELSE "replay"
  /\ UNCHANGED <<store, broker, at, sub, buffer, wire, client, bounds>>

(* An event is written, as soon as the connection takes it; a stream that listens ends with *)
(* the job_state at rest.                                                                   *)
Send ==
  /\ hand # <<>>
  /\ Len(wire) < Wire
  /\ wire' = Append(wire, Head(hand))
  /\ at' = Head(hand)
  /\ hand' = Tail(hand)
  /\ spc' = IF spc = "live" /\ log[Head(hand)] = "rest" THEN "over" ELSE spc
  /\ UNCHANGED <<store, broker, sub, buffer, client, bounds>>

\* VARIANT of Check: the number of the latest state is not compared with the last one sent.
CheckStale ==
  /\ spc = "check"
  /\ hand = <<>>
  /\ spc' = IF AtRest THEN "over" ELSE "live"
  /\ UNCHANGED <<store, broker, at, hand, sub, buffer, wire, client, bounds>>

\* VARIANT of Check: only a live job_state ends the stream.
CheckLive ==
  /\ spc = "check"
  /\ hand = <<>>
  /\ spc' = IF NewState THEN "replay" ELSE "live"
  /\ UNCHANGED <<store, broker, at, hand, sub, buffer, wire, client, bounds>>

(* The state after the replay: the stream reads on, is over, or listens. *)
Check ==
  /\ spc = "check"
  /\ hand = <<>>
  /\ spc' = IF NewState THEN "replay" ELSE IF AtRest THEN "over" ELSE "live"
  /\ UNCHANGED <<store, broker, at, hand, sub, buffer, wire, client, bounds>>

(* A live event is taken, and dropped if it was in the replay. *)
Take ==
  /\ spc = "live"
  /\ hand = <<>>
  /\ buffer # <<>>
  /\ buffer' = Tail(buffer)
  /\ hand' = IF Head(buffer) <= at THEN <<>> ELSE <<Head(buffer)>>
  /\ UNCHANGED <<store, broker, at, spc, sub, wire, client, bounds>>

(* A subscription that was dropped or closed is read to its end. *)
Dropped ==
  /\ spc = "live"
  /\ hand = <<>>
  /\ buffer = <<>>
  /\ sub \in {"slow", "closed"}
  /\ spc' = "over"
  /\ UNCHANGED <<store, broker, at, hand, sub, buffer, wire, client, bounds>>

-----------------------------------------------------------------------------
(* Client.Follow. *)

(* The request for the stream: the job is there, and the stream begins. *)
Ask ==
  /\ cpc = "ask"
  /\ ~purged
  /\ cpc' = "reading"
  /\ fresh' = FALSE
  /\ at' = last
  /\ spc' = "begun"
  /\ UNCHANGED <<store, broker, hand, sub, buffer, wire, last, failed, bounds>>

(* A frame is read, and delivered unless it was before. *)
Receive ==
  /\ cpc = "reading"
  /\ wire # <<>>
  /\ wire' = Tail(wire)
  /\ IF Head(wire) <= last
     THEN UNCHANGED <<last, fresh>>
     ELSE last' = Head(wire) /\ fresh' = TRUE
  /\ UNCHANGED <<store, broker, at, hand, spc, sub, buffer, cpc, failed, bounds>>

(* The stream came to its end, which every end of Service.Stream looks like; *)
Ends ==
  /\ cpc = "reading"
  /\ spc = "over"
  /\ wire = <<>>
  /\ cpc' = "look"
  /\ NoStream(last)
  /\ UNCHANGED <<store, broker, last, fresh, failed, bounds>>

(* or the connection breaks, no byte comes in time, or a frame is not an event. *)
Cut ==
  /\ cpc = "reading"
  /\ faults < MaxFaults
  /\ faults' = faults + 1
  /\ cpc' = "look"
  /\ NoStream(last)
  /\ UNCHANGED <<store, broker, last, fresh, failed, restarts>>

(* A try that did not find the job at rest: it failed if it delivered nothing. *)
TryEnds(some) ==
  /\ failed' = IF some THEN 0 ELSE failed + 1
  /\ cpc' = IF ~some /\ failed + 1 = MaxFailed THEN "gaveup" ELSE "ask"

(* The job is read after every end of a stream. *)
Look ==
  /\ cpc = "look"
  /\ ~purged
  /\ IF AtRest THEN cpc' = "rest" /\ UNCHANGED failed ELSE TryEnds(fresh)
  /\ UNCHANGED <<store, broker, stream, last, fresh, bounds>>

(* A request fails with a 5xx or on the way: of the stream, which was not opened, or of the job. *)
RequestFails ==
  /\ cpc \in {"ask", "look"}
  /\ faults < MaxFaults
  /\ faults' = faults + 1
  /\ TryEnds(cpc = "look" /\ fresh)
  /\ UNCHANGED <<store, broker, stream, last, fresh, restarts>>

(* A 404 of a job that is gone ends the following. *)
NotFound ==
  /\ cpc \in {"ask", "look"}
  /\ purged
  /\ cpc' = "refused"
  /\ UNCHANGED <<store, broker, stream, last, fresh, failed, bounds>>

-----------------------------------------------------------------------------
Service == Publish \/ Subscribe \/ Replay \/ Send \/ Check \/ Take \/ Dropped
Follow == Ask \/ Receive \/ Ends \/ Look \/ NotFound

Next ==
  \/ \E b \in Batches : Store(b)
  \/ Service \/ Follow
  \/ Purge \/ CloseStreams \/ Restart \/ Cut \/ RequestFails

Spec == Init /\ [][Next]_vars

(* Fairness: what was stored is published, a stream goes on when it can, and so does the client. *)
Fairness ==
  /\ WF_vars(Publish)
  /\ WF_vars(Subscribe \/ Replay \/ Send \/ Check \/ Take \/ Dropped)
  /\ WF_vars(Receive)
  /\ WF_vars(Ask \/ Ends \/ Look \/ NotFound)

LiveSpec == Spec /\ Fairness

-----------------------------------------------------------------------------
(* Properties. *)

Over == {"rest", "gaveup", "refused"}

(* Every variable holds values of its type. *)
TypeOK ==
  /\ log \in Seq(Kinds)
  /\ published \in 0..Len(log)
  /\ purged \in BOOLEAN
  /\ broker \in {"open", "closed"}
  /\ at \in Nat
  /\ hand \in Seq(Nat \ {0})
  /\ spc \in {"none", "begun", "replay", "check", "live", "over"}
  /\ sub \in {"none", "on", "slow", "closed"}
  /\ buffer \in Seq(Nat \ {0})
  /\ wire \in Seq(Nat \ {0})
  /\ cpc \in {"ask", "reading", "look"} \cup Over
  /\ last \in Nat
  /\ fresh \in BOOLEAN
  /\ failed \in 0..MaxFailed
  /\ faults \in 0..MaxFaults
  /\ restarts \in 0..MaxRestarts

(* A stream that ends of its own accord has sent everything up to a rest of the job. *)
StreamEndsAtRest == spc = "over" /\ sub = "on" => RestsAt(at)

(* The one who follows sees Feed: the events in order, each once, none that is not stored,  *)
(* whatever is dropped, closed, cut, restarted and repeated.                                *)
FeedOf == INSTANCE Feed WITH stored <- Len(log), delivered <- last, following <- cpc \notin Over
FollowsFeed == FeedOf!Spec

(* One who follows a job that comes to rest for good is done at some time: the rest is not *)
(* missed between the replay and the live events.                                          *)
FollowEnds == <>[]AtRest => <>(cpc \in Over)

-----------------------------------------------------------------------------
(* What a comment says, and the code does not keep. *)

(* Follow delivers each event of the job: when it returns, what it delivered ends with a rest. *)
DeliversTheRest == cpc = "rest" => RestsAt(last)
=============================================================================
