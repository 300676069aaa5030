------------------------------- MODULE Events -------------------------------
(***************************************************************************)
(* The engine's event stream: daemon/events (the ring of the last events)  *)
(* over pkg/pubsub (delivery to the subscribers), and the /events handler  *)
(* that subscribes, sends what is stored, then what comes in.              *)
(*                                                                         *)
(* Log stamps an event, stores it under e.mu and publishes it after the    *)
(* unlock, so loggers may pass each other twice.  An event is its time     *)
(* stamp; two events have different stamps.                                *)
(***************************************************************************)
EXTENDS Naturals, Sequences, Functions

CONSTANTS
  Logger, Sub,     \* goroutines that log, and requests for /events
  Wants,           \* the loggers whose events a subscriber's filter includes
  EventsLimit,     \* eventsLimit
  BufferSize,      \* bufferSize: the capacity of a subscriber's channel
  Ops,             \* "since": requests may ask for a time window
  MaxEvents        \* bound: events logged

Unset == 0          \* time.Time{}: no limit of the window

VARIABLES
  clock,     \* the stamp given last
  author,    \* who logged the event of a stamp
  events,    \* e.events
  stored,    \* every event ever appended to it
  emu,       \* e.mu: the subscriber that holds it, or "free"
  lpc, msg,  \* a logger's place in Log, and its event
  sending,   \* subscribers a Publish still has a sendTopic goroutine for
  subs,      \* p.subscribers
  chan,      \* the channels' contents
  closed,    \* channels that have been closed
  spc, win,  \* a request's place in getEvents and its window
  covered,   \* events stored when a request copied the ring, or later
  buffered,  \* what a request got from the ring
  received,  \* what it got from its channel
  skipped    \* events a request was skipped for after the publish timeout

vars == <<clock, author, events, stored, emu, lpc, msg, sending, subs, chan,
          closed, spc, win, covered, buffered, received, skipped>>
logs == <<clock, author, events, stored, lpc, msg, sending>>
request == <<spc, win, buffered, received>>

Time == 1..MaxEvents
Window == [since : Time \cup {Unset}, until : Time \cup {Unset}]

TypeOK ==
  /\ clock \in 0..MaxEvents
  /\ author \in [1..clock -> Logger]
  /\ events \in Seq(Time) /\ Len(events) <= EventsLimit
  /\ stored \subseteq Time
  /\ emu \in Sub \cup {"free"}
  /\ lpc \in [Logger -> {"idle", "stamped", "stored", "publishing"}]
  /\ msg \in [Logger -> Time \cup {Unset}]
  /\ sending \in [Logger -> SUBSET Sub]
  /\ subs \subseteq Sub /\ closed \subseteq Sub
  /\ \A s \in Sub : /\ chan[s] \in Seq(Time) /\ Len(chan[s]) <= BufferSize
                    /\ buffered[s] \subseteq Time /\ received[s] \subseteq Time
  /\ spc \in [Sub -> {"new", "copied", "open", "closing", "gone"}]
  /\ win \in [Sub -> Window]
  /\ covered \in [Sub -> SUBSET Time] /\ skipped \in [Sub -> SUBSET Time]

Init ==
  /\ clock = 0 /\ author = <<>>
  /\ events = <<>> /\ stored = {} /\ emu = "free"
  /\ lpc = [l \in Logger |-> "idle"] /\ msg = [l \in Logger |-> Unset]
  /\ sending = [l \in Logger |-> {}]
  /\ subs = {} /\ chan = [s \in Sub |-> <<>>] /\ closed = {}
  /\ spc = [s \in Sub |-> "new"]
  /\ win = [s \in Sub |-> [since |-> Unset, until |-> Unset]]
  /\ covered = [s \in Sub |-> {}] /\ skipped = [s \in Sub |-> {}]
  /\ buffered = [s \in Sub |-> {}] /\ received = [s \in Sub |-> {}]

Included(s, t) == author[t] \in Wants[s]

----------------------------------------------------------------------------
\* Log, up to e.mu.Lock: the event has its stamp before the lock is taken.
LogStamp(l) ==
  /\ lpc[l] = "idle" /\ clock < MaxEvents
  /\ clock' = clock + 1
  /\ author' = Append(author, l)
  /\ msg' = [msg EXCEPT ![l] = clock + 1]
  /\ lpc' = [lpc EXCEPT ![l] = "stamped"]
  /\ UNCHANGED <<events, stored, emu, sending, subs, chan, closed, request, covered, skipped>>

Put(ring, t) == Append(IF Len(ring) = EventsLimit THEN Tail(ring) ELSE ring, t)

\* The critical section of Log.
LogStore(l) ==
  /\ lpc[l] = "stamped" /\ emu = "free"
  /\ events' = Put(events, msg[l])
  /\ stored' = stored \cup {msg[l]}
  /\ covered' = [s \in Sub |-> IF spc[s] \in {"copied", "open"}
                               THEN covered[s] \cup {msg[l]} ELSE covered[s]]
  /\ lpc' = [lpc EXCEPT ![l] = "stored"]
  /\ UNCHANGED <<clock, author, emu, msg, sending, subs, chan, closed, request, skipped>>

\* Publish: under the read lock, one sendTopic per subscriber; those whose
\* filter refuses the event return at once.
Publish(l) ==
  /\ lpc[l] = "stored"
  /\ sending' = [sending EXCEPT ![l] = {s \in subs : Included(s, msg[l])}]
  /\ lpc' = [lpc EXCEPT ![l] = "publishing"]
  /\ UNCHANGED <<clock, author, events, stored, emu, msg, subs, chan, closed, request, covered, skipped>>

\* A mutant of sendTopic: it waits for room in the channel.
sendTopicWaits(l, s) ==
  /\ s \in sending[l] /\ Len(chan[s]) < BufferSize
  /\ sending' = [sending EXCEPT ![l] = @ \ {s}]
  /\ chan' = [chan EXCEPT ![s] = Append(@, msg[l])]
  /\ UNCHANGED <<clock, author, events, stored, emu, lpc, msg, subs, closed, request, covered, skipped>>

\* sendTopic: the event is sent, or the channel stays full for 100 ms.
sendTopic(l, s) ==
  /\ s \in sending[l]
  /\ sending' = [sending EXCEPT ![l] = @ \ {s}]
  /\ \/ /\ Len(chan[s]) < BufferSize
        /\ chan' = [chan EXCEPT ![s] = Append(@, msg[l])]
        /\ UNCHANGED skipped
     \/ /\ Len(chan[s]) = BufferSize
        /\ skipped' = [skipped EXCEPT ![s] = @ \cup {msg[l]}]
        /\ UNCHANGED chan
  /\ UNCHANGED <<clock, author, events, stored, emu, lpc, msg, subs, closed, request, covered>>

\* wg.Wait returns, the read lock is given back and Log returns.
PublishReturns(l) ==
  /\ lpc[l] = "publishing" /\ sending[l] = {}
  /\ lpc' = [lpc EXCEPT ![l] = "idle"]
  /\ msg' = [msg EXCEPT ![l] = Unset]
  /\ UNCHANGED <<clock, author, events, stored, emu, sending, subs, chan, closed, request, covered, skipped>>

Publishing == \E l \in Logger : lpc[l] = "publishing"

----------------------------------------------------------------------------
\* loadBufferedEvents: from the newest back to the first that is too old.
loadBufferedEvents(s, w) ==
  LET old == {i \in DOMAIN events : events[i] < w.since}
      from == IF old = {} THEN 1 ELSE 1 + CHOOSE i \in old : \A j \in old : j <= i
      recent == {events[i] : i \in from..Len(events)}
  IN  IF w.since = Unset /\ w.until = Unset THEN {}
      ELSE {t \in recent : (w.until = Unset \/ t <= w.until) /\ Included(s, t)}

\* A mutant of SubscribeLoad: e.mu is given back before the subscription.
SubscribeUnlocked(s, w) ==
  /\ spc[s] = "new" /\ emu = "free"
  /\ win' = [win EXCEPT ![s] = w]
  /\ buffered' = [buffered EXCEPT ![s] = loadBufferedEvents(s, w)]
  /\ covered' = [covered EXCEPT ![s] = Range(events)]
  /\ spc' = [spc EXCEPT ![s] = "copied"]
  /\ UNCHANGED <<logs, emu, subs, chan, closed, received, skipped>>

\* SubscribeTopic, first half: e.mu is taken and the ring read.
SubscribeLoad(s, w) ==
  /\ spc[s] = "new" /\ emu = "free"
  /\ w.until = Unset \/ w.since <= w.until
  /\ emu' = s
  /\ win' = [win EXCEPT ![s] = w]
  /\ buffered' = [buffered EXCEPT ![s] = loadBufferedEvents(s, w)]
  /\ covered' = [covered EXCEPT ![s] = Range(events)]
  /\ spc' = [spc EXCEPT ![s] = "copied"]
  /\ UNCHANGED <<logs, subs, chan, closed, received, skipped>>

\* Second half: the write lock of the publisher waits for every Publish.
SubscribeAdd(s) ==
  /\ spc[s] = "copied" /\ ~Publishing
  /\ subs' = subs \cup {s}
  /\ emu' = "free"
  /\ spc' = [spc EXCEPT ![s] = IF win[s].until /= Unset /\ win[s].until < clock THEN "closing" ELSE "open"]
  /\ UNCHANGED <<logs, chan, closed, win, buffered, received, covered, skipped>>

\* A turn of the handler's loop.
Receive(s) ==
  /\ spc[s] = "open" /\ chan[s] /= <<>>
  /\ received' = [received EXCEPT ![s] = @ \cup {Head(chan[s])}]
  /\ chan' = [chan EXCEPT ![s] = Tail(@)]
  /\ UNCHANGED <<logs, emu, subs, closed, spc, win, buffered, covered, skipped>>

\* until has come, the client has gone, or writing to it failed.
StopReceiving(s) ==
  /\ spc[s] = "open"
  /\ spc' = [spc EXCEPT ![s] = "closing"]
  /\ UNCHANGED <<logs, emu, subs, chan, closed, win, buffered, received, covered, skipped>>

\* A mutant of Evict: it does not wait for the senders.
EvictAtOnce(s) ==
  /\ spc[s] = "closing"
  /\ subs' = subs \ {s}
  /\ closed' = closed \cup {s}
  /\ spc' = [spc EXCEPT ![s] = "gone"]
  /\ UNCHANGED <<logs, emu, chan, win, buffered, received, covered, skipped>>

\* The deferred UnsubscribeFromEvents: Evict takes the write lock.
Evict(s) ==
  /\ spc[s] = "closing" /\ ~Publishing
  /\ subs' = subs \ {s}
  /\ closed' = closed \cup {s}
  /\ spc' = [spc EXCEPT ![s] = "gone"]
  /\ UNCHANGED <<logs, emu, chan, win, buffered, received, covered, skipped>>

Windows == IF "since" \in Ops THEN Window ELSE {[since |-> 1, until |-> Unset]}

Next ==
  \/ \E l \in Logger : LogStamp(l) \/ LogStore(l) \/ Publish(l) \/ PublishReturns(l)
  \/ \E l \in Logger, s \in Sub : sendTopic(l, s)
  \/ \E s \in Sub, w \in Windows : SubscribeLoad(s, w)
  \/ \E s \in Sub : SubscribeAdd(s) \/ Receive(s) \/ StopReceiving(s) \/ Evict(s)

Spec == Init /\ [][Next]_vars

\* Goroutines run on and timers fire; a client that keeps its request open
\* without reading is allowed.
\* Every behaviour has finitely many steps of these, so fairness to all of
\* them together is fairness to each.
Steps ==
  \/ \E l \in Logger : \/ LogStore(l) \/ Publish(l) \/ PublishReturns(l)
                      \/ \E s \in Sub : sendTopic(l, s)
  \/ \E s \in Sub : SubscribeAdd(s) \/ Evict(s)

Fairness == WF_vars(Steps)

FairSpec == Spec /\ Fairness

----------------------------------------------------------------------------
Busy(t) == \E l \in Logger : msg[l] = t

\* A request that asks for everything stored, and is never too slow, gets
\* every event stored before or after it subscribed, once the Log of the
\* event is over: Log stores before it publishes, and Subscribe copies the
\* ring and joins the subscribers in one critical section.
NoneMissed ==
  \A s \in Sub : spc[s] = "open" /\ win[s] = [since |-> 1, until |-> Unset] =>
    \A t \in covered[s] : Included(s, t) /\ ~Busy(t) =>
      t \in buffered[s] \cup Range(chan[s]) \cup received[s] \cup skipped[s]

\* Nobody sends on a closed channel, which would end the daemon: Evict
\* waits for the senders.
NoSendAfterClose == \A l \in Logger : sending[l] \cap closed = {}

\* A stalled subscriber does not hold up the engine: Log returns.
LogReturns == \A l \in Logger : lpc[l] /= "idle" ~> lpc[l] = "idle"

\* Subscribe and Evict, which wait for every Publish, get the lock.
RequestServed == \A s \in Sub : spc[s] \in {"copied", "closing"} ~> spc[s] \in {"open", "gone"}

\* What the engine and its subscribers rely on.
EventsSafe == NoneMissed /\ NoSendAfterClose

\* The ring holds an event, and "free" is not a request.
EvtParameters == "free" \notin Sub /\ EventsLimit \in Nat \ {0} /\ MaxEvents \in Nat

=============================================================================
