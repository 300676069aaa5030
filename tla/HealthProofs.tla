--------------------------- MODULE HealthProofs ----------------------------
(***************************************************************************)
(* HealthMonitor for any number of monitors, stop requests, retries and    *)
(* restarts: one monitor at most, of the current run, none for a container *)
(* that does not run, and a status that agrees with the failing streak.    *)
(***************************************************************************)
EXTENDS HealthMonitor, TLAPS

Off == ~running \/ paused

NoneLive == \A m \in Monitor : ~Live(m)

\* A sender that got through has killed the monitor of the channel that is
\* still in h.stop, and will clear it.
SentDead == \A t \in Handler : pc[t] = "sent" =>
  /\ stop # None /\ NoneLive
  /\ \A u \in Handler \ {t} : pc[u] # "sent"

\* Only the event queue and a start open channels, and a start finds none.
Openers ==
  /\ \A t \in Stopper : pc[t] # "open"
  /\ pc["starter"] = "open" => stop = None
  /\ pc["queue"] = "open" => ~Off

\* The order of events: an exit is the last event of a run, a restart follows
\* its callback, and a start sees no callback of the run before.
Ordered ==
  /\ \A i \in 1..Len(queue) :
       queue[i] \in {"exit", "restart"} => i = Len(queue) /\ ~process /\ ~pending
  /\ pending => queue = <<>> /\ ~process /\ running
  /\ process => running
  /\ ~running => queue = <<>>
  /\ pc["queue"] # "idle" /\ lock # "queue" => running
  /\ pc["starter"] # "idle" => process /\ ~Off /\ queue = <<>> /\ pc["queue"] = "idle"

\* FreshMonitor from the moment the start has opened its channel.
Fresh == pc["starter"] \in {"idle", "done"} => \A m \in Monitor : Live(m) => born[m] = run

\* NoMonitorUnlessRunning from the moment the callback has closed the channel.
OffNoneLive == Off /\ pc["queue"] \in {"idle", "done"} => NoneLive

\* A probe whose result is still to be counted finds room in the streak.
StreakRoom == \A m \in Monitor :
  monitor[m] \in {"probing", "timedOut"} \cup Results => failingStreak < MaxStreak

\* The inductive invariant.  The handlers that open a channel are serialised
\* (Ordered) although only some of them hold the lock; those that close one
\* are not, but of several senders on a channel only one gets through.
IInv == /\ TypeOK /\ OneMonitor /\ SentDead /\ Openers /\ Ordered
        /\ Fresh /\ OffNoneLive /\ StreakRoom /\ StatusExact

-----------------------------------------------------------------------------
\* The initial state satisfies the inductive invariant.
LEMMA InitIInv == Init => IInv
<1> SUFFICES ASSUME Init PROVE IInv
  OBVIOUS
<1> USE HealthAssumption DEF Init
<1>1. TypeOK
  <2>1. queue \in Seq(Event)
    OBVIOUS
  <2>2. monitor \in [Monitor -> {"none", "idle", "probing", "timedOut", "draining"} \cup Results]
    OBVIOUS
  <2>3. failingStreak \in 0..MaxStreak /\ run \in Nat
    OBVIOUS
  <2> QED
    BY <2>1, <2>2, <2>3 DEF TypeOK
<1>2. OneMonitor /\ SentDead /\ Openers /\ Fresh /\ OffNoneLive
  BY DEF OneMonitor, SentDead, Openers, Fresh, OffNoneLive, NoneLive, Live, Off, Handler
<1>3. Ordered
  BY DEF Ordered, Off, Handler
<1>4. StreakRoom /\ StatusExact
  BY DEF StreakRoom, StatusExact, Results
<1> QED
  BY <1>1, <1>2, <1>3, <1>4 DEF IInv

\* The invariant is preserved by CloseMonitorChannel's test.
LEMMA CloseStep == ASSUME IInv, NEW t \in Handler, Close(t) PROVE IInv'
<1> USE HealthAssumption DEF IInv, containerVars, healthVars, monitorVars
<1>1. TypeOK'
  BY DEF TypeOK, Handler, Close, AfterClose, Goto
<1>2. OneMonitor' /\ StreakRoom' /\ StatusExact'
  BY DEF OneMonitor, StreakRoom, StatusExact, SentDead, NoneLive, Live, Close, AfterClose, Goto
<1>3. SentDead'
  BY DEF TypeOK, OneMonitor, SentDead, NoneLive, Live, Handler, Close, AfterClose, Goto
<1>4. Openers'
  BY DEF TypeOK, Openers, Off, Handler, Close, AfterClose, Goto
<1>5. Ordered'
  BY DEF TypeOK, Ordered, Off, Handler, Close, AfterClose, Goto
<1>6. Fresh' /\ OffNoneLive'
  BY DEF TypeOK, OneMonitor, SentDead, Openers, Ordered, Fresh, OffNoneLive, NoneLive, Live, Off, Handler, Close, AfterClose, Goto
<1> QED
  BY <1>1, <1>2, <1>3, <1>4, <1>5, <1>6

\* The invariant is preserved by CloseMonitorChannel's second read.
LEMMA SendStep == ASSUME IInv, NEW t \in Handler, Send(t) PROVE IInv'
<1> USE HealthAssumption DEF IInv, containerVars, healthVars, monitorVars
<1>1. TypeOK'
  BY DEF TypeOK, Handler, Send, Goto
<1>2. OneMonitor' /\ StreakRoom' /\ StatusExact'
  BY DEF OneMonitor, StreakRoom, StatusExact, SentDead, NoneLive, Live, Send, Goto
<1>3. SentDead'
  BY DEF TypeOK, OneMonitor, SentDead, NoneLive, Live, Handler, Send, Goto
<1>4. Openers'
  BY DEF TypeOK, Openers, Off, Handler, Send, Goto
<1>5. Ordered'
  BY DEF TypeOK, Ordered, Off, Handler, Send, Goto
<1>6. Fresh' /\ OffNoneLive'
  BY DEF TypeOK, OneMonitor, SentDead, Openers, Ordered, Fresh, OffNoneLive, NoneLive, Live, Off, Handler, Send, Goto
<1> QED
  BY <1>1, <1>2, <1>3, <1>4, <1>5, <1>6

\* The invariant is preserved by clearing s.stop.
LEMMA SentStep == ASSUME IInv, NEW t \in Handler, Sent(t) PROVE IInv'
<1> USE HealthAssumption DEF IInv, containerVars, healthVars, monitorVars
<1>1. TypeOK'
  BY DEF TypeOK, Handler, Sent, AfterClose, Goto
<1>2. OneMonitor' /\ StreakRoom' /\ StatusExact'
  BY DEF OneMonitor, StreakRoom, StatusExact, SentDead, NoneLive, Live, Sent, AfterClose, Goto
<1>3. SentDead'
  BY DEF TypeOK, OneMonitor, SentDead, NoneLive, Live, Handler, Sent, AfterClose, Goto
<1>4. Openers'
  BY DEF TypeOK, Openers, Off, Handler, Sent, AfterClose, Goto
<1>5. Ordered'
  BY DEF TypeOK, Ordered, Off, Handler, Sent, AfterClose, Goto
<1>6. Fresh' /\ OffNoneLive'
  BY DEF TypeOK, OneMonitor, SentDead, Openers, Ordered, Fresh, OffNoneLive, NoneLive, Live, Off, Handler, Sent, AfterClose, Goto
<1> QED
  BY <1>1, <1>2, <1>3, <1>4, <1>5, <1>6

\* The invariant is preserved by a handler's return.
LEMMA DoneStep == ASSUME IInv, NEW t \in Handler, Done(t) PROVE IInv'
<1> USE HealthAssumption DEF IInv, containerVars, healthVars, monitorVars
<1>1. TypeOK'
  BY DEF TypeOK, Handler, Done, Goto
<1>2. OneMonitor' /\ StreakRoom' /\ StatusExact'
  BY DEF OneMonitor, StreakRoom, StatusExact, SentDead, NoneLive, Live, Done, Goto
<1>3. SentDead'
  BY DEF TypeOK, OneMonitor, SentDead, NoneLive, Live, Handler, Done, Goto
<1>4. Openers'
  BY DEF TypeOK, Openers, Off, Handler, Done, Goto
<1>5. Ordered'
  BY DEF TypeOK, Ordered, Off, Handler, Done, Goto
<1>6. Fresh' /\ OffNoneLive'
  BY DEF TypeOK, OneMonitor, SentDead, Openers, Ordered, Fresh, OffNoneLive, NoneLive, Live, Off, Handler, Done, Goto
<1> QED
  BY <1>1, <1>2, <1>3, <1>4, <1>5, <1>6

\* The invariant is preserved by containerStop.
LEMMA StopStep == ASSUME IInv, NEW t \in Stopper, ContainerStop(t) PROVE IInv'
<1> USE HealthAssumption DEF IInv, containerVars, healthVars, monitorVars
<1>1. TypeOK'
  BY DEF TypeOK, Handler, ContainerStop, Goto
<1>2. OneMonitor' /\ StreakRoom' /\ StatusExact'
  BY DEF OneMonitor, StreakRoom, StatusExact, SentDead, NoneLive, Live, ContainerStop, Goto
<1>3. SentDead'
  BY DEF TypeOK, OneMonitor, SentDead, NoneLive, Live, Handler, ContainerStop, Goto
<1>4. Openers'
  BY DEF TypeOK, Openers, Off, Handler, ContainerStop, Goto
<1>5. Ordered'
  BY DEF TypeOK, Ordered, Off, Handler, ContainerStop, Goto
<1>6. Fresh' /\ OffNoneLive'
  BY DEF TypeOK, OneMonitor, SentDead, Openers, Ordered, Fresh, OffNoneLive, NoneLive, Live, Off, Handler, ContainerStop, Goto
<1> QED
  BY <1>1, <1>2, <1>3, <1>4, <1>5, <1>6

\* The invariant is preserved by the monitor taking a stop request.
LEMMA StoppedStep == ASSUME IInv, NEW t \in Handler, NEW m \in Monitor, Stopped(t, m) PROVE IInv'
<1> USE HealthAssumption DEF IInv, containerVars, healthVars, monitorVars
<1>1. TypeOK'
  BY DEF TypeOK, Results, Handler, Stopped, Goto
<1>2. OneMonitor'
  BY DEF TypeOK, OneMonitor, SentDead, NoneLive, Live, Stopped, Goto
<1>3. StreakRoom' /\ StatusExact'
  BY DEF TypeOK, OneMonitor, StreakRoom, StatusExact, Live, Results, Stopped, Goto
<1>4. SentDead'
  BY DEF TypeOK, OneMonitor, SentDead, NoneLive, Live, Handler, Stopped, Goto
<1>5. Openers'
  BY DEF TypeOK, Openers, Ordered, Off, Handler, Stopped, Goto
<1>6. Ordered'
  BY DEF TypeOK, Ordered, Off, Handler, Stopped, Goto
<1>7. Fresh'
  BY DEF TypeOK, OneMonitor, SentDead, Openers, Ordered, Fresh, NoneLive, Live, Off, Handler, Stopped, Goto
<1>8. OffNoneLive'
  BY DEF TypeOK, OneMonitor, SentDead, Openers, Ordered, OffNoneLive, NoneLive, Live, Off, Handler, Stopped, Goto
<1> QED
  BY <1>1, <1>2, <1>3, <1>4, <1>5, <1>6, <1>7, <1>8

\* What appending an event does to the queue.
LEMMA AppendEvent ==
  ASSUME NEW q \in Seq(Event), NEW e \in Event
  PROVE  /\ Append(q, e) \in Seq(Event)
         /\ Len(Append(q, e)) = Len(q) + 1 /\ Len(q) \in Nat
         /\ \A i \in 1..Len(q) : Append(q, e)[i] = q[i]
         /\ Append(q, e)[Len(q) + 1] = e
  OBVIOUS

\* The invariant is preserved by OpenMonitorChannel.
LEMMA OpenStep == ASSUME IInv, NEW t \in Handler, Open(t) PROVE IInv'
<1> USE HealthAssumption DEF IInv, containerVars, healthVars, monitorVars
<1>1. TypeOK'
  <2>1. queue' \in Seq(Event)
    BY DEF TypeOK, Event, Open, Free, Goto
  <2>2. run' \in Nat /\ failingStreak' \in 0..MaxStreak
    BY DEF TypeOK, Open, Free, Goto
  <2>3. pc' \in [Handler -> {"idle", "close", "found", "sending", "sent", "open", "done"}]
    BY DEF TypeOK, Handler, Open, Free, Goto
  <2>4. /\ monitor' \in [Monitor -> {"none", "idle", "probing", "timedOut", "draining"} \cup Results]
        /\ born' \in [Monitor -> Nat] /\ UNCHANGED <<probe, channel>>
    <3>1. CASE stop = None
      <4>1. PICK m \in Monitor : /\ monitor' = [monitor EXCEPT ![m] = "idle"]
                                 /\ born' = [born EXCEPT ![m] = run]
        BY <3>1 DEF Open
      <4>2. UNCHANGED <<probe, channel>>
        BY DEF Open
      <4> QED
        BY <4>1, <4>2 DEF TypeOK
    <3>2. CASE stop # None
      BY <3>2 DEF TypeOK, Open
    <3> QED
      BY <3>1, <3>2
  <2>5. /\ lock' \in {"queue", "starter", "pauser", None} /\ stop' \in Monitor \cup {None}
        /\ running' \in BOOLEAN /\ paused' \in BOOLEAN /\ restarting' \in BOOLEAN
        /\ process' \in BOOLEAN /\ pending' \in BOOLEAN
        /\ status' \in {"starting", "healthy", "unhealthy"}
    BY DEF TypeOK, Open, Free, Goto
  <2> QED
    BY <2>1, <2>2, <2>3, <2>4, <2>5 DEF TypeOK
<1>2. OneMonitor'
  BY DEF TypeOK, OneMonitor, SentDead, NoneLive, Live, Open, Free, Goto
<1>3. StreakRoom' /\ StatusExact'
  BY DEF TypeOK, OneMonitor, StreakRoom, StatusExact, Live, Results, Open, Free, Goto
<1>4. SentDead'
  BY DEF TypeOK, OneMonitor, SentDead, NoneLive, Live, Handler, Open, Free, Goto
<1>5. Openers'
  BY DEF TypeOK, Openers, Ordered, Off, Handler, Open, Free, Goto
<1>6. Ordered'
  BY DEF TypeOK, Ordered, Off, Handler, Open, Free, Goto
<1>7. Fresh'
  BY DEF TypeOK, OneMonitor, SentDead, Openers, Ordered, Fresh, NoneLive, Live, Off, Handler, Open, Free, Goto
<1>8. OffNoneLive'
  BY DEF TypeOK, OneMonitor, SentDead, Openers, Ordered, OffNoneLive, NoneLive, Live, Off, Handler, Open, Free, Goto
<1> QED
  BY <1>1, <1>2, <1>3, <1>4, <1>5, <1>6, <1>7, <1>8

\* The invariant is preserved by a callback.
LEMMA StateChangedStep == ASSUME IInv, StateChanged PROVE IInv'
<1> USE HealthAssumption DEF IInv, containerVars, healthVars, monitorVars
<1>1. TypeOK'
  <2>1. queue' \in Seq(Event)
    BY DEF TypeOK, Event, StateChanged, Update, Goto
  <2>2. run' \in Nat /\ failingStreak' \in 0..MaxStreak
    BY DEF TypeOK, StateChanged, Update, Goto
  <2>3. pc' \in [Handler -> {"idle", "close", "found", "sending", "sent", "open", "done"}]
    BY DEF TypeOK, Handler, StateChanged, Update, Goto
  <2>4. /\ monitor' \in [Monitor -> {"none", "idle", "probing", "timedOut", "draining"} \cup Results]
        /\ born' \in [Monitor -> Nat] /\ UNCHANGED <<probe, channel>>
    BY DEF TypeOK, StateChanged, Update, Goto
  <2>5. /\ lock' \in {"queue", "starter", "pauser", None} /\ stop' \in Monitor \cup {None}
        /\ running' \in BOOLEAN /\ paused' \in BOOLEAN /\ restarting' \in BOOLEAN
        /\ process' \in BOOLEAN /\ pending' \in BOOLEAN
        /\ status' \in {"starting", "healthy", "unhealthy"}
    BY DEF TypeOK, StateChanged, Update, Goto
  <2> QED
    BY <2>1, <2>2, <2>3, <2>4, <2>5 DEF TypeOK
<1>2. OneMonitor'
  BY DEF TypeOK, OneMonitor, SentDead, NoneLive, Live, StateChanged, Update, Goto
<1>3. StreakRoom' /\ StatusExact'
  BY DEF TypeOK, OneMonitor, StreakRoom, StatusExact, Live, Results, StateChanged, Update, Goto
<1>4. SentDead'
  BY DEF TypeOK, OneMonitor, SentDead, NoneLive, Live, Handler, StateChanged, Update, Goto
<1>5. Openers'
  BY DEF TypeOK, Openers, Ordered, Off, Handler, StateChanged, Update, Goto
<1>6. Ordered'
  BY DEF TypeOK, Ordered, Off, Handler, StateChanged, Update, Goto
<1>7. Fresh'
  BY DEF TypeOK, OneMonitor, SentDead, Openers, Ordered, Fresh, NoneLive, Live, Off, Handler, StateChanged, Update, Goto
<1>8. OffNoneLive'
  BY DEF TypeOK, OneMonitor, SentDead, Openers, Ordered, OffNoneLive, NoneLive, Live, Off, Handler, StateChanged, Update, Goto
<1> QED
  BY <1>1, <1>2, <1>3, <1>4, <1>5, <1>6, <1>7, <1>8

\* The invariant is preserved by containerPause and containerUnpause.
LEMMA PauseStep == ASSUME IInv, PauseOrResume PROVE IInv'
<1> USE HealthAssumption DEF IInv, containerVars, healthVars, monitorVars
<1>0. \E e \in {"pause", "resume"} : queue' = Append(queue, e)
  BY DEF PauseOrResume
<1>1. TypeOK'
  <2>1. queue' \in Seq(Event)
    BY <1>0, AppendEvent DEF TypeOK, Event
  <2>2. run' \in Nat /\ failingStreak' \in 0..MaxStreak
    BY DEF TypeOK, PauseOrResume
  <2>3. pc' \in [Handler -> {"idle", "close", "found", "sending", "sent", "open", "done"}]
    BY DEF TypeOK, Handler, PauseOrResume
  <2>4. /\ monitor' \in [Monitor -> {"none", "idle", "probing", "timedOut", "draining"} \cup Results]
        /\ born' \in [Monitor -> Nat] /\ UNCHANGED <<probe, channel>>
    BY DEF TypeOK, PauseOrResume
  <2>5. /\ lock' \in {"queue", "starter", "pauser", None} /\ stop' \in Monitor \cup {None}
        /\ running' \in BOOLEAN /\ paused' \in BOOLEAN /\ restarting' \in BOOLEAN
        /\ process' \in BOOLEAN /\ pending' \in BOOLEAN
        /\ status' \in {"starting", "healthy", "unhealthy"}
    BY DEF TypeOK, PauseOrResume
  <2> QED
    BY <2>1, <2>2, <2>3, <2>4, <2>5 DEF TypeOK
<1>2. OneMonitor'
  BY DEF TypeOK, OneMonitor, SentDead, NoneLive, Live, PauseOrResume
<1>3. StreakRoom' /\ StatusExact'
  BY DEF TypeOK, OneMonitor, StreakRoom, StatusExact, Live, Results, PauseOrResume
<1>4. SentDead'
  BY DEF TypeOK, OneMonitor, SentDead, NoneLive, Live, Handler, PauseOrResume
<1>5. Openers'
  BY DEF TypeOK, Openers, Ordered, Off, Handler, PauseOrResume
<1>6. Ordered'
  <2>0. /\ process /\ ~pending' /\ queue \in Seq(Event)
        /\ \A i \in 1..Len(queue) : queue[i] \notin {"exit", "restart"}
    BY DEF TypeOK, Ordered, PauseOrResume
  <2>1. \A i \in 1..Len(queue') : i # Len(queue') => queue'[i] \notin {"exit", "restart"}
    BY <1>0, <2>0, AppendEvent DEF Event
  <2>2. \A i \in 1..Len(queue') : queue'[i] \in {"exit", "restart"} => ~process' /\ ~pending'
    BY <1>0, <2>0, AppendEvent DEF Event
  <2> QED
    BY <2>1, <2>2 DEF TypeOK, Ordered, Off, Handler, PauseOrResume
<1>7. Fresh'
  BY DEF TypeOK, OneMonitor, SentDead, Openers, Ordered, Fresh, NoneLive, Live, Off, Handler, PauseOrResume
<1>8. OffNoneLive'
  BY DEF TypeOK, OneMonitor, SentDead, Openers, Ordered, OffNoneLive, NoneLive, Live, Off, Handler, PauseOrResume
<1> QED
  BY <1>1, <1>2, <1>3, <1>4, <1>5, <1>6, <1>7, <1>8

\* The invariant is preserved by containerStart.
LEMMA StartStep == ASSUME IInv, ContainerStart PROVE IInv'
<1> USE HealthAssumption DEF IInv, containerVars, healthVars, monitorVars
<1>1. TypeOK'
  <2>1. queue' \in Seq(Event)
    BY DEF TypeOK, Event, ContainerStart, StateStart, Goto
  <2>2. run' \in Nat /\ failingStreak' \in 0..MaxStreak
    BY DEF TypeOK, ContainerStart, StateStart, Goto
  <2>3. pc' \in [Handler -> {"idle", "close", "found", "sending", "sent", "open", "done"}]
    BY DEF TypeOK, Handler, ContainerStart, StateStart, Goto
  <2>4. /\ monitor' \in [Monitor -> {"none", "idle", "probing", "timedOut", "draining"} \cup Results]
        /\ born' \in [Monitor -> Nat] /\ UNCHANGED <<probe, channel>>
    BY DEF TypeOK, ContainerStart, StateStart, Goto
  <2>5. /\ lock' \in {"queue", "starter", "pauser", None} /\ stop' \in Monitor \cup {None}
        /\ running' \in BOOLEAN /\ paused' \in BOOLEAN /\ restarting' \in BOOLEAN
        /\ process' \in BOOLEAN /\ pending' \in BOOLEAN
        /\ status' \in {"starting", "healthy", "unhealthy"}
    BY DEF TypeOK, ContainerStart, StateStart, Goto
  <2> QED
    BY <2>1, <2>2, <2>3, <2>4, <2>5 DEF TypeOK
<1>2. OneMonitor'
  BY DEF TypeOK, OneMonitor, SentDead, NoneLive, Live, ContainerStart, StateStart, Goto
<1>3. StreakRoom' /\ StatusExact'
  BY DEF TypeOK, OneMonitor, StreakRoom, StatusExact, Live, Results, ContainerStart, StateStart, Goto
<1>4. SentDead'
  BY DEF TypeOK, OneMonitor, SentDead, NoneLive, Live, Handler, ContainerStart, StateStart, Goto
<1>5. Openers'
  BY DEF TypeOK, Openers, Ordered, Off, Handler, ContainerStart, StateStart, Goto
<1>6. Ordered'
  BY DEF TypeOK, Ordered, Off, Handler, ContainerStart, StateStart, Goto
<1>7. Fresh'
  BY DEF TypeOK, OneMonitor, SentDead, Openers, Ordered, Fresh, NoneLive, Live, Off, Handler, ContainerStart, StateStart, Goto
<1>8. OffNoneLive'
  BY DEF TypeOK, OneMonitor, SentDead, Openers, Ordered, OffNoneLive, NoneLive, Live, Off, Handler, ContainerStart, StateStart, Goto
<1> QED
  BY <1>1, <1>2, <1>3, <1>4, <1>5, <1>6, <1>7, <1>8

\* The invariant is preserved by an automatic restart.
LEMMA RestartStep == ASSUME IInv, Restart PROVE IInv'
<1> USE HealthAssumption DEF IInv, containerVars, healthVars, monitorVars
<1>1. TypeOK'
  <2>1. queue' \in Seq(Event)
    BY DEF TypeOK, Event, Restart, StateStart, Goto
  <2>2. run' \in Nat /\ failingStreak' \in 0..MaxStreak
    BY DEF TypeOK, Restart, StateStart, Goto
  <2>3. pc' \in [Handler -> {"idle", "close", "found", "sending", "sent", "open", "done"}]
    BY DEF TypeOK, Handler, Restart, StateStart, Goto
  <2>4. /\ monitor' \in [Monitor -> {"none", "idle", "probing", "timedOut", "draining"} \cup Results]
        /\ born' \in [Monitor -> Nat] /\ UNCHANGED <<probe, channel>>
    BY DEF TypeOK, Restart, StateStart, Goto
  <2>5. /\ lock' \in {"queue", "starter", "pauser", None} /\ stop' \in Monitor \cup {None}
        /\ running' \in BOOLEAN /\ paused' \in BOOLEAN /\ restarting' \in BOOLEAN
        /\ process' \in BOOLEAN /\ pending' \in BOOLEAN
        /\ status' \in {"starting", "healthy", "unhealthy"}
    BY DEF TypeOK, Restart, StateStart, Goto
  <2> QED
    BY <2>1, <2>2, <2>3, <2>4, <2>5 DEF TypeOK
<1>2. OneMonitor'
  BY DEF TypeOK, OneMonitor, SentDead, NoneLive, Live, Restart, StateStart, Goto
<1>3. StreakRoom' /\ StatusExact'
  BY DEF TypeOK, OneMonitor, StreakRoom, StatusExact, Live, Results, Restart, StateStart, Goto
<1>4. SentDead'
  BY DEF TypeOK, OneMonitor, SentDead, NoneLive, Live, Handler, Restart, StateStart, Goto
<1>5. Openers'
  BY DEF TypeOK, Openers, Ordered, Off, Handler, Restart, StateStart, Goto
<1>6. Ordered'
  BY DEF TypeOK, Ordered, Off, Handler, Restart, StateStart, Goto
<1>7. Fresh'
  BY DEF TypeOK, OneMonitor, SentDead, Openers, Ordered, Fresh, NoneLive, Live, Off, Handler, Restart, StateStart, Goto
<1>8. OffNoneLive'
  BY DEF TypeOK, OneMonitor, SentDead, Openers, Ordered, OffNoneLive, NoneLive, Live, Off, Handler, Restart, StateStart, Goto
<1> QED
  BY <1>1, <1>2, <1>3, <1>4, <1>5, <1>6, <1>7, <1>8

\* The invariant is preserved by a failed restart.
LEMMA FailsStep == ASSUME IInv, RestartFails PROVE IInv'
<1> USE HealthAssumption DEF IInv, containerVars, healthVars, monitorVars
<1>1. TypeOK'
  <2>1. queue' \in Seq(Event)
    BY DEF TypeOK, Event, RestartFails
  <2>2. run' \in Nat /\ failingStreak' \in 0..MaxStreak
    BY DEF TypeOK, RestartFails
  <2>3. pc' \in [Handler -> {"idle", "close", "found", "sending", "sent", "open", "done"}]
    BY DEF TypeOK, Handler, RestartFails
  <2>4. /\ monitor' \in [Monitor -> {"none", "idle", "probing", "timedOut", "draining"} \cup Results]
        /\ born' \in [Monitor -> Nat] /\ UNCHANGED <<probe, channel>>
    BY DEF TypeOK, RestartFails
  <2>5. /\ lock' \in {"queue", "starter", "pauser", None} /\ stop' \in Monitor \cup {None}
        /\ running' \in BOOLEAN /\ paused' \in BOOLEAN /\ restarting' \in BOOLEAN
        /\ process' \in BOOLEAN /\ pending' \in BOOLEAN
        /\ status' \in {"starting", "healthy", "unhealthy"}
    BY DEF TypeOK, RestartFails
  <2> QED
    BY <2>1, <2>2, <2>3, <2>4, <2>5 DEF TypeOK
<1>2. OneMonitor'
  BY DEF TypeOK, OneMonitor, SentDead, NoneLive, Live, RestartFails
<1>3. StreakRoom' /\ StatusExact'
  BY DEF TypeOK, OneMonitor, StreakRoom, StatusExact, Live, Results, RestartFails
<1>4. SentDead'
  BY DEF TypeOK, OneMonitor, SentDead, NoneLive, Live, Handler, RestartFails
<1>5. Openers'
  BY DEF TypeOK, Openers, Ordered, Off, Handler, RestartFails
<1>6. Ordered'
  BY DEF TypeOK, Ordered, Off, Handler, RestartFails
<1>7. Fresh'
  BY DEF TypeOK, OneMonitor, SentDead, Openers, Ordered, Fresh, NoneLive, Live, Off, Handler, RestartFails
<1>8. OffNoneLive'
  BY DEF TypeOK, OneMonitor, SentDead, Openers, Ordered, OffNoneLive, NoneLive, Live, Off, Handler, RestartFails
<1> QED
  BY <1>1, <1>2, <1>3, <1>4, <1>5, <1>6, <1>7, <1>8

\* The invariant is preserved by containerd's events.
LEMMA EventStep == ASSUME IInv, ProcessEvent PROVE IInv'
<1> USE HealthAssumption DEF IInv, containerVars, healthVars, monitorVars
<1>0. \/ queue' = <<"oom">>
      \/ \E e \in {"exit", "restart"} : ~process' /\ queue' = Append(queue, e)
  BY DEF ProcessEvent
<1>1. TypeOK'
  <2>1. queue' \in Seq(Event)
    <3>1. "oom" \in Event /\ {"exit", "restart"} \subseteq Event
      BY DEF Event
    <3>2. <<"oom">> \in Seq(Event)
      BY <3>1
    <3>3. \A e \in Event : Append(queue, e) \in Seq(Event)
      BY AppendEvent DEF TypeOK
    <3> QED
      BY <1>0, <3>1, <3>2, <3>3
  <2>2. run' \in Nat /\ failingStreak' \in 0..MaxStreak
    BY DEF TypeOK, ProcessEvent
  <2>3. pc' \in [Handler -> {"idle", "close", "found", "sending", "sent", "open", "done"}]
    BY DEF TypeOK, Handler, ProcessEvent
  <2>4. /\ monitor' \in [Monitor -> {"none", "idle", "probing", "timedOut", "draining"} \cup Results]
        /\ born' \in [Monitor -> Nat] /\ UNCHANGED <<probe, channel>>
    BY DEF TypeOK, ProcessEvent
  <2>5. /\ lock' \in {"queue", "starter", "pauser", None} /\ stop' \in Monitor \cup {None}
        /\ running' \in BOOLEAN /\ paused' \in BOOLEAN /\ restarting' \in BOOLEAN
        /\ process' \in BOOLEAN /\ pending' \in BOOLEAN
        /\ status' \in {"starting", "healthy", "unhealthy"}
    BY DEF TypeOK, ProcessEvent
  <2> QED
    BY <2>1, <2>2, <2>3, <2>4, <2>5 DEF TypeOK
<1>2. OneMonitor'
  BY DEF TypeOK, OneMonitor, SentDead, NoneLive, Live, ProcessEvent
<1>3. StreakRoom' /\ StatusExact'
  BY DEF TypeOK, OneMonitor, StreakRoom, StatusExact, Live, Results, ProcessEvent
<1>4. SentDead'
  BY DEF TypeOK, OneMonitor, SentDead, NoneLive, Live, Handler, ProcessEvent
<1>5. Openers'
  BY DEF TypeOK, Openers, Ordered, Off, Handler, ProcessEvent
<1>6. Ordered'
  <2>0. /\ process /\ ~pending' /\ queue \in Seq(Event)
        /\ \A i \in 1..Len(queue) : queue[i] \notin {"exit", "restart"}
    BY DEF TypeOK, Ordered, ProcessEvent
  <2>1. \A i \in 1..Len(queue') : i # Len(queue') => queue'[i] \notin {"exit", "restart"}
    BY <1>0, <2>0, AppendEvent DEF Event
  <2>2. \A i \in 1..Len(queue') : queue'[i] \in {"exit", "restart"} => ~process' /\ ~pending'
    BY <1>0, <2>0, AppendEvent DEF Event
  <2> QED
    BY <2>1, <2>2 DEF TypeOK, Ordered, Off, Handler, ProcessEvent
<1>7. Fresh'
  BY DEF TypeOK, OneMonitor, SentDead, Openers, Ordered, Fresh, NoneLive, Live, Off, Handler, ProcessEvent
<1>8. OffNoneLive'
  BY DEF TypeOK, OneMonitor, SentDead, Openers, Ordered, OffNoneLive, NoneLive, Live, Off, Handler, ProcessEvent
<1> QED
  BY <1>1, <1>2, <1>3, <1>4, <1>5, <1>6, <1>7, <1>8

\* The invariant is preserved by the monitor's step Tick.
LEMMA TickStep == ASSUME IInv, NEW m \in Monitor, Tick(m) PROVE IInv'
<1> USE HealthAssumption DEF IInv, containerVars, healthVars, monitorVars
<1>1. TypeOK'
  BY DEF TypeOK, Results, Handler, Tick, others
<1>2. OneMonitor'
  BY DEF TypeOK, OneMonitor, SentDead, NoneLive, Live, Tick, others
<1>3. StreakRoom' /\ StatusExact'
  BY DEF TypeOK, OneMonitor, StreakRoom, StatusExact, Live, Results, Tick, others
<1>4. SentDead'
  BY DEF TypeOK, OneMonitor, SentDead, NoneLive, Live, Handler, Tick, others
<1>5. Openers'
  BY DEF TypeOK, Openers, Ordered, Off, Handler, Tick, others
<1>6. Ordered'
  BY DEF TypeOK, Ordered, Off, Handler, Tick, others
<1>7. Fresh'
  BY DEF TypeOK, OneMonitor, SentDead, Openers, Ordered, Fresh, NoneLive, Live, Off, Handler, Tick, others
<1>8. OffNoneLive'
  BY DEF TypeOK, OneMonitor, SentDead, Openers, Ordered, OffNoneLive, NoneLive, Live, Off, Handler, Tick, others
<1> QED
  BY <1>1, <1>2, <1>3, <1>4, <1>5, <1>6, <1>7, <1>8

\* The invariant is preserved by the monitor's step ProbeStarts.
LEMMA ProbeStartsStep == ASSUME IInv, NEW m \in Monitor, ProbeStarts(m) PROVE IInv'
<1> USE HealthAssumption DEF IInv, containerVars, healthVars, monitorVars
<1>1. TypeOK'
  BY DEF TypeOK, Results, Handler, ProbeStarts, others, Execable
<1>2. OneMonitor'
  BY DEF TypeOK, OneMonitor, SentDead, NoneLive, Live, ProbeStarts, others, Execable
<1>3. StreakRoom' /\ StatusExact'
  BY DEF TypeOK, OneMonitor, StreakRoom, StatusExact, Live, Results, ProbeStarts, others, Execable
<1>4. SentDead'
  BY DEF TypeOK, OneMonitor, SentDead, NoneLive, Live, Handler, ProbeStarts, others, Execable
<1>5. Openers'
  BY DEF TypeOK, Openers, Ordered, Off, Handler, ProbeStarts, others, Execable
<1>6. Ordered'
  BY DEF TypeOK, Ordered, Off, Handler, ProbeStarts, others, Execable
<1>7. Fresh'
  BY DEF TypeOK, OneMonitor, SentDead, Openers, Ordered, Fresh, NoneLive, Live, Off, Handler, ProbeStarts, others, Execable
<1>8. OffNoneLive'
  BY DEF TypeOK, OneMonitor, SentDead, Openers, Ordered, OffNoneLive, NoneLive, Live, Off, Handler, ProbeStarts, others, Execable
<1> QED
  BY <1>1, <1>2, <1>3, <1>4, <1>5, <1>6, <1>7, <1>8

\* The invariant is preserved by the monitor's step ProbeEnds.
LEMMA ProbeEndsStep == ASSUME IInv, NEW m \in Monitor, ProbeEnds(m) PROVE IInv'
<1> USE HealthAssumption DEF IInv, containerVars, healthVars, monitorVars
<1>1. TypeOK'
  BY DEF TypeOK, Results, Handler, ProbeEnds, others, Execable
<1>2. OneMonitor'
  BY DEF TypeOK, OneMonitor, SentDead, NoneLive, Live, ProbeEnds, others, Execable
<1>3. StreakRoom' /\ StatusExact'
  BY DEF TypeOK, OneMonitor, StreakRoom, StatusExact, Live, Results, ProbeEnds, others, Execable
<1>4. SentDead'
  BY DEF TypeOK, OneMonitor, SentDead, NoneLive, Live, Handler, ProbeEnds, others, Execable
<1>5. Openers'
  BY DEF TypeOK, Openers, Ordered, Off, Handler, ProbeEnds, others, Execable
<1>6. Ordered'
  BY DEF TypeOK, Ordered, Off, Handler, ProbeEnds, others, Execable
<1>7. Fresh'
  BY DEF TypeOK, OneMonitor, SentDead, Openers, Ordered, Fresh, NoneLive, Live, Off, Handler, ProbeEnds, others, Execable
<1>8. OffNoneLive'
  BY DEF TypeOK, OneMonitor, SentDead, Openers, Ordered, OffNoneLive, NoneLive, Live, Off, Handler, ProbeEnds, others, Execable
<1> QED
  BY <1>1, <1>2, <1>3, <1>4, <1>5, <1>6, <1>7, <1>8

\* The invariant is preserved by the monitor's step Receive.
LEMMA ReceiveStep == ASSUME IInv, NEW m \in Monitor, Receive(m) PROVE IInv'
<1> USE HealthAssumption DEF IInv, containerVars, healthVars, monitorVars
<1>1. TypeOK'
  BY DEF TypeOK, Results, Handler, Receive, others
<1>2. OneMonitor'
  BY DEF TypeOK, OneMonitor, SentDead, NoneLive, Live, Receive, others
<1>3. StreakRoom' /\ StatusExact'
  BY DEF TypeOK, OneMonitor, StreakRoom, StatusExact, Live, Results, Receive, others
<1>4. SentDead'
  BY DEF TypeOK, OneMonitor, SentDead, NoneLive, Live, Handler, Receive, others
<1>5. Openers'
  BY DEF TypeOK, Openers, Ordered, Off, Handler, Receive, others
<1>6. Ordered'
  BY DEF TypeOK, Ordered, Off, Handler, Receive, others
<1>7. Fresh'
  BY DEF TypeOK, OneMonitor, SentDead, Openers, Ordered, Fresh, NoneLive, Live, Off, Handler, Receive, others
<1>8. OffNoneLive'
  BY DEF TypeOK, OneMonitor, SentDead, Openers, Ordered, OffNoneLive, NoneLive, Live, Off, Handler, Receive, others
<1> QED
  BY <1>1, <1>2, <1>3, <1>4, <1>5, <1>6, <1>7, <1>8

\* The invariant is preserved by the monitor's step Timeout.
LEMMA TimeoutStep == ASSUME IInv, NEW m \in Monitor, Timeout(m) PROVE IInv'
<1> USE HealthAssumption DEF IInv, containerVars, healthVars, monitorVars
<1>1. TypeOK'
  BY DEF TypeOK, Results, Handler, Timeout, others
<1>2. OneMonitor'
  BY DEF TypeOK, OneMonitor, SentDead, NoneLive, Live, Timeout, others
<1>3. StreakRoom' /\ StatusExact'
  BY DEF TypeOK, OneMonitor, StreakRoom, StatusExact, Live, Results, Timeout, others
<1>4. SentDead'
  BY DEF TypeOK, OneMonitor, SentDead, NoneLive, Live, Handler, Timeout, others
<1>5. Openers'
  BY DEF TypeOK, Openers, Ordered, Off, Handler, Timeout, others
<1>6. Ordered'
  BY DEF TypeOK, Ordered, Off, Handler, Timeout, others
<1>7. Fresh'
  BY DEF TypeOK, OneMonitor, SentDead, Openers, Ordered, Fresh, NoneLive, Live, Off, Handler, Timeout, others
<1>8. OffNoneLive'
  BY DEF TypeOK, OneMonitor, SentDead, Openers, Ordered, OffNoneLive, NoneLive, Live, Off, Handler, Timeout, others
<1> QED
  BY <1>1, <1>2, <1>3, <1>4, <1>5, <1>6, <1>7, <1>8

\* The invariant is preserved by the monitor's step HandleProbeResult.
LEMMA HandleProbeResultStep == ASSUME IInv, NEW m \in Monitor, HandleProbeResult(m) PROVE IInv'
<1> USE HealthAssumption DEF IInv, containerVars, healthVars, monitorVars
<1>1. TypeOK'
  BY DEF TypeOK, StreakRoom, Results, Handler, HandleProbeResult, others, Record
<1>2. OneMonitor'
  BY DEF TypeOK, OneMonitor, SentDead, NoneLive, Live, Results, HandleProbeResult, others, Record
<1>3. StreakRoom' /\ StatusExact'
  BY DEF TypeOK, OneMonitor, StreakRoom, StatusExact, Live, Results, HandleProbeResult, others, Record
<1>4. SentDead'
  BY DEF TypeOK, OneMonitor, SentDead, NoneLive, Live, Results, Handler, HandleProbeResult, others, Record
<1>5. Openers'
  BY DEF TypeOK, Openers, Ordered, Off, Handler, HandleProbeResult, others, Record
<1>6. Ordered'
  BY DEF TypeOK, Ordered, Off, Handler, HandleProbeResult, others, Record
<1>7. Fresh'
  BY DEF TypeOK, OneMonitor, SentDead, Openers, Ordered, Fresh, NoneLive, Live, Results, Off, Handler, HandleProbeResult, others, Record
<1>8. OffNoneLive'
  BY DEF TypeOK, OneMonitor, SentDead, Openers, Ordered, OffNoneLive, NoneLive, Live, Results, Off, Handler, HandleProbeResult, others, Record
<1> QED
  BY <1>1, <1>2, <1>3, <1>4, <1>5, <1>6, <1>7, <1>8

\* The invariant is preserved by the monitor's step Drain.
LEMMA DrainStep == ASSUME IInv, NEW m \in Monitor, Drain(m) PROVE IInv'
<1> USE HealthAssumption DEF IInv, containerVars, healthVars, monitorVars
<1>1. TypeOK'
  BY DEF TypeOK, Results, Handler, Drain, others
<1>2. OneMonitor'
  BY DEF TypeOK, OneMonitor, SentDead, NoneLive, Live, Drain, others
<1>3. StreakRoom' /\ StatusExact'
  BY DEF TypeOK, OneMonitor, StreakRoom, StatusExact, Live, Results, Drain, others
<1>4. SentDead'
  BY DEF TypeOK, OneMonitor, SentDead, NoneLive, Live, Handler, Drain, others
<1>5. Openers'
  BY DEF TypeOK, Openers, Ordered, Off, Handler, Drain, others
<1>6. Ordered'
  BY DEF TypeOK, Ordered, Off, Handler, Drain, others
<1>7. Fresh'
  BY DEF TypeOK, OneMonitor, SentDead, Openers, Ordered, Fresh, NoneLive, Live, Off, Handler, Drain, others
<1>8. OffNoneLive'
  BY DEF TypeOK, OneMonitor, SentDead, Openers, Ordered, OffNoneLive, NoneLive, Live, Off, Handler, Drain, others
<1> QED
  BY <1>1, <1>2, <1>3, <1>4, <1>5, <1>6, <1>7, <1>8

-----------------------------------------------------------------------------
\* Every step preserves the inductive invariant.
LEMMA NextIInv == IInv /\ [Next]_vars => IInv'
<1> SUFFICES ASSUME IInv, [Next]_vars PROVE IInv'
  OBVIOUS
<1>1. ASSUME NEW t \in Handler, Handle(t) PROVE IInv'
  BY <1>1, CloseStep, SendStep, SentStep, OpenStep, DoneStep, StoppedStep DEF Handle
<1>2. ASSUME NEW t \in Stopper, ContainerStop(t) PROVE IInv'
  BY <1>2, StopStep
<1>3. CASE StateChanged \/ PauseOrResume \/ ContainerStart \/ Restart \/ RestartFails \/ ProcessEvent
  BY <1>3, StateChangedStep, PauseStep, StartStep, RestartStep, FailsStep, EventStep
<1>4. ASSUME NEW m \in Monitor, Monitors(m) PROVE IInv'
  BY <1>4, TickStep, ProbeStartsStep, ProbeEndsStep, ReceiveStep, TimeoutStep,
     HandleProbeResultStep, DrainStep DEF Monitors
<1>5. CASE UNCHANGED vars
  <2> USE <1>5 DEF IInv, vars, containerVars, healthVars, monitorVars
  <2>1. TypeOK' /\ OneMonitor' /\ StreakRoom' /\ StatusExact'
    BY DEF TypeOK, OneMonitor, Live, StreakRoom, StatusExact
  <2>2. SentDead' /\ Openers' /\ Fresh' /\ OffNoneLive'
    BY DEF SentDead, Openers, Fresh, OffNoneLive, NoneLive, Live, Off
  <2>3. Ordered'
    BY DEF Ordered, Off
  <2> QED
    BY <2>1, <2>2, <2>3
<1> QED
  BY <1>1, <1>2, <1>3, <1>4, <1>5 DEF Next

\* The inductive invariant holds in every reachable state.
THEOREM HealthInvariant == Spec => []IInv
  BY InitIInv, NextIInv, PTL DEF Spec

\* Types, and at most one failure counted per probe.
THEOREM HealthTypes == Spec => []TypeOK
<1>1. IInv => TypeOK
  BY DEF IInv
<1> QED
  BY <1>1, HealthInvariant, PTL

\* There is never more than one monitor, and h.stop is its channel, although
\* containerStop closes it without the container's lock.
THEOREM HealthOneMonitor == Spec => []OneMonitor
<1>1. IInv => OneMonitor
  BY DEF IInv
<1> QED
  BY <1>1, HealthInvariant, PTL

\* After a start or an automatic restart only a monitor of that run reports.
THEOREM HealthFreshMonitor == Spec => []FreshMonitor
<1>1. IInv => FreshMonitor
  BY DEF IInv, Fresh, FreshMonitor
<1> QED
  BY <1>1, HealthInvariant, PTL

\* Between handlers a container that is stopped or paused has no monitor.
THEOREM HealthNoMonitorUnlessRunning == Spec => []NoMonitorUnlessRunning
<1>1. IInv => NoMonitorUnlessRunning
  BY DEF IInv, OffNoneLive, NoneLive, Off, NoMonitorUnlessRunning
<1> QED
  BY <1>1, HealthInvariant, PTL

\* The status is unhealthy exactly when the streak has reached Retries.
THEOREM HealthStatusExact == Spec => []StatusExact
<1>1. IInv => StatusExact
  BY DEF IInv
<1> QED
  BY <1>1, HealthInvariant, PTL

\* The promises of the health check together (daemon/health.go).
THEOREM HealthSafe == Spec => []MonitorsSafe
  BY HealthOneMonitor, HealthFreshMonitor, HealthStatusExact,
     HealthNoMonitorUnlessRunning, PTL DEF MonitorsSafe
=============================================================================
