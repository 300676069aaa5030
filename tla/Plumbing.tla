------------------------------ MODULE Plumbing ------------------------------
(***************************************************************************)
(* Two small parts every other one leans on, side by side: the named locks *)
(* of pkg/locker and the event stream of daemon/events.  They share no     *)
(* state; the locks are extended, the events are an instance.              *)
(***************************************************************************)
EXTENDS Locker, Sequences

CONSTANTS
  Logger, Sub, Wants, EventsLimit, BufferSize, MaxEvents,
  Ops           \* what a request for events may ask

VARIABLES
  clock, author, events, stored, emu, lpc, msg, sending, subs, chan, closed,
  spc, win, covered, buffered, received, skipped

Evts == INSTANCE Events

\* Events and their subscribers.  A request for all events gets every event
\* that was published to it or recorded before it subscribed, but for those a
\* full channel made the publisher skip: Subscribe copies the record and adds
\* the topic under one lock.  No publisher sends to a channel that Evict has
\* closed.
EventsSafe == Evts!EventsSafe
=============================================================================
