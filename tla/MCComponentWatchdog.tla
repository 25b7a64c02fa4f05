-------------------------- MODULE MCComponentWatchdog --------------------------
(***************************************************************************)
(* ComponentWatchdog without what no later step and no property reads: the  *)
(* part of a feed that is used up, the start of an iteration that is over,  *)
(* the timestamp of a recovery and the time it was shown once it no longer  *)
(* is, the events raised before, and how often the buzzer played beyond     *)
(* what BuzzerOncePerOutage compares.                                       *)
(***************************************************************************)
EXTENDS ComponentWatchdog

FeedToCome ==
  CASE pc = "malformed" -> feed
    [] pc = "rejection" -> [feed EXCEPT !.malformed = FALSE]
    [] pc = "frame"     -> [feed EXCEPT !.malformed = FALSE]
    [] OTHER            -> NoFeed

View ==
  <<clock, pc, IF AtRest THEN 0 ELSE loopNow, FeedToCome,
    tracker, simulation, lastEval, wifiOut,
    lastPublish, recoveredActive, waitingPublished,
    IF recoveredActive \/ ~AtRest THEN recoveredAt ELSE 0,
    outbox, shown, warnings % CounterWrap, warnings - chirps,
    IF shown.status = "RECOVERED" THEN restoredFor ELSE 0,
    silence, overdue, openOutages>>

=============================================================================
