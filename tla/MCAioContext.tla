---------------------------- MODULE MCAioContext ----------------------------
(* AioContext for one thread besides the home thread, and mixes of calls.  *)
EXTENDS AioContext

MCScenarios ==
  {{"poll", "schedule", "cancel", "delete", "oneshot"}, {"poll", "schedule", "timer"},
   {"poll", "idle", "delete"}, {"poll", "oneshot", "coroutine"},
   {"gsource", "schedule", "idle", "timer"}, {"gsource", "idle", "cancel", "delete"},
   {"gsource", "coroutine"}}
=============================================================================
