------------------------ MODULE EventStreamImplements ------------------------
(* The event stream keeps the promise of the feed: the refinement mapping.    *)
EXTENDS EventStream

Feed == INSTANCE EventFeed WITH
          Numbers   <- 0..MaxEvents,
          published <- Mine,
          brought   <- seen,
          announced <- announced,
          cursor    <- shown.cursor,
          saved     <- saved

(***************************************************************************)
(* Every behaviour of the stream is a behaviour of the feed.  The device    *)
(* never moves past an event it was not shown: what is published between    *)
(* the two reads of a replay, a page that was cut, two carriers that apply  *)
(* their pages at once over each other's state, and a process that dies in  *)
(* the middle of it lose nothing below the cursor it asks and starts from,  *)
(* and nothing is announced that was not brought or meant for it            *)
(* (bus.replay, EventStream.applyPage, VanEventStreamStore.apply).          *)
(***************************************************************************)
ImplementsFeed == Feed!Spec

==============================================================================
