-------------------------------- MODULE Feed --------------------------------
(***************************************************************************)
(* What a live-stream backplane promises its readers, with no ring, no     *)
(* queues and no sentinels.  The feed is one append-only log; a reader is  *)
(* a cursor into it.  A reader may lose what lies behind the replay        *)
(* horizon, but only at the moment it joins: from then on it is handed the *)
(* log one entry at a time, in order, until the feed is halted (it then    *)
(* still gets what was logged before the halt) or it leaves.               *)
(***************************************************************************)
EXTENDS Integers, Sequences

CONSTANTS
  Readers,   \* readers; each joins at most once
  Events,    \* what is published
  Retain,    \* how many of the newest entries a late reader can rewind over
  MaxLog     \* bound on the length of the log

VARIABLES
  log,       \* every event published, oldest first
  horizon,   \* entries at or below this position can no longer be replayed
  status,    \* reader -> "new" | "open" | "closing" | "done" | "gone"
  cursor,    \* reader -> position of the last entry it was handed
  limit,     \* reader -> last entry it is still owed, once "closing"
  asked,     \* reader -> the entry it asked to resume after, or Live
  got        \* reader -> the events it was handed

vars == <<log, horizon, status, cursor, limit, asked, got>>

Live == -1

Later(m, n) == IF m > n THEN m ELSE n

Init ==
  /\ log = <<>>
  /\ horizon = 0
  /\ status = [r \in Readers |-> "new"]
  /\ cursor = [r \in Readers |-> 0]
  /\ limit = [r \in Readers |-> 0]
  /\ asked = [r \in Readers |-> Live]
  /\ got = [r \in Readers |-> <<>>]

Publish(e) ==
  /\ Len(log) < MaxLog
  /\ log' = Append(log, e)
  /\ horizon' = Later(horizon, Len(log) + 1 - Retain)
  /\ UNCHANGED <<status, cursor, limit, asked, got>>

\* A reader joins just behind entry `from`.
JoinAt(r, from, last) ==
  /\ status[r] = "new"
  /\ status' = [status EXCEPT ![r] = "open"]
  /\ cursor' = [cursor EXCEPT ![r] = from]
  /\ asked' = [asked EXCEPT ![r] = last]
  /\ UNCHANGED <<log, horizon, limit, got>>

JoinLive(r) == JoinAt(r, Len(log), Live)

\* Resume after entry `last`: nothing newer than `last` that is still within
\* the horizon is skipped, and nothing the reader has already seen is repeated.
JoinAfter(r, last) ==
  JoinAt(r, IF last >= Len(log) THEN Len(log) ELSE Later(last, horizon),
         last)

Deliver(r) ==
  /\ \/ status[r] = "open" /\ cursor[r] < Len(log)
     \/ status[r] = "closing" /\ cursor[r] < limit[r]
  /\ cursor' = [cursor EXCEPT ![r] = @ + 1]
  /\ got' = [got EXCEPT ![r] = Append(@, log[cursor[r] + 1])]
  /\ UNCHANGED <<log, horizon, status, limit, asked>>

\* Every open reader is told to finish with what has been logged so far, and
\* nothing remains to be replayed.
Halt ==
  LET open == {r \in Readers : status[r] = "open"} IN
  /\ horizon' = Len(log)
  /\ status' = [r \in Readers |-> IF r \in open THEN "closing" ELSE status[r]]
  /\ limit' = [r \in Readers |-> IF r \in open THEN Len(log) ELSE limit[r]]
  /\ UNCHANGED <<log, cursor, asked, got>>

Quit(r, how) ==
  /\ status' = [status EXCEPT ![r] = how]
  /\ limit' = [limit EXCEPT ![r] = 0]
  /\ UNCHANGED <<log, horizon, cursor, asked, got>>

\* The feed ends for a reader only when it has been handed all it was owed.
Finish(r) ==
  status[r] = "closing" /\ cursor[r] = limit[r] /\ Quit(r, "done")

Leave(r) == status[r] \in {"open", "closing"} /\ Quit(r, "gone")

Next ==
  \/ \E e \in Events : Publish(e)
  \/ Halt
  \/ \E r \in Readers :
       \/ JoinLive(r)
       \/ \E last \in 0..MaxLog + 1 : JoinAfter(r, last)
       \/ Deliver(r)
       \/ Finish(r)
       \/ Leave(r)

Spec == Init /\ [][Next]_vars
=============================================================================
