-------------------------------- MODULE Lanes --------------------------------
(***************************************************************************)
(* The blocks of one session (pairToolCalls, sessionStatus and the tasks   *)
(* of buildLanes, swimlane.lanes.js).  pairToolCalls is a loop over the    *)
(* session's events in order of time; here it is a state machine that      *)
(* reads one event per step, so that every order of events, with every tie *)
(* and every distance around the window, is an input.                      *)
(*                                                                         *)
(* Left out are labels and colours: a block is the one or two events it is *)
(* made of, its tool that of the first.                                    *)
(***************************************************************************)
EXTENDS Integers, Sequences, FiniteSets, SequencesExt, FiniteSetsExt

CONSTANTS
  Kinds,      \* what events may be: records [type, tool, failed]
  Task,       \* the tool_name "Task"
  Window,     \* TOOL_PAIR_WINDOW
  MaxTime,    \* bound on timestamps
  MaxEvents   \* bound on the events of a session

Answer == [tool_call |-> "tool_response", subagent_call |-> "subagent_response"]
OpenTypes == DOMAIN Answer
CloseTypes == {"tool_response", "subagent_response", "error"}

ASSUME KindsAssumption ==
  \A k \in Kinds : k.type \in OpenTypes \cup CloseTypes \cup {"other"}
ASSUME BoundsAssumption ==
  Window \in Nat /\ MaxTime \in Nat /\ MaxEvents \in Nat

VARIABLES
  input,   \* history: the events read, each [n, at, type, tool, failed]
  open,    \* calls without an answer, oldest first
  calls,   \* blocks: sequences of one or two events
  loose,   \* events that are neither call nor answer
  built    \* the loop is over

vars == <<input, open, calls, loose, built>>

Event(n) == {[n |-> n, at |-> at, type |-> k.type, tool |-> k.tool,
              failed |-> k.failed] : at \in 0..MaxTime, k \in Kinds}
Read == {input[i] : i \in DOMAIN input}

TypeOK ==
  /\ \A i \in DOMAIN input :
       /\ input[i] \in Event(i)
       /\ i > 1 => input[i - 1].at <= input[i].at
  /\ open \in Seq(Read) /\ loose \in Seq(Read)
  /\ \A i \in DOMAIN open : open[i].type \in OpenTypes
  /\ \A i \in DOMAIN calls : calls[i] \in Seq(Read) /\ Len(calls[i]) \in {1, 2}
  /\ built \in BOOLEAN

Init ==
  /\ input = <<>> /\ open = <<>> /\ calls = <<>> /\ loose = <<>>
  /\ built = FALSE

-----------------------------------------------------------------------------
Near(c, e) == c.tool = e.tool /\ e.at - c.at >= 0 /\ e.at - c.at <= Window

\* May e be the answer to the call c?  An error may be the answer to any.
Takes(e, c) == (Answer[c.type] = e.type \/ e.type = "error") /\ Near(c, e)

\* Mutant of Choice: the call opened last.
ChoiceLast(S) == CHOOSE i \in S : \A j \in S : j <= i

\* findIndex: the first of the open calls.
Choice(S) == CHOOSE i \in S : \A j \in S : i <= j

Reads(e) ==
  /\ ~built
  /\ input' = Append(input, e)
  /\ UNCHANGED built

Opens(e) ==
  /\ e.type \in OpenTypes
  /\ open' = Append(open, e)
  /\ UNCHANGED <<calls, loose>>

\* Mutant of Taken: the call stays open.
TakenNot(i) == open

\* splice
Taken(i) == RemoveAt(open, i)

Closes(e) ==
  LET mine == {i \in DOMAIN open : Takes(e, open[i])}
      i == Choice(mine)
  IN  /\ e.type \in CloseTypes
      /\ mine # {}
      /\ calls' = Append(calls, <<open[i], e>>)
      /\ open' = Taken(i)
      /\ UNCHANGED loose

\* Mutant of Orphan: an answer without a call is left with the calls.
OrphanKept(e) ==
  /\ e.type \in CloseTypes
  /\ \A i \in DOMAIN open : ~Takes(e, open[i])
  /\ open' = Append(open, e)
  /\ UNCHANGED <<calls, loose>>

\* An answer without a call is a block of its own.
Orphan(e) ==
  /\ e.type \in CloseTypes
  /\ \A i \in DOMAIN open : ~Takes(e, open[i])
  /\ calls' = Append(calls, <<e>>)
  /\ UNCHANGED <<open, loose>>

Loose(e) ==
  /\ e.type \notin OpenTypes \cup CloseTypes
  /\ loose' = Append(loose, e)
  /\ UNCHANGED <<open, calls>>

Start(b) == Head(b).at
End(b) == Last(b).at

\* The blocks by start; blocks that start together keep their order: the k-th
\* is the one with k - 1 blocks before it.
ByStart(blocks) ==
  LET before(i, j) == \/ Start(blocks[i]) < Start(blocks[j])
                      \/ Start(blocks[i]) = Start(blocks[j]) /\ i < j
      order == [k \in DOMAIN blocks |->
                  CHOOSE i \in DOMAIN blocks :
                    Cardinality({j \in DOMAIN blocks : before(j, i)}) = k - 1]
  IN  [k \in DOMAIN blocks |-> blocks[order[k]]]

\* The calls still open become blocks of one event.
Build ==
  /\ ~built
  /\ built' = TRUE
  /\ calls' = ByStart(calls \o [i \in DOMAIN open |-> <<open[i]>>])
  /\ open' = <<>>
  /\ UNCHANGED <<input, loose>>

Next ==
  \/ \E e \in Event(Len(input) + 1) :
       /\ Len(input) < MaxEvents
       /\ input # <<>> => Last(input).at <= e.at
       /\ Reads(e)
       /\ Opens(e) \/ Closes(e) \/ Orphan(e) \/ Loose(e)
  \/ Build

Spec == Init /\ [][Next]_vars
-----------------------------------------------------------------------------
\* What buildLanes makes of the blocks; blocks are named by their position.

\* Mutant of Status: subagents are not looked at.
StatusOfTools ==
  IF \E e \in Read : e.type = "error" \/ e.failed THEN "failed"
  ELSE IF \E i \in DOMAIN calls :
            Len(calls[i]) = 1 /\ Head(calls[i]).type = "tool_call"
       THEN "running" ELSE "completed"

\* sessionStatus
Status ==
  IF \E e \in Read : e.type = "error" \/ e.failed THEN "failed"
  ELSE IF \E i \in DOMAIN calls :
            Len(calls[i]) = 1 /\ Head(calls[i]).type \in OpenTypes
       THEN "running" ELSE "completed"

Tasks == {i \in DOMAIN calls : Head(calls[i]).tool = Task}

Children(t) == {i \in DOMAIN calls \ Tasks :
                  Start(calls[i]) >= Start(calls[t]) /\ End(calls[i]) <= End(calls[t])}

\* Mutant of Direct: a call that starts in a task is left to it.
DirectByStart ==
  {i \in DOMAIN calls \ Tasks :
     \A t \in Tasks : ~(Start(calls[i]) >= Start(calls[t])
                        /\ Start(calls[i]) <= End(calls[t]))}

\* The tool calls that no task has claimed.
Direct == (DOMAIN calls \ Tasks) \ UNION {Children(t) : t \in Tasks}

Size(blocks) == MapThenSumSet(LAMBDA i : Len(calls[i]), blocks)

\* countSessionEvents
CountSessionEvents ==
  Len(loose) + Size(Direct) + Size(Tasks)
    + MapThenSumSet(LAMBDA t : Size(Children(t)), Tasks)
-----------------------------------------------------------------------------
\* Properties.

EventsOf(b) == {b[k] : k \in DOMAIN b}
Places(e) ==
  {<<"open", i>> : i \in {i \in DOMAIN open : open[i] = e}}
    \cup {<<"loose", i>> : i \in {i \in DOMAIN loose : loose[i] = e}}
    \cup {<<"calls", i>> : i \in {i \in DOMAIN calls : e \in EventsOf(calls[i])}}

\* Every event read is in exactly one place: a call is taken once, and neither
\* an answer nor the end of the loop loses one (pairToolCalls).
OnePlaceEach == \A e \in Read : Cardinality(Places(e)) = 1

Paired == {calls[i] : i \in {i \in DOMAIN calls : Len(calls[i]) = 2}}
Alone == {calls[i][1] : i \in {i \in DOMAIN calls : Len(calls[i]) = 1}}

\* The calls read before e that e might be the answer to, and that no event
\* before e has answered; stated over the input, not the loop's own list.
Waiting(e) ==
  {c \in Read : /\ c.type \in OpenTypes /\ c.n < e.n /\ c.tool = e.tool
                /\ e.at - c.at \in 0..Window
                /\ e.type \in {Answer[c.type], "error"}
                /\ ~\E b \in Paired : b[1] = c /\ b[2].n < e.n}

\* First come, first served: an answer goes to the oldest call that waits for
\* it, whatever other calls of the same or of other tools are open and however
\* events tie, and stands alone only if nothing waited for it, the boundary of
\* the window included (pairToolCalls).
FirstComeFirstServed ==
  /\ \A b \in Paired :
       b[1] \in Waiting(b[2]) /\ \A c \in Waiting(b[2]) : b[1].n <= c.n
  /\ \A e \in Alone : e.type \in CloseTypes => Waiting(e) = {}

\* A session is shown as completed only if each of its calls, of tools and of
\* subagents, was answered within the window (sessionStatus).
CompletedIsAnswered ==
  built /\ Status = "completed" =>
    \A c \in Read : c.type \in OpenTypes =>
      \E e \in Read : e.n > c.n /\ e.type = Answer[c.type] /\ e.tool = c.tool
                      /\ e.at - c.at \in 0..Window

\* Every event is shown in some block: a call that only begins, or only ends,
\* within a task is not left out, whether or not tasks overlap (buildLanes).
NothingHidden ==
  built => \A e \in Read :
    \/ \E i \in DOMAIN loose : loose[i] = e
    \/ \E i \in Direct \cup Tasks \cup UNION {Children(t) : t \in Tasks} :
         e \in EventsOf(calls[i])

\* The count of a node is the number of its events, as the test `nestLanes
\* counts events per orchestrator group` expects (countSessionEvents).
CountIsExact == built => CountSessionEvents = Len(input)
=============================================================================
