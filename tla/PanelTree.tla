------------------------------ MODULE PanelTree ------------------------------
(***************************************************************************)
(* The panel with its tree (loadTree, swimlane.js): next to the list of    *)
(* events, the counts of GET /tree, asked for at mount and by every tick   *)
(* of the timer that also polls.  Loads may overlap, be answered in any    *)
(* order, and fail; each of them sets the tree.  The tree is abstracted to *)
(* the number of events it counts.                                         *)
(***************************************************************************)
EXTENDS Panel

CONSTANT Loads    \* bound: the loads of the tree in flight

VARIABLES
  tree,    \* state.tree: the events it counts
  load     \* each load: [at, count], the events the server counted

treeVars == <<vars, tree, load>>

NoLoad == [at |-> "idle", count |-> 0]
LoadAsked == [at |-> "asked", count |-> 0]

\* mount: the tree is asked for before the loop starts.
TreeInit ==
  /\ Init
  /\ tree = 0
  /\ \E first \in Loads :
       load = [l \in Loads |-> IF l = first THEN LoadAsked ELSE NoLoad]

Load(l) ==
  /\ load[l].at = "idle"
  /\ load' = [load EXCEPT ![l] = LoadAsked]
  /\ UNCHANGED tree

\* Mutant of Tick: the tree is polled as the list is.
TickWhenPolling(l, r) == Poll(r) /\ Load(l)

\* The timer: the tree is loaded, live or not, and the list when not live.
Tick(l, r) ==
  /\ Load(l)
  /\ IF live THEN ~destroyed /\ UNCHANGED vars ELSE Poll(r)

\* GET /tree reads the table.
TreeReads(l) ==
  /\ load[l].at = "asked"
  /\ load' = [load EXCEPT ![l] = [at |-> "answered",
                                  count |-> Cardinality(stored)]]
  /\ UNCHANGED <<vars, tree>>

\* The answer is applied, whatever was loaded since it was read.
Loaded(l) ==
  /\ load[l].at = "answered"
  /\ tree' = load[l].count
  /\ load' = [load EXCEPT ![l] = NoLoad]
  /\ UNCHANGED vars

\* The fetch fails: the tree is emptied.
LoadFails(l) ==
  /\ load[l].at # "idle"
  /\ Fault
  /\ tree' = 0
  /\ load' = [load EXCEPT ![l] = NoLoad]
  /\ UNCHANGED <<server, panel, conn, known, clean>>

TreeNext ==
  \/ Steps /\ UNCHANGED <<tree, load>>
  \/ \E l \in Loads, r \in Others : Tick(l, r)
  \/ \E l \in Loads : TreeReads(l) \/ Loaded(l) \/ LoadFails(l)

\* As for the panel alone.  The timer fires however often the host refreshes:
\* only the bounds on what is in flight can delay it.
TreeFairness ==
  /\ \A r \in Requests : WF_vars(QueryReads(r)) /\ WF_vars(Reconcile(r))
  /\ WF_vars(StreamOpens) /\ WF_vars(FrameArrives)
  /\ WF_vars(StreamEnds) /\ WF_vars(StreamAborted) /\ WF_vars(BackoffEnds)
  /\ SF_treeVars(\E l \in Loads, r \in Others : Tick(l, r))
  /\ \A l \in Loads : WF_treeVars(TreeReads(l)) /\ WF_treeVars(Loaded(l))

TreeSpec == TreeInit /\ [][TreeNext]_treeVars /\ TreeFairness
-----------------------------------------------------------------------------
\* Properties.

\* The tree of a panel that is not destroyed comes to count all that is stored,
\* whether the panel is live or polls, and although a late answer can take
\* events back and a failed load empties it (loadTree, the timer of mount).
TreeConverges == <>[]~destroyed => <>[](tree = Cardinality(stored))
=============================================================================
