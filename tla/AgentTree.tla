----------------------------- MODULE AgentTree ------------------------------
(***************************************************************************)
(* Agent trees (agent_tree.py): the rows of a tenant's trees, edited by    *)
(* requests that run their SQL in autocommit, and the runner that executes *)
(* a snapshot of one tree.  The root runs in the thread of the request;    *)
(* every other node is a task of the runner's own thread pool, and a task  *)
(* with children keeps its worker while it waits for them.                 *)
(*                                                                         *)
(* The cancel branches of the runner are left out: POST /cancel makes a    *)
(* runner of its own, whose table of cancel events is empty, so the event  *)
(* of a running tree is never set.  Edits are left out while a tree runs:  *)
(* the runner works on the rows it loaded; and a run starts between two    *)
(* deletions, as the rows a half-done one shows can be written without it. *)
(***************************************************************************)
EXTENDS Integers, FiniteSets

CONSTANTS
  Nodes,        \* ids of agent_nodes rows
  Trees,        \* agent_trees: of each, the ids of its rows
  NoNode,       \* no parent
  TreeWorkers   \* max_parallel

ASSUME TreeAssumption ==
  /\ IsFiniteSet(Nodes) /\ NoNode \notin Nodes /\ TreeWorkers \in Nat \ {0}
  /\ Trees \subseteq SUBSET Nodes
  /\ \A n \in Nodes : \E T \in Trees : n \in T
  /\ \A T, U \in Trees : T \cap U # {} => T = U

VARIABLES
  nodes,        \* rows of agent_nodes
  parent,       \* parent_id, NoNode where there is no row
  deletion,     \* a DELETE request between its statements: [at, node, up]
  moved,        \* history: rows put below deletion.node after its children had moved
  run,          \* "idle", "running" or "ended"
  root,         \* the node the runner starts from
  kids,         \* the children of each node in the snapshot
  task,         \* what has become of each node: "none", "queued", "running",
                \* "waiting", "done"
  again         \* workers held by further visits of the nodes on the root's cycle

rowVars == <<nodes, parent, deletion, moved>>
runVars == <<run, root, kids, task, again>>
treeVars == <<rowVars, runVars>>

NoDeletion == [at |-> "none", node |-> NoNode, up |-> NoNode]

TreeOf(n) == CHOOSE T \in Trees : n \in T

Children(n) == {m \in nodes : parent[m] = n}   \* of any tree: the foreign key asks for a row
TreeChildren(n) == Children(n) \cap TreeOf(n)

\* n and everything that f, a function from a node to the next ones, leads to from it.
Closed(f, S) == \A m \in S : f[m] \subseteq S
ReachFrom(f, n) == {m \in Nodes : \A S \in SUBSET Nodes : n \in S /\ Closed(f, S) => m \in S}

ChildRows == [m \in Nodes |-> Children(m)]
Below(n) == ReachFrom(ChildRows, n)   \* ON DELETE CASCADE
OnCycle(f, n) == \E m \in f[n] : n \in ReachFrom(f, m)

TreeTypeOK ==
  /\ nodes \subseteq Nodes
  /\ parent \in [Nodes -> nodes \cup {NoNode}]   \* the foreign key of parent_id
  /\ deletion \in [at : {"none", "read", "moved"}, node : Nodes \cup {NoNode},
                   up : Nodes \cup {NoNode}]
  /\ moved \subseteq nodes
  /\ run \in {"idle", "running", "ended"}
  /\ root \in Nodes \cup {NoNode}
  /\ kids \in [Nodes -> SUBSET Nodes]
  /\ task \in [Nodes -> {"none", "queued", "running", "waiting", "done"}]
  /\ again \in 0..TreeWorkers

TreeInit ==
  /\ nodes = {} /\ parent = [n \in Nodes |-> NoNode]
  /\ deletion = NoDeletion /\ moved = {}
  /\ run = "idle" /\ root = NoNode
  /\ kids = [n \in Nodes |-> {}]
  /\ task = [n \in Nodes |-> "none"] /\ again = 0

(***************************************************************************)
(* The requests that edit rows.  A new row has a new id, and a parent, if  *)
(* any, that is a node of its tree (_verify_node); an update asks of the   *)
(* new parent no more than the foreign key does, that the row exists.      *)
(***************************************************************************)
Attach(n, p) ==
  /\ p \in nodes \cup {NoNode}
  /\ nodes' = nodes \cup {n}
  /\ parent' = [parent EXCEPT ![n] = p]
  /\ moved' = IF deletion.at = "moved" /\ p = deletion.node THEN moved \cup {n} ELSE moved \ {n}

CreateNode(n, p) ==
  /\ run = "idle" /\ n \notin nodes \cup {deletion.node, deletion.up}
  /\ p \in TreeOf(n) \cup {NoNode}
  /\ Attach(n, p)
  /\ UNCHANGED <<deletion, runVars>>

\* update_agent_node verifies the node, not its new parent: that may be below it, or
\* in another tree.
UpdateNode(n, p) ==
  /\ run = "idle" /\ n \in nodes /\ p \in nodes \cup {NoNode}
  /\ Attach(n, p)
  /\ UNCHANGED <<deletion, runVars>>

\* Mutant: the children of removed rows keep their parent_id.
RemovesOnly(gone) ==
  /\ nodes' = nodes \ gone
  /\ UNCHANGED parent

\* A DELETE of rows with everything the foreign key cascades to.
Removes(gone) ==
  /\ nodes' = nodes \ gone
  /\ parent' = [n \in Nodes |-> IF n \in gone THEN NoNode ELSE parent[n]]

(***************************************************************************)
(* delete_agent_node: three statements.  The row's parent, its children of *)
(* this tree moved up to it (an error, by the foreign key, if that parent  *)
(* is gone), then the row with whatever is below it by now, of any tree.   *)
(***************************************************************************)
DeleteReads(n) ==
  /\ run = "idle" /\ deletion.at = "none" /\ n \in nodes
  /\ deletion' = [at |-> "read", node |-> n, up |-> parent[n]]
  /\ moved' = {}
  /\ UNCHANGED <<nodes, parent, runVars>>

\* Mutant: the children are not moved.
DeleteLeavesChildren ==
  /\ run = "idle" /\ deletion.at = "read"
  /\ deletion' = [deletion EXCEPT !.at = "moved"]
  /\ UNCHANGED <<nodes, parent, moved, runVars>>

DeleteMoves ==
  LET children == TreeChildren(deletion.node)
      refused == children # {} /\ deletion.up \notin nodes \cup {NoNode}
  IN  /\ run = "idle" /\ deletion.at = "read"
      /\ IF refused
         THEN deletion' = NoDeletion /\ UNCHANGED parent
         ELSE /\ deletion' = [deletion EXCEPT !.at = "moved"]
              /\ parent' = [n \in Nodes |-> IF n \in children THEN deletion.up ELSE parent[n]]
      /\ UNCHANGED <<nodes, moved, runVars>>

DeleteRemoves ==
  /\ run = "idle" /\ deletion.at = "moved"
  /\ IF deletion.node \in nodes THEN Removes(Below(deletion.node)) ELSE UNCHANGED <<nodes, parent>>
  /\ deletion' = NoDeletion
  /\ moved' = {}
  /\ UNCHANGED runVars

\* delete_agent_tree, with what hangs from its rows; the model goes on with a new tree.
DeleteTree(T) ==
  LET gone == UNION {Below(n) : n \in nodes \cap T}
  IN  /\ run = "idle" /\ nodes \cap T # {}
      /\ Removes(gone)
      /\ moved' = moved \ gone
      /\ UNCHANGED <<deletion, runVars>>

(***************************************************************************)
(* run_tree: the snapshot, and _build_tree's root, a node without parent   *)
(* (the last by position), or else the first node.  A node whose parent is *)
(* a row of another tree is nobody's child and no root.                    *)
(***************************************************************************)
RootChoices(T) ==
  LET rootless == {n \in nodes \cap T : parent[n] = NoNode}
  IN  IF rootless # {} THEN rootless ELSE nodes \cap T

RunTree(T) ==
  /\ run = "idle" /\ deletion.at = "none" /\ nodes \cap T # {}
  /\ run' = "running"
  /\ kids' = [n \in Nodes |-> IF n \in T THEN TreeChildren(n) ELSE {}]
  /\ \E r \in RootChoices(T) :
       /\ root' = r
       /\ task' = [n \in Nodes |->
            IF n = r THEN IF TreeChildren(r) = {} THEN "running" ELSE "waiting"
            ELSE IF n \in TreeChildren(r) THEN "queued" ELSE "none"]
  /\ UNCHANGED <<rowVars, again>>

Busy == {n \in Nodes \ {root} : task[n] \in {"running", "waiting"}}

Starts(n) ==
  /\ run = "running" /\ task[n] = "queued"
  /\ task' = [m \in Nodes |-> IF m = n THEN IF kids[n] = {} THEN "running" ELSE "waiting"
                              ELSE IF m \in kids[n] \ {root} THEN "queued" ELSE task[m]]
  /\ UNCHANGED <<rowVars, run, root, kids, again>>

\* Mutant: a worker short.
StartTaskLate(n) == Starts(n) /\ Cardinality(Busy) + again < TreeWorkers - 1

(***************************************************************************)
(* _execute_node on a free worker: a leaf calls the model, an inner node   *)
(* submits its children and waits for them.                                *)
(***************************************************************************)
StartTask(n) == Starts(n) /\ Cardinality(Busy) + again < TreeWorkers

(***************************************************************************)
(* Below a root that is on a cycle of parents the root is submitted again, *)
(* and so are the nodes from it back to itself: each visit waits for the   *)
(* next with a worker of its own, until there is none.  Further visits of  *)
(* nodes off the cycle, which hold a worker for a while, are left out.     *)
(***************************************************************************)
Revisit ==
  /\ run = "running" /\ \E n \in Nodes : task[n] = "waiting" /\ root \in kids[n]
  /\ Cardinality(Busy) + again < TreeWorkers
  /\ again' = again + 1
  /\ UNCHANGED <<rowVars, run, root, kids, task>>

\* A model call that fails is a result too (NodeResult.error).
LeafAnswers(n) ==
  /\ run = "running" /\ task[n] = "running"
  /\ task' = [task EXCEPT ![n] = "done"]
  /\ UNCHANGED <<rowVars, run, root, kids, again>>

\* Mutant: the first result is taken for all of them.
AggregateFirst(n) ==
  /\ run = "running" /\ task[n] = "waiting"
  /\ \E m \in kids[n] : task[m] = "done"
  /\ task' = [task EXCEPT ![n] = "done"]
  /\ UNCHANGED <<rowVars, run, root, kids, again>>

\* as_completed has given every child's result: _aggregate_results.  On a cycle the
\* result awaited of the root is a later visit's, which does not come before its own.
Aggregate(n) ==
  /\ run = "running" /\ task[n] = "waiting"
  /\ \A m \in kids[n] : task[m] = "done"
  /\ task' = [task EXCEPT ![n] = "done"]
  /\ UNCHANGED <<rowVars, run, root, kids, again>>

TreeDone ==
  /\ run = "running" /\ task[root] = "done"
  /\ run' = "ended"
  /\ UNCHANGED <<rowVars, root, kids, task, again>>

\* The next request, of a runner of its own, finds the rows as they are.  After a run
\* that cannot end the model stops there: its request waits for good.
NextRequest ==
  /\ run = "ended"
  /\ run' = "idle" /\ root' = NoNode
  /\ kids' = [n \in Nodes |-> {}]
  /\ task' = [n \in Nodes |-> "none"] /\ again' = 0
  /\ UNCHANGED rowVars

Edit ==
  \/ \E n \in Nodes, p \in Nodes \cup {NoNode} : CreateNode(n, p) \/ UpdateNode(n, p)
  \/ \E n \in Nodes : DeleteReads(n)
  \/ DeleteMoves \/ DeleteRemoves
  \/ \E T \in Trees : DeleteTree(T)

Execute ==
  \/ \E n \in Nodes : StartTask(n) \/ LeafAnswers(n) \/ Aggregate(n)
  \/ Revisit \/ TreeDone

TreeNext == Edit \/ (\E T \in Trees : RunTree(T)) \/ Execute \/ NextRequest

\* The pool's threads run, and model calls return or time out.
TreeFairness == WF_treeVars(Execute)

TreeSpec == TreeInit /\ [][TreeNext]_treeVars /\ TreeFairness

-----------------------------------------------------------------------------
(* A node's reply is put together from the results of all its children,    *)
(* however the pool orders them (as_completed in _execute_node).           *)
AggregatesComplete ==
  \A n \in Nodes : task[n] = "done" => \A m \in kids[n] : task[m] = "done"

(* A run ends as long as the inner nodes below the root leave a worker     *)
(* free and the root is not below itself.  Otherwise the pool can fill up  *)
(* with visits that wait for one no worker is left to run.                 *)
InnerTasks == {n \in Nodes \ {root} : kids[n] # {}}

TreeEnds ==
  run = "running" /\ ~OnCycle(kids, root) /\ Cardinality(InnerTasks) < TreeWorkers ~> run = "ended"

(* delete_agent_node answers "children_reparented_to", and so it is of the *)
(* children the node had in its tree when they were moved: what goes with  *)
(* the node was put below it afterwards, or belongs to another tree, or    *)
(* hangs from such a row; or else the node had been made its own parent.   *)
DeleteKeepsOwnChildren ==
  [][DeleteRemoves /\ deletion.up # deletion.node =>
       LET foreign == Children(deletion.node) \ TreeOf(deletion.node)
       IN  nodes \ nodes' \subseteq
             {deletion.node} \cup UNION {Below(m) : m \in moved \cup foreign}]_treeVars
=============================================================================
