-------------------------------- MODULE Pipelines --------------------------------
(***************************************************************************)
(* A pipeline of the PipelineManager (pipelining.go): calls of AddOperation *)
(* that check it before they lock it, ExecutePipeline, which orders the     *)
(* operations and runs them one after the other, and CancelPipeline.  The   *)
(* sort is depth first and recursive: its calls of visit that have not      *)
(* returned are a stack, the innermost first.                               *)
(***************************************************************************)
EXTENDS Integers, Sequences, FiniteSets, SequencesExt

CONSTANTS
  Operations,        \* each added by a call of its own
  ResultIDs,         \* export ids; NoID is zero
  NoID,
  MaxPipelineDepth

ASSUME PipelinesAssumption == NoID \notin ResultIDs /\ MaxPipelineDepth \in Nat

VARIABLES
  table,         \* the pipeline is in the manager's table
  status,
  cancelled,     \* its context is done
  operations,    \* of the pipeline, in order
  resultID, dependencies, \* per operation; ids, in any order
  optimize,      \* EnableDependencyOptimization
  adding,        \* per operation: its call of AddOperation
  executing,     \* ExecutePipeline: where it is and what it has left to run
  list,          \* the operations as ExecutePipeline read them
  stack,         \* of topologicalSort: per call of visit its operation and the dependents left
  visiting, visited, result,
  begun,         \* the operations begun, in order
  after          \* operations begun after the pipeline was cancelled

pipeVars == <<table, status, cancelled, operations, resultID, dependencies, optimize, adding,
              executing, list, stack, visiting, visited, result, begun, after>>
sortVars == <<list, stack, visiting, visited, result>>
inputs == <<resultID, dependencies, optimize>>

PipeInit ==
  /\ table = FALSE /\ status = "pending" /\ cancelled = FALSE
  /\ operations = <<>>
  /\ resultID \in [Operations -> ResultIDs \cup {NoID}]
  /\ dependencies \in [Operations -> SUBSET ResultIDs]
  /\ optimize \in BOOLEAN
  /\ adding = [o \in Operations |-> "new"]
  /\ executing = [pc |-> "no", todo |-> <<>>]
  /\ list = <<>> /\ stack = <<>> /\ visiting = {} /\ visited = {} /\ result = <<>>
  /\ begun = <<>> /\ after = 0

-----------------------------------------------------------------------------
(* The order of the operations.                                            *)

\* opsByResult: of two operations with one result id the last one counts.
ByResult(ops, id) ==
  LET at == {i \in DOMAIN ops : resultID[ops[i]] = id} IN
  IF at = {} THEN {} ELSE {ops[CHOOSE i \in at : \A j \in at : j <= i]}

\* buildDependencyGraph: from an operation to those that depend on it.
DependencyGraph(ops) ==
  {edge \in Range(ops) \X Range(ops) : \E id \in dependencies[edge[2]] : edge[1] \in ByResult(ops, id)}

Dependents(o) == {e \in Range(list) : <<o, e>> \in DependencyGraph(list)}

\* An operation of those left, the one that comes first in the list.
IsFirst(o, left) ==
  \E i \in DOMAIN list : list[i] = o /\ \A j \in 1..(i - 1) : list[j] \notin left

\* visit is called, by the loop over the map or by another visit.
Enter(o, calls) ==
  /\ stack' = <<[op |-> o, left |-> Dependents(o)]>> \o calls
  /\ visiting' = visiting \cup {o}

-----------------------------------------------------------------------------
CreatePipeline ==
  /\ ~table
  /\ table' = TRUE
  /\ UNCHANGED <<status, cancelled, operations, inputs, adding, executing, sortVars, begun, after>>

\* AddOperation checks the status and the depth ...
AddChecks(o) ==
  /\ table /\ adding[o] = "new"
  /\ adding' = [adding EXCEPT ![o] =
       IF status = "pending" /\ Len(operations) < MaxPipelineDepth THEN "checked" ELSE "refused"]
  /\ UNCHANGED <<table, status, cancelled, operations, inputs, executing, sortVars, begun, after>>

\* ... and appends later, under the lock.
AddAppends(o) ==
  /\ adding[o] = "checked"
  /\ adding' = [adding EXCEPT ![o] = "added"]
  /\ operations' = Append(operations, o)
  /\ UNCHANGED <<table, status, cancelled, inputs, executing, sortVars, begun, after>>

ExecuteStarts ==
  /\ table /\ executing.pc = "no" /\ status = "pending"
  /\ status' = "running"
  /\ executing' = [executing EXCEPT !.pc = "started"]
  /\ UNCHANGED <<table, cancelled, operations, inputs, adding, sortVars, begun, after>>

\* The list is read without the lock, and its dependency graph built from it.
ExecuteReads ==
  /\ executing.pc = "started"
  /\ list' = operations
  /\ executing' = IF optimize THEN [executing EXCEPT !.pc = "sort"] ELSE [pc |-> "loop", todo |-> operations]
  /\ UNCHANGED <<table, status, cancelled, operations, inputs, adding, stack, visiting, visited, result, begun, after>>

\* topologicalSort starts from the operations in the order the map yields them ...
SortVisits ==
  /\ executing.pc = "sort" /\ stack = <<>>
  /\ \E o \in Range(list) \ visited : Enter(o, <<>>)
  /\ UNCHANGED <<table, status, cancelled, operations, inputs, adding, executing, list, visited, result, begun, after>>

\* ... visit looks at each dependent in turn: one that is being visited closes
\* a cycle, one that has been visited is passed over ...
VisitDependent ==
  /\ executing.pc = "sort" /\ stack # <<>>
  /\ \E o \in Head(stack).left :
       LET calls == <<[Head(stack) EXCEPT !.left = @ \ {o}]>> \o Tail(stack) IN
       /\ IsFirst(o, Head(stack).left)
       /\ \/ /\ o \in visiting
             /\ executing' = [executing EXCEPT !.pc = "cycle"]
             /\ UNCHANGED <<stack, visiting>>
          \/ /\ o \notin visiting /\ o \in visited
             /\ stack' = calls
             /\ UNCHANGED <<executing, visiting>>
          \/ /\ o \notin visiting /\ o \notin visited
             /\ Enter(o, calls)
             /\ UNCHANGED executing
  /\ UNCHANGED <<table, status, cancelled, operations, inputs, adding, list, visited, result, begun, after>>

\* What a visit that returns leaves in every case.
Leave(o) ==
  /\ stack' = Tail(stack)
  /\ visiting' = visiting \ {o}
  /\ visited' = visited \cup {o}
  /\ UNCHANGED <<table, status, cancelled, operations, inputs, adding, executing, list, begun, after>>

\* Mutant: the operation goes behind what has been sorted before it.
VisitAppends ==
  /\ executing.pc = "sort" /\ stack # <<>> /\ Head(stack).left = {}
  /\ result' = Append(result, Head(stack).op)
  /\ Leave(Head(stack).op)

\* ... and puts its operation in front of the result once all its dependents are in it.
VisitReturns ==
  /\ executing.pc = "sort" /\ stack # <<>> /\ Head(stack).left = {}
  /\ result' = <<Head(stack).op>> \o result
  /\ Leave(Head(stack).op)

SortReturns ==
  /\ executing.pc = "sort" /\ stack = <<>> /\ Range(list) \subseteq visited
  /\ executing' = [pc |-> "loop", todo |-> result]
  /\ UNCHANGED <<table, status, cancelled, operations, inputs, adding, sortVars, begun, after>>

\* Mutant: the context is not looked at between two operations.
ExecuteBlindly ==
  /\ executing.pc = "loop"
  /\ executing' = [executing EXCEPT !.pc = IF executing.todo = <<>> THEN "complete" ELSE "operation"]
  /\ UNCHANGED <<table, status, cancelled, operations, inputs, adding, sortVars, begun, after>>

\* Before each operation the context is looked at.
ExecuteChecks ==
  /\ executing.pc = "loop"
  /\ executing' = [executing EXCEPT !.pc =
       IF executing.todo = <<>> THEN "complete" ELSE IF cancelled THEN "fail" ELSE "operation"]
  /\ UNCHANGED <<table, status, cancelled, operations, inputs, adding, sortVars, begun, after>>

\* executeOperation: the call is made, or fails; it is not awaited.
ExecuteOperation ==
  /\ executing.pc = "operation"
  /\ begun' = Append(begun, Head(executing.todo))
  /\ after' = IF cancelled THEN after + 1 ELSE after
  /\ executing' \in {[pc |-> "loop", todo |-> Tail(executing.todo)], [pc |-> "fail", todo |-> <<>>]}
  /\ UNCHANGED <<table, status, cancelled, operations, inputs, adding, sortVars>>

\* The last status is written whatever CancelPipeline wrote before.
ExecuteEnds ==
  /\ executing.pc \in {"complete", "cycle", "fail"}
  /\ status' = IF executing.pc = "complete" THEN "completed" ELSE "failed"
  /\ executing' = [executing EXCEPT !.pc = IF @ = "cycle" THEN "returnedCycle" ELSE "returned"]
  /\ UNCHANGED <<table, cancelled, operations, inputs, adding, sortVars, begun, after>>

CancelPipeline ==
  /\ table /\ status \notin {"completed", "failed"}
  /\ status' = "cancelled"
  /\ cancelled' = TRUE
  /\ UNCHANGED <<table, operations, inputs, adding, executing, sortVars, begun, after>>

PipeNext ==
  \/ CreatePipeline \/ ExecuteStarts \/ ExecuteReads \/ SortVisits \/ VisitDependent \/ VisitReturns
  \/ SortReturns \/ ExecuteChecks \/ ExecuteOperation \/ ExecuteEnds \/ CancelPipeline
  \/ \E o \in Operations : AddChecks(o) \/ AddAppends(o)

PipeSpec == PipeInit /\ [][PipeNext]_pipeVars

-----------------------------------------------------------------------------
(* Properties.                                                             *)

\* An order of the operations that were read, in which every dependency comes first.
Acyclic(graph) ==
  \E rank \in [Range(list) -> 1..Len(list)] : \A edge \in graph : rank[edge[1]] < rank[edge[2]]

\* An operation is begun after every operation of the pipeline that it depends
\* on, whatever the order the sort starts from, and the sort gives up exactly
\* when the dependencies form a cycle (pipelining.go:259-343).
DependenciesFirst ==
  optimize =>
    LET graph == DependencyGraph(list) IN
    /\ \A i \in DOMAIN begun : \A d \in Operations :
         <<d, begun[i]>> \in graph => \E j \in 1..(i - 1) : begun[j] = d
    /\ executing.pc \in {"cycle", "returnedCycle"} => ~Acyclic(graph)
    /\ executing.pc \notin {"no", "started", "sort", "cycle", "returnedCycle"} => Acyclic(graph)

\* After a cancel at most the operation that had passed the check is begun; and
\* a completed pipeline has begun every operation that was in the list when it
\* was read (pipelining.go:224-256, 354-371, 448-469).
CancelStops ==
  /\ after <= 1
  /\ status = "completed" => Range(begun) = Range(list)
=============================================================================
