------------------------------ MODULE Workshop ------------------------------
(***************************************************************************)
(* Workshop execution (apps/workshop): work orders created from approved   *)
(* quotations, their service tasks, the technicians assigned to them, and  *)
(* the path through execution, review and completion.                      *)
(*                                                                         *)
(* A service is one transaction that locks the task, then its order, then  *)
(* whatever else it reads; a refused service rolls back.  So a service is  *)
(* one action, guarded by all it checks, the model validation (full_clean) *)
(* of every row it saves included.  Required texts (reasons, completion    *)
(* notes) and the times a service stamps are left out: the form supplies   *)
(* the one and the service itself the other.                               *)
(*                                                                         *)
(* A quotation that has a work order is approved and current for good (no  *)
(* quotation service touches it again), so of what WorkOrder.clean checks  *)
(* only the job's cancellation can fail.                                   *)
(***************************************************************************)
EXTENDS Integers, FiniteSets, WorkOrderStatus

CONSTANTS
  Orders,
  Tasks,            \* the approved service lines, each one task of its order
  TaskOrder,        \* task -> its work order
  Technicians,      \* employees by role (accounts/policy.py)
  Seniors,
  Managers,         \* managers and administrators
  MaxAssignments,   \* bound: rows of the assignment table
  MaxNotes,         \* bound: task notes
  None              \* a NULL foreign key

Users        == Technicians \cup Seniors \cup Managers
Coordinators == Seniors \cup Managers      \* workshop.assign_technician
Assignable   == Technicians \cup Seniors   \* _TECHNICIAN_ROLES

ASSUME WorkshopAssumption ==
  /\ TaskOrder \in [Tasks -> Orders]
  /\ \A o \in Orders : \E t \in Tasks : TaskOrder[t] = o
  /\ MaxAssignments \in Nat
  /\ MaxNotes \in Nat
  /\ None \notin Tasks \cup Users

VARIABLES
  orderStatus,    \* WorkOrder.status, ABSENT before create_work_order
  taskStatus,     \* WorkTask.status
  assignments,    \* the technician-assignment table
  notes,          \* the task notes: who wrote on which task
  userActive,     \* User.is_active
  jobCancelled    \* the order's job card is CANCELLED

workshopVars ==
  <<orderStatus, taskStatus, assignments, notes, userActive, jobCancelled>>

-----------------------------------------------------------------------------
(* Rows *)

AssignmentIds == 1..MaxAssignments

TaskStatuses ==
  {"ABSENT", "PENDING", "ASSIGNED", "IN_PROGRESS", "BLOCKED",
   "AWAITING_REVIEW", "COMPLETED"}

Assignment ==
  [status : {"ABSENT", "ASSIGNED", "IN_PROGRESS", "COMPLETED", "REMOVED"},
   task : Tasks \cup {None}, technician : Users \cup {None}]

NoAssignment == [status |-> "ABSENT", task |-> None, technician |-> None]

\* TechnicianAssignment.is_active: no service but remove_technician clears it.
IsActive(row) == row.status \in {"ASSIGNED", "IN_PROGRESS", "COMPLETED"}

ActiveRows(t) ==
  {a \in AssignmentIds :
     IsActive(assignments[a]) /\ assignments[a].task = t}

TasksOf(o) == {t \in Tasks : TaskOrder[t] = o}

\* Mutant: a removed technician still counts.
StaffedOnce(rows, t) == \E a \in AssignmentIds : rows[a].task = t

Staffed(rows, t) ==
  \E a \in AssignmentIds : IsActive(rows[a]) /\ rows[a].task = t

-----------------------------------------------------------------------------
(* Who may act: a deactivated account has no permission at all *)

Coordinates(u) == userActive[u] /\ u \in Coordinators

AssignedTo(u, t) ==
  \E a \in ActiveRows(t) : assignments[a].technician = u

\* _require_task_access, for an employee who holds the task permission.
MayOperate(u, t) == Coordinates(u) \/ (userActive[u] /\ AssignedTo(u, t))

\* TechnicianAssignment.clean refuses to save a row of an inactive employee.
Savable(a) == userActive[assignments[a].technician]

-----------------------------------------------------------------------------
(* The steps the services share *)

\* WorkOrder.full_clean and save.
SaveOrder(o, new) ==
  /\ ~ jobCancelled[o]
  /\ orderStatus' = [orderStatus EXCEPT ![o] = new]

Readiness(rows, o) ==
  IF \A t \in TasksOf(o) : Staffed(rows, t) THEN "READY" ELSE "PLANNED"

\* _update_work_order_readiness, on the assignments as the service leaves them.
SyncReadiness(o) ==
  LET expected == Readiness(assignments', o)
  IN  \/ orderStatus[o] = expected /\ UNCHANGED orderStatus
      \/ orderStatus[o] # expected /\ SaveOrder(o, expected)

\* Mutant: a task that lost its last technician stays assigned.
SyncTaskUp(t) ==
  taskStatus' = [taskStatus EXCEPT
    ![t] = IF Staffed(assignments', t) THEN "ASSIGNED" ELSE @]

\* _update_task_assignment_state.
SyncTask(t) ==
  taskStatus' = [taskStatus EXCEPT
    ![t] = IF Staffed(assignments', t) THEN "ASSIGNED" ELSE "PENDING"]

\* Mutant: a task already approved no longer counts as submitted.
AllAwaitReview(tasks, o) ==
  \A t \in TasksOf(o) : tasks[t] = "AWAITING_REVIEW"

AllSubmitted(tasks, o) ==
  \A t \in TasksOf(o) : tasks[t] \in {"AWAITING_REVIEW", "COMPLETED"}

\* Mutant: one approved task is enough.
AnyCompleted(tasks, o) == \E t \in TasksOf(o) : tasks[t] = "COMPLETED"

AllCompleted(tasks, o) == \A t \in TasksOf(o) : tasks[t] = "COMPLETED"

\* _move_order_to_review_if_ready, on the tasks as the service leaves them.
MoveToReviewIfReady(o) ==
  LET moves == AllSubmitted(taskStatus', o) /\ orderStatus[o] # "AWAITING_REVIEW"
  IN  \/ moves /\ SaveOrder(o, "AWAITING_REVIEW")
      \/ ~ moves /\ UNCHANGED orderStatus

\* _validate_assignment_window.
InAssignmentWindow(t) ==
  /\ orderStatus[TaskOrder[t]] \in {"PLANNED", "READY"}
  /\ taskStatus[t] \in {"PENDING", "ASSIGNED"}

-----------------------------------------------------------------------------
(* The services *)

CreateWorkOrder(u, o) ==
  /\ userActive[u] /\ u \in Managers
  /\ orderStatus[o] = "ABSENT"
  /\ SaveOrder(o, "PLANNED")
  /\ taskStatus' = [t \in Tasks |->
                      IF TaskOrder[t] = o THEN "PENDING" ELSE taskStatus[t]]
  /\ UNCHANGED <<assignments, notes, userActive, jobCancelled>>

\* The assignment row the next insert gets.
NextAssignment(a) ==
  /\ assignments[a] = NoAssignment
  /\ \A b \in 1..(a - 1) : assignments[b] # NoAssignment

AlreadyAssigned(w, t) == AssignedTo(w, t)

CanAssign(u, w, t, a) ==
  /\ Coordinates(u)
  /\ InAssignmentWindow(t)
  /\ userActive[w] /\ w \in Assignable
  /\ ~ AlreadyAssigned(w, t)
  /\ NextAssignment(a)

AssignTechnician(u, w, t, a) ==
  /\ CanAssign(u, w, t, a)
  /\ assignments' = [assignments EXCEPT
       ![a] = [status |-> "ASSIGNED", task |-> t, technician |-> w]]
  /\ SyncTask(t)
  /\ SyncReadiness(TaskOrder[t])
  /\ UNCHANGED <<notes, userActive, jobCancelled>>

\* Mutant: an assignment can be removed at any point of the task's life.
RemovableAnyTime(a) == assignments[a].status \in {"ASSIGNED", "IN_PROGRESS"}

Removable(a) ==
  /\ assignments[a].status = "ASSIGNED"
  /\ InAssignmentWindow(assignments[a].task)

RemoveTechnician(u, a) ==
  LET t == assignments[a].task IN
  /\ Coordinates(u)
  /\ Removable(a)
  /\ Savable(a)
  /\ assignments' = [assignments EXCEPT ![a].status = "REMOVED"]
  /\ SyncTask(t)
  /\ SyncReadiness(TaskOrder[t])
  /\ UNCHANGED <<notes, userActive, jobCancelled>>

CanStart(u, o) ==
  /\ Coordinates(u)
  /\ orderStatus[o] = "READY"
  /\ \A t \in TasksOf(o) : Staffed(assignments, t)

StartWorkOrder(u, o) ==
  /\ CanStart(u, o)
  /\ SaveOrder(o, "IN_PROGRESS")
  /\ UNCHANGED <<taskStatus, assignments, notes, userActive, jobCancelled>>

HoldWorkOrder(u, o) ==
  /\ Coordinates(u)
  /\ orderStatus[o] = "IN_PROGRESS"
  /\ SaveOrder(o, "ON_HOLD")
  /\ UNCHANGED <<taskStatus, assignments, notes, userActive, jobCancelled>>

CanResume(u, o) == Coordinates(u) /\ orderStatus[o] = "ON_HOLD"

ResumeWorkOrder(u, o) ==
  /\ CanResume(u, o)
  /\ SaveOrder(o, "IN_PROGRESS")
  /\ UNCHANGED <<taskStatus, assignments, notes, userActive, jobCancelled>>

\* Only the actor's own assignment starts; a coordinator who is not on the
\* task starts nobody's.
MarkStarted(u, t) ==
  assignments' = [a \in AssignmentIds |->
    IF a \in ActiveRows(t) /\ assignments[a].technician = u
    THEN [assignments[a] EXCEPT !.status = "IN_PROGRESS"]
    ELSE assignments[a]]

\* Mutant: tasks run whatever the state of the order.
OrderRunsRegardless(t) == orderStatus[TaskOrder[t]] # "ABSENT"

OrderRuns(t) == orderStatus[TaskOrder[t]] = "IN_PROGRESS"

CanStartTask(u, t) ==
  /\ MayOperate(u, t)
  /\ OrderRuns(t)
  /\ taskStatus[t] \in {"ASSIGNED", "BLOCKED"}

StartWorkTask(u, t) ==
  /\ CanStartTask(u, t)
  /\ taskStatus' = [taskStatus EXCEPT ![t] = "IN_PROGRESS"]
  /\ MarkStarted(u, t)
  /\ UNCHANGED <<orderStatus, notes, userActive, jobCancelled>>

BlockWorkTask(u, t) ==
  /\ MayOperate(u, t)
  /\ OrderRuns(t)
  /\ taskStatus[t] = "IN_PROGRESS"
  /\ taskStatus' = [taskStatus EXCEPT ![t] = "BLOCKED"]
  /\ UNCHANGED <<orderStatus, assignments, notes, userActive, jobCancelled>>

CanSubmit(u, t) ==
  /\ MayOperate(u, t)
  /\ OrderRuns(t)
  /\ taskStatus[t] = "IN_PROGRESS"

\* The last task submitted takes the order with it, or is refused with it.
SubmitWorkTaskForReview(u, t) ==
  /\ CanSubmit(u, t)
  /\ taskStatus' = [taskStatus EXCEPT ![t] = "AWAITING_REVIEW"]
  /\ MoveToReviewIfReady(TaskOrder[t])
  /\ UNCHANGED <<assignments, notes, userActive, jobCancelled>>

\* Mutant: only the technicians who started are signed off.
SignedOffStarted(t) ==
  [a \in AssignmentIds |->
     IF a \in ActiveRows(t) /\ assignments[a].status = "IN_PROGRESS"
     THEN [assignments[a] EXCEPT !.status = "COMPLETED"]
     ELSE assignments[a]]

\* Every active assignment of the task is completed, started or not.
SignedOff(t) ==
  [a \in AssignmentIds |->
     IF a \in ActiveRows(t)
     THEN [assignments[a] EXCEPT !.status = "COMPLETED"]
     ELSE assignments[a]]

CanSignOff(u, t) ==
  /\ Coordinates(u)
  /\ orderStatus[TaskOrder[t]] \in {"IN_PROGRESS", "AWAITING_REVIEW"}
  /\ taskStatus[t] = "AWAITING_REVIEW"
  /\ \A a \in ActiveRows(t) : Savable(a)

CompleteWorkTask(u, t) ==
  /\ CanSignOff(u, t)
  /\ taskStatus' = [taskStatus EXCEPT ![t] = "COMPLETED"]
  /\ assignments' = SignedOff(t)
  /\ MoveToReviewIfReady(TaskOrder[t])
  /\ UNCHANGED <<notes, userActive, jobCancelled>>

CanComplete(u, o) ==
  /\ userActive[u] /\ u \in Managers
  /\ orderStatus[o] = "AWAITING_REVIEW"
  /\ AllCompleted(taskStatus, o)

CompleteWorkOrder(u, o) ==
  /\ CanComplete(u, o)
  /\ SaveOrder(o, "COMPLETED")
  /\ UNCHANGED <<taskStatus, assignments, notes, userActive, jobCancelled>>

AddWorkTaskNote(u, t) ==
  /\ taskStatus[t] # "ABSENT"
  /\ MayOperate(u, t)
  /\ Cardinality(notes) < MaxNotes
  /\ notes' = notes \cup {[task |-> t, author |-> u]}
  /\ UNCHANGED <<orderStatus, taskStatus, assignments, userActive, jobCancelled>>

-----------------------------------------------------------------------------
(* The neighbouring applications *)

\* cancel_job_card looks at no work order.
CancelJob(o) ==
  /\ ~ jobCancelled[o]
  /\ jobCancelled' = [jobCancelled EXCEPT ![o] = TRUE]
  /\ UNCHANGED <<orderStatus, taskStatus, assignments, notes, userActive>>

\* An administrator deactivates an employee's account, or reactivates it.
ToggleUser(u) ==
  /\ userActive' = [userActive EXCEPT ![u] = ~ @]
  /\ UNCHANGED <<orderStatus, taskStatus, assignments, notes, jobCancelled>>

-----------------------------------------------------------------------------

Init ==
  /\ orderStatus = [o \in Orders |-> "ABSENT"]
  /\ taskStatus = [t \in Tasks |-> "ABSENT"]
  /\ assignments = [a \in AssignmentIds |-> NoAssignment]
  /\ notes = {}
  /\ userActive = [u \in Users |-> TRUE]
  /\ jobCancelled = [o \in Orders |-> FALSE]

\* What takes an order further, as opposed to holding it up.
Advances(o) ==
  \/ \E u \in Users :
       \/ StartWorkOrder(u, o)
       \/ ResumeWorkOrder(u, o)
       \/ CompleteWorkOrder(u, o)
  \/ \E u \in Users, t \in TasksOf(o) :
       \/ StartWorkTask(u, t)
       \/ SubmitWorkTaskForReview(u, t)
       \/ CompleteWorkTask(u, t)
  \/ \E u, w \in Users, t \in TasksOf(o), a \in AssignmentIds :
       AssignTechnician(u, w, t, a)

Next ==
  \/ \E o \in Orders : Advances(o)
  \/ \E u \in Users, o \in Orders : CreateWorkOrder(u, o) \/ HoldWorkOrder(u, o)
  \/ \E u \in Users, a \in AssignmentIds : RemoveTechnician(u, a)
  \/ \E u \in Users, t \in Tasks : BlockWorkTask(u, t) \/ AddWorkTaskNote(u, t)
  \/ \E o \in Orders : CancelJob(o)
  \/ \E u \in Users : ToggleUser(u)

Spec == Init /\ [][Next]_workshopVars

-----------------------------------------------------------------------------
(* Properties *)

Life == INSTANCE WorkOrderLife WITH status <- orderStatus

\* Every column holds one of its choices, and assignments name real rows.
TypeOK ==
  /\ orderStatus \in [Orders -> OrderStatuses \cup {"ABSENT"}]
  /\ taskStatus \in [Tasks -> TaskStatuses]
  /\ assignments \in [AssignmentIds -> Assignment]
  /\ notes \subseteq [task : Tasks, author : Users]
  /\ userActive \in [Users -> BOOLEAN]
  /\ jobCancelled \in [Orders -> BOOLEAN]

\* Before execution starts, however technicians come and go, the order is
\* ready exactly when each of its tasks has a technician, and each task says
\* whether it has one.
ReadinessInSync ==
  \A o \in Orders : orderStatus[o] \in {"PLANNED", "READY"} =>
    /\ orderStatus[o] = "READY" <=>
         \A t \in TasksOf(o) : ActiveRows(t) # {}
    /\ \A t \in TasksOf(o) :
         taskStatus[t] = IF ActiveRows(t) # {} THEN "ASSIGNED" ELSE "PENDING"

\* Once execution has started no task loses its last technician.
StartedWorkStaffed ==
  \A t \in Tasks :
    orderStatus[TaskOrder[t]] \notin {"ABSENT", "PLANNED", "READY"}
      => ActiveRows(t) # {} /\ taskStatus[t] \notin {"ABSENT", "PENDING"}

\* The order's status says how far its tasks are: under review exactly when
\* all have been submitted, completed only when all have been approved.
ReviewInSync ==
  \A o \in Orders :
    /\ orderStatus[o] \in {"IN_PROGRESS", "ON_HOLD"} =>
         \E t \in TasksOf(o) :
           taskStatus[t] \in {"ASSIGNED", "IN_PROGRESS", "BLOCKED"}
    /\ orderStatus[o] = "AWAITING_REVIEW" =>
         \A t \in TasksOf(o) : taskStatus[t] \in {"AWAITING_REVIEW", "COMPLETED"}
    /\ orderStatus[o] = "COMPLETED" =>
         \A t \in TasksOf(o) : taskStatus[t] = "COMPLETED"

\* A technician's assignment is signed off exactly when the task is.
SignedOffTogether ==
  \A a \in AssignmentIds : IsActive(assignments[a]) =>
    (assignments[a].status = "COMPLETED"
       <=> taskStatus[assignments[a].task] = "COMPLETED")

\* A technician is on a task at most once, whatever was removed before
\* (work_unique_active_assignment).
OneActiveAssignment ==
  \A a, b \in AssignmentIds :
    /\ IsActive(assignments[a]) /\ IsActive(assignments[b])
    /\ assignments[a].task = assignments[b].task
    /\ assignments[a].technician = assignments[b].technician
    => a = b

\* Work happens only while the order runs: nothing changes a task of an order
\* that is on hold or completed.
HeldOrdersStandStill ==
  [][\A t \in Tasks :
       orderStatus[TaskOrder[t]] \in {"ON_HOLD", "COMPLETED"} =>
         /\ taskStatus'[t] = taskStatus[t]
         /\ \A a \in ActiveRows(t) : assignments'[a] = assignments[a]]_workshopVars

\* The guards of Advances.  An order whose job stands can be saved, so they
\* are all that a step needs.
CanAdvance(o) ==
  \/ \E u \in Users : CanStart(u, o) \/ CanResume(u, o) \/ CanComplete(u, o)
  \/ \E u \in Users, t \in TasksOf(o) :
       CanStartTask(u, t) \/ CanSubmit(u, t) \/ CanSignOff(u, t)
  \/ \E u, w \in Users, t \in TasksOf(o), a \in AssignmentIds :
       CanAssign(u, w, t, a)

\* While the job stands and nobody's account is deactivated, no reachable
\* state is a dead end: some service can always take an unfinished order
\* further (unless it waits for a technician and the bounded table is full).
NoDeadEnd ==
  \A o \in Orders :
    /\ orderStatus[o] \notin {"ABSENT", "COMPLETED"}
    /\ ~ jobCancelled[o]
    /\ \A u \in Users : userActive[u]
    /\ orderStatus[o] = "PLANNED"
         => \E a \in AssignmentIds : assignments[a] = NoAssignment
    => CanAdvance(o)

\* Every work order lives the life the other applications rely on.
ImplementsWorkOrderLife == Life!LifeSpec

=============================================================================
