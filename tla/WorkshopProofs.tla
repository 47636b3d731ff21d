--------------------------- MODULE WorkshopProofs ---------------------------
(***************************************************************************)
(* Proofs about the workshop, for any orders, tasks and employees.         *)
(*                                                                         *)
(* The properties of Workshop hold each other up: an order is started with *)
(* every task staffed because its readiness is in sync until then, a task  *)
(* submitted is not forgotten because started work is staffed, and so on.  *)
(* With the types of the tables and one fact about orders that do not yet  *)
(* exist they are inductive together.                                      *)
(***************************************************************************)
EXTENDS WorkshopPages, ArithmeticProofs

\* Nobody is assigned to the tasks of an order before it is created.
NobodyAhead ==
  \A t \in Tasks :
    orderStatus[TaskOrder[t]] = "ABSENT" => ~ Staffed(assignments, t)

\* Assignments that are active are somebody's, to a task.
RowsNameTasks ==
  \A a \in AssignmentIds : IsActive(assignments[a]) =>
    assignments[a].task \in Tasks /\ assignments[a].technician \in Users

IInv ==
  /\ TypeOK
  /\ RowsNameTasks
  /\ NobodyAhead
  /\ ReadinessInSync
  /\ StartedWorkStaffed
  /\ ReviewInSync
  /\ SignedOffTogether
  /\ OneActiveAssignment

-----------------------------------------------------------------------------
(* Tasks and their orders, assignments and their tasks *)

LEMMA TasksOfOrders ==
  /\ \A o \in Orders : TasksOf(o) # {}
  /\ \A t \in Tasks : TaskOrder[t] \in Orders /\ t \in TasksOf(TaskOrder[t])
  /\ \A o \in Orders : \A t \in TasksOf(o) : t \in Tasks /\ TaskOrder[t] = o
  BY WorkshopAssumption DEF TasksOf

LEMMA RowsOfTask == \A t \in Tasks : Staffed(assignments, t) <=> ActiveRows(t) # {}
  BY DEF Staffed, ActiveRows

LEMMA InitInv == Init => IInv
<1> SUFFICES ASSUME Init PROVE IInv
  OBVIOUS
<1>1. \A a \in AssignmentIds : assignments[a] = NoAssignment /\ ~ IsActive(assignments[a])
  BY DEF Init, NoAssignment, IsActive
<1>2. TypeOK
  BY DEF Init, TypeOK, TaskStatuses, Assignment, NoAssignment
<1>3. QED
  BY <1>1, <1>2, TasksOfOrders
     DEF Init, IInv, RowsNameTasks, NobodyAhead, ReadinessInSync, StartedWorkStaffed, ReviewInSync,
         SignedOffTogether, OneActiveAssignment, Staffed

-----------------------------------------------------------------------------
(* Steps that move an order and leave tasks and assignments alone *)

\* What IInv says of one order, given tasks and assignments.
LEMMA OrderStep ==
  ASSUME IInv, NEW o \in Orders, NEW new \in {"IN_PROGRESS", "ON_HOLD", "COMPLETED"},
         orderStatus' = [orderStatus EXCEPT ![o] = new],
         UNCHANGED <<taskStatus, assignments, notes, userActive, jobCancelled>>,
         \/ orderStatus[o] = "READY" /\ new = "IN_PROGRESS"
         \/ orderStatus[o] \in {"IN_PROGRESS", "ON_HOLD"} /\ new # "COMPLETED"
         \/ new = "COMPLETED" /\ AllCompleted(taskStatus, o)
              /\ orderStatus[o] = "AWAITING_REVIEW"
  PROVE  IInv'
<1>1. TypeOK'
  BY DEF IInv, TypeOK, OrderStatuses
<1>2. /\ orderStatus'[o] = new
      /\ \A x \in Orders \ {o} : orderStatus'[x] = orderStatus[x]
  BY DEF IInv, TypeOK
<1>3. \A t \in Tasks : ActiveRows(t)' = ActiveRows(t)
  BY DEF ActiveRows
<1>4. NobodyAhead'
  BY <1>2, TasksOfOrders DEF IInv, NobodyAhead
<1>5. ReadinessInSync'
  BY <1>2, <1>3, TasksOfOrders DEF IInv, ReadinessInSync
<1>6. StartedWorkStaffed'
  BY <1>2, <1>3, TasksOfOrders DEF IInv, StartedWorkStaffed, ReadinessInSync
<1>7. ReviewInSync'
  BY <1>2, <1>3, TasksOfOrders DEF IInv, ReviewInSync, ReadinessInSync, AllCompleted
<1>8. SignedOffTogether' /\ OneActiveAssignment' /\ RowsNameTasks'
  BY DEF IInv, SignedOffTogether, OneActiveAssignment, RowsNameTasks
<1>9. QED
  BY <1>1, <1>4, <1>5, <1>6, <1>7, <1>8 DEF IInv

LEMMA OrderSteps ==
  ASSUME IInv, NEW u \in Users, NEW o \in Orders,
         \/ StartWorkOrder(u, o) \/ HoldWorkOrder(u, o)
         \/ ResumeWorkOrder(u, o) \/ CompleteWorkOrder(u, o)
  PROVE  IInv'
<1>1. CASE StartWorkOrder(u, o) \/ ResumeWorkOrder(u, o)
  BY <1>1, OrderStep DEF StartWorkOrder, CanStart, ResumeWorkOrder, CanResume, SaveOrder
<1>2. CASE HoldWorkOrder(u, o)
  BY <1>2, OrderStep DEF HoldWorkOrder, SaveOrder
<1>3. CASE CompleteWorkOrder(u, o)
  BY <1>3, OrderStep DEF CompleteWorkOrder, CanComplete, SaveOrder
<1>4. QED
  BY <1>1, <1>2, <1>3

-----------------------------------------------------------------------------
(* Creation, and what the neighbours do *)

LEMMA CreateStep ==
  ASSUME IInv, NEW u \in Users, NEW o \in Orders, CreateWorkOrder(u, o)
  PROVE  IInv'
<1>1. /\ orderStatus' = [orderStatus EXCEPT ![o] = "PLANNED"]
      /\ taskStatus' = [t \in Tasks |->
                          IF TaskOrder[t] = o THEN "PENDING" ELSE taskStatus[t]]
      /\ assignments' = assignments /\ orderStatus[o] = "ABSENT"
  BY DEF CreateWorkOrder, SaveOrder
<1>2. TypeOK'
  BY <1>1 DEF CreateWorkOrder, IInv, TypeOK, OrderStatuses, TaskStatuses
<1>3. /\ orderStatus'[o] = "PLANNED"
      /\ \A x \in Orders \ {o} : orderStatus'[x] = orderStatus[x]
  BY <1>1 DEF IInv, TypeOK
<1>4. /\ \A t \in Tasks : ActiveRows(t)' = ActiveRows(t)
      /\ \A t \in TasksOf(o) : ActiveRows(t) = {}
  BY <1>1, RowsOfTask, TasksOfOrders DEF ActiveRows, IInv, NobodyAhead
<1>5. NobodyAhead'
  BY <1>1, <1>3, TasksOfOrders DEF IInv, NobodyAhead
<1>6. ReadinessInSync'
  BY <1>1, <1>3, <1>4, TasksOfOrders DEF IInv, ReadinessInSync
<1>7. StartedWorkStaffed'
  BY <1>1, <1>3, <1>4, TasksOfOrders DEF IInv, StartedWorkStaffed
<1>8. ReviewInSync'
  BY <1>1, <1>3, TasksOfOrders DEF IInv, ReviewInSync
<1>9. SignedOffTogether'
  BY <1>1, <1>4, TasksOfOrders
     DEF IInv, SignedOffTogether, RowsNameTasks, ActiveRows
<1>10. OneActiveAssignment' /\ RowsNameTasks'
  BY <1>1 DEF IInv, OneActiveAssignment, RowsNameTasks
<1>11. QED
  BY <1>2, <1>5, <1>6, <1>7, <1>8, <1>9, <1>10 DEF IInv

\* Notes, accounts and jobs touch neither orders nor tasks nor assignments.
LEMMA OtherSteps ==
  ASSUME IInv,
         \/ \E u \in Users, t \in Tasks : AddWorkTaskNote(u, t)
         \/ \E o \in Orders : CancelJob(o)
         \/ \E u \in Users : ToggleUser(u)
         \/ UNCHANGED workshopVars
  PROVE  IInv'
<1>1. UNCHANGED <<orderStatus, taskStatus, assignments>>
  BY DEF AddWorkTaskNote, CancelJob, ToggleUser, workshopVars
<1>2. TypeOK'
  <2>1. notes' \subseteq [task : Tasks, author : Users]
    BY DEF IInv, TypeOK, AddWorkTaskNote, CancelJob, ToggleUser, workshopVars
  <2>2. userActive' \in [Users -> BOOLEAN]
    BY DEF IInv, TypeOK, AddWorkTaskNote, CancelJob, ToggleUser, workshopVars
  <2>3. jobCancelled' \in [Orders -> BOOLEAN]
    BY DEF IInv, TypeOK, AddWorkTaskNote, CancelJob, ToggleUser, workshopVars
  <2>4. QED
    BY <1>1, <2>1, <2>2, <2>3 DEF IInv, TypeOK
<1>3. QED
  BY <1>1, <1>2
     DEF IInv, RowsNameTasks, NobodyAhead, ReadinessInSync, StartedWorkStaffed, ReviewInSync,
         SignedOffTogether, OneActiveAssignment, ActiveRows

-----------------------------------------------------------------------------
(* Assignment and removal *)

\* The order and its task follow the assignments.
LEMMA SyncStep ==
  ASSUME IInv, NEW t \in Tasks, InAssignmentWindow(t),
         assignments' \in [AssignmentIds -> Assignment],
         \A x \in Tasks \ {t} : Staffed(assignments', x) <=> Staffed(assignments, x),
         SyncTask(t), SyncReadiness(TaskOrder[t]),
         UNCHANGED <<notes, userActive, jobCancelled>>
  PROVE  /\ TypeOK' /\ NobodyAhead' /\ ReadinessInSync' /\ StartedWorkStaffed'
         /\ ReviewInSync'
<1> DEFINE o == TaskOrder[t]
<1>1. o \in Orders /\ orderStatus[o] \in {"PLANNED", "READY"}
  BY TasksOfOrders DEF InAssignmentWindow
<1>2. /\ orderStatus' \in [Orders -> OrderStatuses \cup {"ABSENT"}]
      /\ orderStatus'[o] = Readiness(assignments', o)
      /\ \A x \in Orders \ {o} : orderStatus'[x] = orderStatus[x]
  BY <1>1 DEF SyncReadiness, SaveOrder, Readiness, IInv, TypeOK, OrderStatuses
<1>3. /\ taskStatus' \in [Tasks -> TaskStatuses]
      /\ taskStatus'[t] = IF Staffed(assignments', t) THEN "ASSIGNED" ELSE "PENDING"
      /\ \A x \in Tasks \ {t} : taskStatus'[x] = taskStatus[x]
  BY DEF SyncTask, IInv, TypeOK, TaskStatuses
<1>4. /\ \A x \in Tasks : ActiveRows(x)' # {} <=> Staffed(assignments', x)
      /\ \A x \in Tasks \ {t} : ActiveRows(x)' # {} <=> ActiveRows(x) # {}
  BY RowsOfTask DEF ActiveRows, Staffed
<1>5. TypeOK'
  BY <1>2, <1>3 DEF IInv, TypeOK
<1>6. NobodyAhead'
  BY <1>1, <1>2, TasksOfOrders DEF IInv, NobodyAhead, Readiness
<1>7. ReadinessInSync'
  <2>1. ASSUME NEW x \in Orders, x # o, orderStatus'[x] \in {"PLANNED", "READY"}
        PROVE  /\ orderStatus'[x] = "READY" <=> \A y \in TasksOf(x) : ActiveRows(y)' # {}
               /\ \A y \in TasksOf(x) :
                    taskStatus'[y] = IF ActiveRows(y)' # {} THEN "ASSIGNED" ELSE "PENDING"
    BY <2>1, <1>1, <1>2, <1>3, <1>4, TasksOfOrders DEF IInv, ReadinessInSync
  <2>2. orderStatus'[o] = "READY" <=> \A y \in TasksOf(o) : ActiveRows(y)' # {}
    BY <1>1, <1>2, <1>4, TasksOfOrders DEF Readiness
  <2>3. \A y \in TasksOf(o) :
          taskStatus'[y] = IF ActiveRows(y)' # {} THEN "ASSIGNED" ELSE "PENDING"
    BY <1>1, <1>3, <1>4, TasksOfOrders DEF IInv, ReadinessInSync
  <2>4. QED
    BY <2>1, <2>2, <2>3 DEF ReadinessInSync, TasksOf
<1>8. StartedWorkStaffed'
  BY <1>1, <1>2, <1>3, <1>4, TasksOfOrders DEF IInv, StartedWorkStaffed, Readiness
<1>9. ReviewInSync'
  BY <1>1, <1>2, <1>3, TasksOfOrders DEF IInv, ReviewInSync, Readiness, TasksOf
<1>10. QED
  BY <1>5, <1>6, <1>7, <1>8, <1>9

LEMMA AssignStep ==
  ASSUME IInv, NEW u \in Users, NEW w \in Users, NEW t \in Tasks, NEW a \in AssignmentIds,
         AssignTechnician(u, w, t, a)
  PROVE  IInv'
<1> DEFINE row == [status |-> "ASSIGNED", task |-> t, technician |-> w]
<1>1. /\ assignments' = [assignments EXCEPT ![a] = row] /\ assignments[a] = NoAssignment
      /\ InAssignmentWindow(t) /\ SyncTask(t) /\ SyncReadiness(TaskOrder[t])
      /\ ~ AssignedTo(w, t) /\ UNCHANGED <<notes, userActive, jobCancelled>>
  BY DEF AssignTechnician, CanAssign, NextAssignment, AlreadyAssigned
<1>2. /\ assignments' \in [AssignmentIds -> Assignment] /\ assignments'[a] = row
      /\ \A b \in AssignmentIds \ {a} : assignments'[b] = assignments[b]
  BY <1>1 DEF IInv, TypeOK, Assignment
<1>3. ~ IsActive(assignments[a]) /\ IsActive(row)
  BY <1>1 DEF NoAssignment, IsActive
<1>4. \A x \in Tasks \ {t} : Staffed(assignments', x) <=> Staffed(assignments, x)
  BY <1>2, <1>3 DEF Staffed
<1>5. taskStatus'[t] = "ASSIGNED" /\ \A x \in Tasks \ {t} : taskStatus'[x] = taskStatus[x]
  BY <1>1, <1>2, <1>3 DEF SyncTask, Staffed, IInv, TypeOK
<1>6. SignedOffTogether'
  BY <1>1, <1>2, <1>3, <1>5
     DEF IInv, SignedOffTogether, RowsNameTasks, InAssignmentWindow
<1>7. OneActiveAssignment'
  BY <1>1, <1>2, <1>3 DEF IInv, OneActiveAssignment, AssignedTo, ActiveRows
<1>8. RowsNameTasks'
  BY <1>2 DEF IInv, RowsNameTasks
<1>9. QED
  BY <1>1, <1>2, <1>4, <1>6, <1>7, <1>8, SyncStep DEF IInv

LEMMA RemoveStep ==
  ASSUME IInv, NEW u \in Users, NEW a \in AssignmentIds, RemoveTechnician(u, a)
  PROVE  IInv'
<1> DEFINE t == assignments[a].task
<1>1. /\ assignments' = [assignments EXCEPT ![a].status = "REMOVED"]
      /\ assignments[a].status = "ASSIGNED"
      /\ InAssignmentWindow(t) /\ SyncTask(t) /\ SyncReadiness(TaskOrder[t])
      /\ UNCHANGED <<notes, userActive, jobCancelled>>
  BY DEF RemoveTechnician, Removable
<1>2. t \in Tasks
  BY <1>1 DEF IInv, RowsNameTasks, IsActive
<1>3. /\ assignments' \in [AssignmentIds -> Assignment]
      /\ ~ IsActive(assignments'[a])
      /\ \A b \in AssignmentIds \ {a} : assignments'[b] = assignments[b]
  BY <1>1 DEF IInv, TypeOK, Assignment, IsActive
<1>4. \A x \in Tasks \ {t} : Staffed(assignments', x) <=> Staffed(assignments, x)
  BY <1>3 DEF Staffed
<1>5. /\ taskStatus'[t] \in {"ASSIGNED", "PENDING"}
      /\ \A x \in Tasks \ {t} : taskStatus'[x] = taskStatus[x]
  BY <1>1, <1>2 DEF SyncTask, IInv, TypeOK
<1>6. SignedOffTogether'
  BY <1>1, <1>3, <1>5
     DEF IInv, SignedOffTogether, RowsNameTasks, InAssignmentWindow
<1>7. OneActiveAssignment' /\ RowsNameTasks'
  BY <1>3 DEF IInv, OneActiveAssignment, RowsNameTasks
<1>8. QED
  BY <1>1, <1>2, <1>3, <1>4, <1>6, <1>7, SyncStep DEF IInv

-----------------------------------------------------------------------------
(* Execution *)

\* Rows change, but nobody joins a task, leaves it, or is signed off.
SameCrew ==
  /\ assignments' \in [AssignmentIds -> Assignment]
  /\ \A a \in AssignmentIds :
       /\ IsActive(assignments'[a]) <=> IsActive(assignments[a])
       /\ assignments'[a].task = assignments[a].task
       /\ assignments'[a].technician = assignments[a].technician
       /\ assignments'[a].status = "COMPLETED" <=> assignments[a].status = "COMPLETED"

LEMMA TaskStep ==
  ASSUME IInv, NEW t \in Tasks, OrderRuns(t), SameCrew,
         NEW new \in {"IN_PROGRESS", "BLOCKED", "AWAITING_REVIEW"},
         taskStatus[t] \notin {"COMPLETED", "AWAITING_REVIEW"},
         taskStatus' = [taskStatus EXCEPT ![t] = new],
         \/ new # "AWAITING_REVIEW" /\ UNCHANGED orderStatus
         \/ MoveToReviewIfReady(TaskOrder[t]),
         UNCHANGED <<notes, userActive, jobCancelled>>
  PROVE  IInv'
<1> DEFINE o == TaskOrder[t]
<1>1. o \in Orders /\ orderStatus[o] = "IN_PROGRESS"
  BY TasksOfOrders DEF OrderRuns
<1>2. /\ taskStatus' \in [Tasks -> TaskStatuses] /\ taskStatus'[t] = new
      /\ \A x \in Tasks \ {t} : taskStatus'[x] = taskStatus[x]
  BY DEF IInv, TypeOK, TaskStatuses
<1>3. \A x \in Tasks : ActiveRows(x)' = ActiveRows(x)
  BY DEF SameCrew, ActiveRows
<1>4. /\ orderStatus' \in [Orders -> OrderStatuses \cup {"ABSENT"}]
      /\ \A x \in Orders \ {o} : orderStatus'[x] = orderStatus[x]
      /\ \/ orderStatus'[o] = "IN_PROGRESS"
              /\ (new = "AWAITING_REVIEW" => ~ AllSubmitted(taskStatus', o))
         \/ orderStatus'[o] = "AWAITING_REVIEW" /\ AllSubmitted(taskStatus', o)
  BY <1>1 DEF MoveToReviewIfReady, SaveOrder, IInv, TypeOK, OrderStatuses
<1>5. TypeOK'
  BY <1>2, <1>4 DEF IInv, TypeOK, SameCrew
<1>6. NobodyAhead'
  BY <1>1, <1>4, TasksOfOrders DEF IInv, NobodyAhead, SameCrew, Staffed
<1>7. ReadinessInSync'
  BY <1>1, <1>2, <1>3, <1>4, TasksOfOrders DEF IInv, ReadinessInSync, TasksOf
<1>8. StartedWorkStaffed'
  BY <1>1, <1>2, <1>3, <1>4, TasksOfOrders DEF IInv, StartedWorkStaffed
<1>9. ReviewInSync'
  <2>1. orderStatus'[o] = "IN_PROGRESS" =>
          \E x \in TasksOf(o) : taskStatus'[x] \in {"ASSIGNED", "IN_PROGRESS", "BLOCKED"}
    <3>1. CASE new # "AWAITING_REVIEW"
      BY <3>1, <1>2, TasksOfOrders
    <3>2. CASE new = "AWAITING_REVIEW"
      <4>1. SUFFICES ASSUME ~ AllSubmitted(taskStatus', o)
                     PROVE  \E x \in TasksOf(o) :
                              taskStatus'[x] \in {"ASSIGNED", "IN_PROGRESS", "BLOCKED"}
        BY <3>2, <1>4
      <4>2. PICK x \in TasksOf(o) : taskStatus'[x] \notin {"AWAITING_REVIEW", "COMPLETED"}
        BY <4>1 DEF AllSubmitted
      <4>3. taskStatus'[x] \notin {"ABSENT", "PENDING"}
        BY <1>1, <1>4, <1>8, TasksOfOrders DEF StartedWorkStaffed
      <4>4. QED
        BY <4>2, <4>3, <1>2, TasksOfOrders DEF TaskStatuses
    <3>3. QED
      BY <3>1, <3>2
  <2>2. orderStatus'[o] = "AWAITING_REVIEW" =>
          \A x \in TasksOf(o) : taskStatus'[x] \in {"AWAITING_REVIEW", "COMPLETED"}
    BY <1>4 DEF AllSubmitted
  <2>3. \A x \in Orders \ {o} : \A y \in TasksOf(x) : taskStatus'[y] = taskStatus[y]
    BY <1>2, TasksOfOrders
  <2>4. QED
    BY <1>4, <2>1, <2>2, <2>3 DEF IInv, ReviewInSync, TasksOf
<1>10. SignedOffTogether'
  BY <1>2 DEF IInv, SignedOffTogether, RowsNameTasks, SameCrew
<1>11. OneActiveAssignment' /\ RowsNameTasks'
  BY DEF IInv, OneActiveAssignment, RowsNameTasks, SameCrew
<1>12. QED
  BY <1>5, <1>6, <1>7, <1>8, <1>9, <1>10, <1>11 DEF IInv

LEMMA TaskSteps ==
  ASSUME IInv, NEW u \in Users, NEW t \in Tasks,
         \/ StartWorkTask(u, t) \/ BlockWorkTask(u, t)
         \/ SubmitWorkTaskForReview(u, t)
  PROVE  IInv'
<1>1. SameCrew
  <2>1. CASE StartWorkTask(u, t)
    <3>1. \A a \in ActiveRows(t) : assignments[a].status \in {"ASSIGNED", "IN_PROGRESS"}
      BY <2>1 DEF StartWorkTask, CanStartTask, IInv, SignedOffTogether, ActiveRows, IsActive
    <3>2. QED
      BY <2>1, <3>1
         DEF StartWorkTask, CanStartTask, MarkStarted, SameCrew, IInv, TypeOK, Assignment, IsActive
  <2>2. CASE BlockWorkTask(u, t) \/ SubmitWorkTaskForReview(u, t)
    BY <2>2 DEF BlockWorkTask, SubmitWorkTaskForReview, CanSubmit, SameCrew, IInv, TypeOK
  <2>3. QED
    BY <2>1, <2>2
<1>2. CASE StartWorkTask(u, t)
  BY <1>1, <1>2, TaskStep DEF StartWorkTask, CanStartTask
<1>3. CASE BlockWorkTask(u, t)
  BY <1>1, <1>3, TaskStep DEF BlockWorkTask
<1>4. CASE SubmitWorkTaskForReview(u, t)
  BY <1>1, <1>4, TaskStep DEF SubmitWorkTaskForReview, CanSubmit
<1>5. QED
  BY <1>2, <1>3, <1>4

\* Approving a submitted task never moves its order: had all been submitted,
\* the last submission would have moved it.
LEMMA ApprovalStays ==
  ASSUME IInv, NEW u \in Users, NEW t \in Tasks, CompleteWorkTask(u, t)
  PROVE  UNCHANGED orderStatus
<1> DEFINE o == TaskOrder[t]
<1>1. /\ o \in Orders /\ orderStatus[o] \in {"IN_PROGRESS", "AWAITING_REVIEW"}
      /\ taskStatus[t] = "AWAITING_REVIEW"
      /\ taskStatus' = [taskStatus EXCEPT ![t] = "COMPLETED"]
      /\ MoveToReviewIfReady(o)
  BY TasksOfOrders DEF CompleteWorkTask, CanSignOff
<1>2. CASE orderStatus[o] = "AWAITING_REVIEW"
  BY <1>1, <1>2 DEF MoveToReviewIfReady
<1>3. CASE orderStatus[o] = "IN_PROGRESS"
  <2>1. PICK x \in TasksOf(o) : taskStatus[x] \in {"ASSIGNED", "IN_PROGRESS", "BLOCKED"}
    BY <1>1, <1>3 DEF IInv, ReviewInSync
  <2>2. taskStatus'[x] = taskStatus[x]
    BY <1>1, <2>1 DEF IInv, TypeOK
  <2>3. ~ AllSubmitted(taskStatus', o)
    BY <2>1, <2>2 DEF AllSubmitted
  <2>4. QED
    BY <1>1, <2>3 DEF MoveToReviewIfReady
<1>4. QED
  BY <1>1, <1>2, <1>3

LEMMA CompleteStep ==
  ASSUME IInv, NEW u \in Users, NEW t \in Tasks, CompleteWorkTask(u, t)
  PROVE  IInv'
<1>1. /\ orderStatus[TaskOrder[t]] \in {"IN_PROGRESS", "AWAITING_REVIEW"}
      /\ taskStatus[t] = "AWAITING_REVIEW"
      /\ assignments' = SignedOff(t) /\ UNCHANGED <<notes, userActive, jobCancelled>>
      /\ taskStatus' = [taskStatus EXCEPT ![t] = "COMPLETED"]
      /\ orderStatus' = orderStatus
  BY ApprovalStays DEF CompleteWorkTask, CanSignOff
<1>2. /\ taskStatus' \in [Tasks -> TaskStatuses] /\ taskStatus'[t] = "COMPLETED"
      /\ \A x \in Tasks \ {t} : taskStatus'[x] = taskStatus[x]
  BY <1>1 DEF IInv, TypeOK, TaskStatuses
<1>3. /\ assignments' \in [AssignmentIds -> Assignment]
      /\ \A a \in ActiveRows(t) : assignments'[a].status = "COMPLETED"
      /\ \A a \in AssignmentIds \ ActiveRows(t) : assignments'[a] = assignments[a]
      /\ \A a \in AssignmentIds :
           /\ IsActive(assignments'[a]) <=> IsActive(assignments[a])
           /\ assignments'[a].task = assignments[a].task
           /\ assignments'[a].technician = assignments[a].technician
  BY <1>1 DEF SignedOff, IInv, TypeOK, Assignment, IsActive, ActiveRows
<1>4. \A x \in Tasks : ActiveRows(x)' = ActiveRows(x)
  BY <1>3 DEF ActiveRows
<1>5. TypeOK'
  BY <1>1, <1>2, <1>3 DEF IInv, TypeOK
<1>6. NobodyAhead'
  BY <1>1, <1>3 DEF IInv, NobodyAhead, Staffed
<1>7. ReadinessInSync'
  BY <1>1, <1>2, <1>4, TasksOfOrders DEF IInv, ReadinessInSync, TasksOf
<1>8. StartedWorkStaffed'
  BY <1>1, <1>2, <1>4 DEF IInv, StartedWorkStaffed
<1>9. ReviewInSync'
  BY <1>1, <1>2, TasksOfOrders DEF IInv, ReviewInSync, TasksOf
<1>10. SignedOffTogether'
  BY <1>2, <1>3 DEF IInv, SignedOffTogether, RowsNameTasks, ActiveRows
<1>11. OneActiveAssignment' /\ RowsNameTasks'
  BY <1>3 DEF IInv, OneActiveAssignment, RowsNameTasks
<1>12. QED
  BY <1>5, <1>6, <1>7, <1>8, <1>9, <1>10, <1>11 DEF IInv

-----------------------------------------------------------------------------
(* All steps *)

LEMMA NextInv ==
  ASSUME IInv, [Next]_workshopVars
  PROVE  IInv'
<1>1. CASE \E o \in Orders : Advances(o)
  BY <1>1, OrderSteps, TaskSteps, CompleteStep, AssignStep, TasksOfOrders DEF Advances
<1>2. CASE \E u \in Users, o \in Orders : CreateWorkOrder(u, o) \/ HoldWorkOrder(u, o)
  BY <1>2, CreateStep, OrderSteps
<1>3. CASE \E u \in Users, a \in AssignmentIds : RemoveTechnician(u, a)
  BY <1>3, RemoveStep
<1>4. CASE \E u \in Users, t \in Tasks : BlockWorkTask(u, t) \/ AddWorkTaskNote(u, t)
  BY <1>4, TaskSteps, OtherSteps
<1>5. CASE \/ \E o \in Orders : CancelJob(o)
           \/ \E u \in Users : ToggleUser(u)
           \/ UNCHANGED workshopVars
  BY <1>5, OtherSteps
<1>6. QED
  BY <1>1, <1>2, <1>3, <1>4, <1>5 DEF Next

\* The pages only ask for what the services do.
LEMMA PagesAskServices == PagesNext => Next
<1>1. ASSUME NEW u \in Users, NEW o \in Orders,
             \/ WorkOrderStart(u, o) \/ WorkOrderHold(u, o)
             \/ WorkOrderResume(u, o) \/ WorkOrderComplete(u, o)
      PROVE  Next
  BY <1>1 DEF WorkOrderStart, WorkOrderHold, WorkOrderResume, WorkOrderComplete, Next,
              Advances
<1>2. ASSUME NEW u \in Users, WorkOrderCreate(u) PROVE Next
  BY <1>2 DEF WorkOrderCreate, WorkOrderCreateForm, Next
<1>3. ASSUME NEW u \in Users, NEW t \in Tasks, TechnicianAssignmentCreate(u, t)
      PROVE  Next
  BY <1>3, TasksOfOrders DEF TechnicianAssignmentCreate, TechnicianAssignmentForm,
                             Assignable, Users, Next, Advances
<1>4. ASSUME NEW u \in Users, NEW t \in Tasks,
             \/ WorkTaskStart(u, t) \/ WorkTaskSubmitForReview(u, t)
             \/ WorkTaskApprove(u, t)
      PROVE  Next
  BY <1>4, TasksOfOrders DEF WorkTaskStart, WorkTaskSubmitForReview, WorkTaskApprove, Next,
                             Advances
<1>5. ASSUME NEW u \in Users, NEW t \in Tasks,
             WorkTaskBlock(u, t) \/ WorkTaskNoteCreate(u, t)
      PROVE  Next
  BY <1>5 DEF WorkTaskBlock, WorkTaskNoteCreate, Next
<1>6. ASSUME NEW u \in Users, NEW a \in AssignmentIds, TechnicianAssignmentRemove(u, a)
      PROVE  Next
  BY <1>6 DEF TechnicianAssignmentRemove, Next
<1>7. QED
  BY <1>1, <1>2, <1>3, <1>4, <1>5, <1>6 DEF PagesNext, Next

\* Whatever holds of the services holds of the pages that call them.
THEOREM PagesImplementServices == PagesSpec => Spec
<1>1. [PagesNext]_workshopVars => [Next]_workshopVars
  BY PagesAskServices
<1>2. QED
  BY <1>1, PTL DEF PagesSpec, Spec

THEOREM WorkshopInv == Spec => []IInv
<1>1. IInv /\ [Next]_workshopVars => IInv'
  BY NextInv
<1>2. QED
  BY <1>1, InitInv, PTL DEF Spec

-----------------------------------------------------------------------------
(* The theorems *)

\* Columns hold their choices, and assignments name employees and tasks.
THEOREM WorkshopTyped == Spec => []TypeOK
<1>1. IInv => TypeOK
  BY DEF IInv
<1>2. QED
  BY <1>1, WorkshopInv, PTL

\* Ready means staffed: orders and tasks follow their assignments until work
\* starts.
THEOREM ReadinessStaysInSync == Spec => []ReadinessInSync
<1>1. IInv => ReadinessInSync
  BY DEF IInv
<1>2. QED
  BY <1>1, WorkshopInv, PTL

\* No task of an order that was started is without a technician.
THEOREM StartedStaysStaffed == Spec => []StartedWorkStaffed
<1>1. IInv => StartedWorkStaffed
  BY DEF IInv
<1>2. QED
  BY <1>1, WorkshopInv, PTL

\* An order is under review exactly when all its tasks have been submitted.
THEOREM ReviewStaysInSync == Spec => []ReviewInSync
<1>1. IInv => ReviewInSync
  BY DEF IInv
<1>2. QED
  BY <1>1, WorkshopInv, PTL

\* Assignments are signed off with their task, all of them and only then.
THEOREM AllSignedOffTogether == Spec => []SignedOffTogether
<1>1. IInv => SignedOffTogether
  BY DEF IInv
<1>2. QED
  BY <1>1, WorkshopInv, PTL

\* Nobody is on a task twice, however often removed and assigned again.
THEOREM NobodyTwice == Spec => []OneActiveAssignment
<1>1. IInv => OneActiveAssignment
  BY DEF IInv
<1>2. QED
  BY <1>1, WorkshopInv, PTL

\* While an order is on hold, or once it is completed, its tasks and the
\* assignments to them stay as they are.
THEOREM OnHoldStandsStill == Spec => HeldOrdersStandStill
<1>1. ASSUME IInv, Next, NEW t \in Tasks,
             orderStatus[TaskOrder[t]] \in {"ON_HOLD", "COMPLETED"}
      PROVE  /\ taskStatus'[t] = taskStatus[t]
             /\ \A a \in ActiveRows(t) : assignments'[a] = assignments[a]
  <2>1. CASE \E u \in Users, x \in Tasks :
               StartWorkTask(u, x) \/ BlockWorkTask(u, x) \/ SubmitWorkTaskForReview(u, x)
    BY <1>1, <2>1 DEF StartWorkTask, CanStartTask, BlockWorkTask, SubmitWorkTaskForReview, CanSubmit, OrderRuns,
                      MarkStarted, ActiveRows, IInv, TypeOK
  <2>2. CASE \E u \in Users, x \in Tasks : CompleteWorkTask(u, x)
    BY <1>1, <2>2 DEF CompleteWorkTask, CanSignOff, SignedOff, ActiveRows, IInv, TypeOK
  <2>3. CASE \E u, w \in Users, x \in Tasks, a \in AssignmentIds :
               AssignTechnician(u, w, x, a)
    BY <1>1, <2>3 DEF AssignTechnician, CanAssign, NextAssignment, NoAssignment, InAssignmentWindow,
                      SyncTask, ActiveRows, IsActive, IInv, TypeOK
  <2>4. CASE \E u \in Users, a \in AssignmentIds : RemoveTechnician(u, a)
    BY <1>1, <2>4 DEF RemoveTechnician, Removable, InAssignmentWindow, SyncTask,
                      ActiveRows, IInv, TypeOK
  <2>5. CASE \E u \in Users, o \in Orders : CreateWorkOrder(u, o)
    BY <1>1, <2>5 DEF CreateWorkOrder, ActiveRows
  <2>6. CASE UNCHANGED <<taskStatus, assignments>>
    BY <2>6
  <2>7. QED
    BY <1>1, <2>1, <2>2, <2>3, <2>4, <2>5, <2>6, TasksOfOrders
       DEF Next, Advances, StartWorkOrder, CanStart, HoldWorkOrder, ResumeWorkOrder, CanResume,
           CompleteWorkOrder, CanComplete, AddWorkTaskNote, CancelJob, ToggleUser
<1>2. IInv /\ [Next]_workshopVars =>
        [\A t \in Tasks :
           orderStatus[TaskOrder[t]] \in {"ON_HOLD", "COMPLETED"} =>
             /\ taskStatus'[t] = taskStatus[t]
             /\ \A a \in ActiveRows(t) : assignments'[a] = assignments[a]]_workshopVars
  BY <1>1
<1>3. QED
  BY <1>2, WorkshopInv, PTL DEF Spec, HeldOrdersStandStill

\* An order that is saved makes one of the moves others expect of it.
LEMMA SavedOrderMoves ==
  ASSUME NEW o \in Orders, NEW new, SaveOrder(o, new), <<orderStatus[o], new>> \in OrderMoves
  PROVE  Life!Moves(o)
<1> DEFINE move == <<orderStatus[o], new>>
<1>1. move \in OrderMoves /\ move[1] = orderStatus[o] /\ move[2] = new
  OBVIOUS
<1>2. orderStatus' = [orderStatus EXCEPT ![o] = move[2]]
  BY <1>1 DEF SaveOrder
<1>3. move \in Life!OrderMoves
  BY <1>1 DEF OrderMoves, Life!OrderMoves
<1> HIDE DEF move
<1>4. QED
  BY <1>1, <1>2, <1>3 DEF Life!Moves

\* The status of a work order moves only as the other applications rely on.
THEOREM WorkOrdersLive == Spec => ImplementsWorkOrderLife
<1>1. Init => orderStatus = [o \in Orders |-> "ABSENT"]
  BY DEF Init
<1>2. ASSUME IInv, Next
      PROVE  \/ UNCHANGED orderStatus
             \/ \E o \in Orders : Life!Begins(o) \/ Life!Moves(o)
  <2>1. CASE \E u \in Users, o \in Orders :
               \/ StartWorkOrder(u, o) \/ HoldWorkOrder(u, o)
               \/ ResumeWorkOrder(u, o) \/ CompleteWorkOrder(u, o)
    BY <2>1, SavedOrderMoves DEF StartWorkOrder, CanStart, HoldWorkOrder, ResumeWorkOrder, CanResume,
                                 CompleteWorkOrder, CanComplete, OrderMoves
  <2>2. CASE \E u \in Users, o \in Orders : CreateWorkOrder(u, o)
    BY <2>2 DEF CreateWorkOrder, SaveOrder, Life!Begins
  <2>3. CASE \E t \in Tasks :
               orderStatus[TaskOrder[t]] \in {"PLANNED", "READY"}
                 /\ SyncReadiness(TaskOrder[t])
    BY <2>3, SavedOrderMoves, TasksOfOrders DEF SyncReadiness, Readiness, OrderMoves
  <2>4. CASE \E u \in Users, t \in Tasks : SubmitWorkTaskForReview(u, t)
    BY <2>4, SavedOrderMoves, TasksOfOrders
       DEF SubmitWorkTaskForReview, CanSubmit, MoveToReviewIfReady, OrderRuns, OrderMoves
  <2>5. CASE \E u \in Users, t \in Tasks : CompleteWorkTask(u, t)
    BY <1>2, <2>5, ApprovalStays
  <2>6. CASE UNCHANGED orderStatus
    BY <2>6
  <2>7. ASSUME NEW u \in Users, NEW a \in AssignmentIds, RemoveTechnician(u, a)
        PROVE  assignments[a].task \in Tasks
    BY <1>2, <2>7 DEF RemoveTechnician, Removable, IInv, RowsNameTasks, IsActive
  <2>8. QED
    BY <1>2, <2>1, <2>2, <2>3, <2>4, <2>5, <2>6, <2>7, TasksOfOrders
       DEF Next, Advances, AssignTechnician, CanAssign, RemoveTechnician, Removable,
           InAssignmentWindow, StartWorkTask, CanStartTask, BlockWorkTask, AddWorkTaskNote, CancelJob,
           ToggleUser
<1>3. IInv /\ [Next]_workshopVars =>
        [\E o \in Orders : Life!Begins(o) \/ Life!Moves(o)]_orderStatus
  BY <1>2 DEF workshopVars
<1>4. QED
  BY <1>1, <1>3, WorkshopInv, PTL
     DEF Spec, ImplementsWorkOrderLife, Life!LifeSpec, Life!LifeInit

-----------------------------------------------------------------------------
(* No dead end *)

\* No service cancels a work order: no move of its life leads there.
LEMMA NeverCancelled == Spec => [](\A o \in Orders : orderStatus[o] # "CANCELLED")
<1> DEFINE NotCancelled == \A o \in Orders : orderStatus[o] # "CANCELLED"
<1>1. Life!LifeInit => NotCancelled
  BY DEF Life!LifeInit
<1>2. TypeOK /\ NotCancelled /\ [\E o \in Orders : Life!Begins(o) \/ Life!Moves(o)]_orderStatus
        => NotCancelled'
  BY DEF TypeOK, Life!Begins, Life!Moves, Life!OrderMoves
<1>3. QED
  BY <1>1, <1>2, WorkshopTyped, WorkOrdersLive, PTL DEF ImplementsWorkOrderLife, Life!LifeSpec

\* A task whose order stands still before it is staffed can get a technician,
\* as long as the table has a row left.
LEMMA PlannedAdvances ==
  ASSUME IInv, NEW o \in Orders, orderStatus[o] = "PLANNED",
         \A u \in Users : userActive[u], Managers # {}, Assignable # {},
         \E a \in AssignmentIds : assignments[a] = NoAssignment
  PROVE  CanAdvance(o)
<1>1. PICK t \in TasksOf(o) : ActiveRows(t) = {}
  BY DEF IInv, ReadinessInSync
<1>2. InAssignmentWindow(t)
  BY <1>1, TasksOfOrders DEF IInv, ReadinessInSync, InAssignmentWindow
<1>3. PICK u \in Managers, w \in Assignable : TRUE
  OBVIOUS
<1>4. Coordinates(u) /\ userActive[w] /\ u \in Users /\ w \in Users
  BY <1>3 DEF Coordinates, Coordinators, Assignable, Users
<1>5. ~ AlreadyAssigned(w, t)
  BY <1>1 DEF AlreadyAssigned, AssignedTo
<1> DEFINE Free == {a \in AssignmentIds : assignments[a] = NoAssignment}
<1>6. PICK a \in Free : \A b \in Free : a <= b
  <2>1. Free \in SUBSET Nat /\ Free # {}
    BY DEF AssignmentIds
  <2>2. QED
    BY <2>1, LeastNumber
<1>7. NextAssignment(a)
  BY <1>6, WorkshopAssumption DEF NextAssignment, AssignmentIds
<1>8. CanAssign(u, w, t, a)
  BY <1>2, <1>3, <1>4, <1>5, <1>7 DEF CanAssign
<1>9. QED
  BY <1>4, <1>6, <1>8 DEF CanAdvance

\* While the order runs one of its tasks is still to be started or submitted.
LEMMA RunningAdvances ==
  ASSUME IInv, NEW o \in Orders, orderStatus[o] = "IN_PROGRESS",
         \A u \in Users : userActive[u], Managers # {}
  PROVE  CanAdvance(o)
<1>1. PICK t \in TasksOf(o) : taskStatus[t] \in {"ASSIGNED", "IN_PROGRESS", "BLOCKED"}
  BY DEF IInv, ReviewInSync
<1>2. PICK u \in Managers : TRUE
  OBVIOUS
<1>3. u \in Users /\ MayOperate(u, t) /\ OrderRuns(t)
  BY <1>1, <1>2, TasksOfOrders DEF MayOperate, Coordinates, Coordinators, Users, OrderRuns
<1>4. CanStartTask(u, t) \/ CanSubmit(u, t)
  BY <1>1, <1>3 DEF CanStartTask, CanSubmit
<1>5. QED
  BY <1>1, <1>3, <1>4 DEF CanAdvance

\* Under review, either a submitted task is to be approved, by rows of
\* employees who are all active, or all are and the order is to be completed.
LEMMA ReviewAdvances ==
  ASSUME IInv, NEW o \in Orders, orderStatus[o] = "AWAITING_REVIEW",
         \A u \in Users : userActive[u], Managers # {}
  PROVE  CanAdvance(o)
<1>1. PICK u \in Managers : TRUE
  OBVIOUS
<1>2. u \in Users /\ Coordinates(u)
  BY <1>1 DEF Coordinates, Coordinators, Users
<1>3. CASE AllCompleted(taskStatus, o)
  <2>1. CanComplete(u, o)
    BY <1>1, <1>2, <1>3 DEF CanComplete
  <2>2. QED
    BY <1>2, <2>1 DEF CanAdvance
<1>4. CASE ~ AllCompleted(taskStatus, o)
  <2>1. PICK t \in TasksOf(o) : taskStatus[t] = "AWAITING_REVIEW"
    BY <1>4 DEF IInv, ReviewInSync, AllCompleted
  <2>2. \A a \in ActiveRows(t) : Savable(a)
    BY DEF ActiveRows, IInv, RowsNameTasks, Savable
  <2>3. CanSignOff(u, t)
    BY <1>2, <2>1, <2>2, TasksOfOrders DEF CanSignOff
  <2>4. QED
    BY <1>2, <2>1, <2>3 DEF CanAdvance
<1>5. QED
  BY <1>3, <1>4

\* Held or staffed, an order waits for a coordinator only.
LEMMA WaitingAdvances ==
  ASSUME IInv, NEW o \in Orders, orderStatus[o] \in {"READY", "ON_HOLD"},
         \A u \in Users : userActive[u], Managers # {}
  PROVE  CanAdvance(o)
<1>1. PICK u \in Managers : TRUE
  OBVIOUS
<1>2. u \in Users /\ Coordinates(u)
  BY <1>1 DEF Coordinates, Coordinators, Users
<1>3. CASE orderStatus[o] = "READY"
  <2>1. \A t \in TasksOf(o) : Staffed(assignments, t)
    BY <1>3, RowsOfTask, TasksOfOrders DEF IInv, ReadinessInSync
  <2>2. CanStart(u, o)
    BY <1>2, <1>3, <2>1 DEF CanStart
  <2>3. QED
    BY <1>2, <2>2 DEF CanAdvance
<1>4. CASE orderStatus[o] = "ON_HOLD"
  BY <1>2, <1>4 DEF CanAdvance, CanResume
<1>5. QED
  BY <1>3, <1>4

\* A workshop that employs a manager and someone to assign never has an
\* order nobody can take further, for any orders, tasks and employees: the
\* bounded assignment table apart, what is unfinished can always be taken further.
THEOREM NoOrderStuck ==
  ASSUME Managers # {}, Assignable # {}
  PROVE  Spec => []NoDeadEnd
<1>1. ASSUME IInv, \A o \in Orders : orderStatus[o] # "CANCELLED"
      PROVE  NoDeadEnd
  <2>1. SUFFICES ASSUME NEW o \in Orders, orderStatus[o] \notin {"ABSENT", "COMPLETED"},
                        \A u \in Users : userActive[u],
                        orderStatus[o] = "PLANNED"
                          => \E a \in AssignmentIds : assignments[a] = NoAssignment
                 PROVE  CanAdvance(o)
    BY DEF NoDeadEnd
  <2>2. orderStatus[o] \in {"PLANNED", "READY", "IN_PROGRESS", "ON_HOLD", "AWAITING_REVIEW"}
    BY <1>1, <2>1 DEF IInv, TypeOK, OrderStatuses
  <2>3. QED
    BY <1>1, <2>1, <2>2, PlannedAdvances, WaitingAdvances, RunningAdvances, ReviewAdvances
<1>2. QED
  BY <1>1, WorkshopInv, NeverCancelled, PTL

=============================================================================
