--------------------------- MODULE WorkshopPages ---------------------------
(***************************************************************************)
(* The pages of the workshop (workshop/views.py, forms.py): who may open   *)
(* which, what its form offers, and the service it then calls.             *)
(*                                                                         *)
(* A work order's page shows a button for every step, whatever the state;  *)
(* pressing one posts to the service, which decides.  The forms offer      *)
(* quotations without a work order and technicians not on the task, as of  *)
(* the moment the page is loaded or sent; the services ask again.          *)
(***************************************************************************)
EXTENDS Workshop, Policy

RoleOf(u) ==
  IF u \in Managers THEN "MANAGER"
  ELSE IF u \in Seniors THEN "SENIOR_TECHNICIAN"
  ELSE "TECHNICIAN"

\* The decorator of a view; nobody with a deactivated account logs in.
Opens(u, permission) == userActive[u] /\ May(RoleOf(u), permission)

\* Approved quotations, here the orders they lead to.
WorkOrderCreateForm == Orders

TechnicianAssignmentForm == Assignable

\* The pages of tasks and assignments open for any row on file.
TasksOnFile == {t \in Tasks : taskStatus[t] # "ABSENT"}

AssignmentsOnFile == {a \in AssignmentIds : assignments[a] # NoAssignment}

-----------------------------------------------------------------------------
(* Orders *)

WorkOrderCreate(u) ==
  /\ Opens(u, "add_workorder")
  /\ \E o \in WorkOrderCreateForm : CreateWorkOrder(u, o)

WorkOrderStart(u, o) == Opens(u, "start_work_order") /\ StartWorkOrder(u, o)

WorkOrderHold(u, o) == Opens(u, "hold_work_order") /\ HoldWorkOrder(u, o)

WorkOrderResume(u, o) == Opens(u, "resume_work_order") /\ ResumeWorkOrder(u, o)

WorkOrderComplete(u, o) ==
  Opens(u, "complete_work_order") /\ CompleteWorkOrder(u, o)

-----------------------------------------------------------------------------
(* Technicians and their tasks *)

TechnicianAssignmentCreate(u, t) ==
  /\ Opens(u, "assign_technician")
  /\ t \in TasksOnFile
  /\ \E w \in TechnicianAssignmentForm, a \in AssignmentIds :
       AssignTechnician(u, w, t, a)

TechnicianAssignmentRemove(u, a) ==
  /\ Opens(u, "assign_technician")
  /\ a \in AssignmentsOnFile
  /\ RemoveTechnician(u, a)

WorkTaskStart(u, t) ==
  Opens(u, "start_work_task") /\ t \in TasksOnFile /\ StartWorkTask(u, t)

WorkTaskBlock(u, t) ==
  Opens(u, "block_work_task") /\ t \in TasksOnFile /\ BlockWorkTask(u, t)

WorkTaskSubmitForReview(u, t) ==
  /\ Opens(u, "complete_work_task")
  /\ t \in TasksOnFile
  /\ SubmitWorkTaskForReview(u, t)

\* The page asks for what every technician may do; the service wants a
\* coordinator.
WorkTaskApprove(u, t) ==
  Opens(u, "complete_work_task") /\ t \in TasksOnFile /\ CompleteWorkTask(u, t)

WorkTaskNoteCreate(u, t) ==
  Opens(u, "add_worktasknote") /\ t \in TasksOnFile /\ AddWorkTaskNote(u, t)

-----------------------------------------------------------------------------

PagesNext ==
  \/ \E u \in Users :
       \/ WorkOrderCreate(u)
       \/ \E o \in Orders :
            \/ WorkOrderStart(u, o) \/ WorkOrderHold(u, o)
            \/ WorkOrderResume(u, o) \/ WorkOrderComplete(u, o)
       \/ \E t \in Tasks :
            \/ TechnicianAssignmentCreate(u, t)
            \/ WorkTaskStart(u, t) \/ WorkTaskBlock(u, t)
            \/ WorkTaskSubmitForReview(u, t) \/ WorkTaskApprove(u, t)
            \/ WorkTaskNoteCreate(u, t)
       \/ \E a \in AssignmentIds : TechnicianAssignmentRemove(u, a)
  \/ \E o \in Orders : CancelJob(o)
  \/ \E u \in Users : ToggleUser(u)

PagesSpec == Init /\ [][PagesNext]_workshopVars

=============================================================================
