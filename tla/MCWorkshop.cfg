\* Two tasks, three employees, three assignment rows.
SPECIFICATION PagesSpec
CONSTANTS
  o1 = o1  t1 = t1  t2 = t2
  Orders = {o1}
  Tasks = {t1, t2}
  TaskOrder <- MCTaskOrder
  Technicians = {tech}
  Seniors = {senior}
  Managers = {manager}
  MaxAssignments = 3
  MaxNotes = 1
  None = None
  Staff = {"MANAGER", "SENIOR_TECHNICIAN", "TECHNICIAN"}
SYMMETRY TaskSymmetry
INVARIANTS
  ReadinessInSync
  StartedWorkStaffed
  ReviewInSync
  SignedOffTogether
  NoDeadEnd
PROPERTIES
  HeldOrdersStandStill
  ImplementsWorkOrderLife
\* A completed order is left alone: nothing need be enabled.
CHECK_DEADLOCK FALSE
