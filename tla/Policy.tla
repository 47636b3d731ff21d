------------------------------- MODULE Policy -------------------------------
(***************************************************************************)
(* The roles of the employees and what each may change                     *)
(* (apps/accounts/policy.py).  Permissions to look at pages are left out.  *)
(* Every view and every service asks for one of these by name; an employee *)
(* goes by the role, since nothing else about the person is asked.         *)
(***************************************************************************)
CONSTANT Staff   \* the roles somebody holds

Roles == {"ADMINISTRATOR", "MANAGER", "RECEPTIONIST", "SENIOR_TECHNICIAN",
          "TECHNICIAN", "CASHIER"}

ASSUME PolicyAssumption == Staff \subseteq Roles

\* What technicians do on the shop floor, and what their seniors add to it.
TechnicianMay ==
  {"add_inspection", "add_jobnote", "add_worktasknote", "change_worktask",
   "start_work_task", "block_work_task", "complete_work_task"}

SeniorTechnicianMay ==
  TechnicianMay \cup
  {"reserve_stock", "release_stock_reservation", "issue_stock", "return_stock",
   "change_workorder", "add_technicianassignment", "change_technicianassignment",
   "assign_technician", "start_work_order", "hold_work_order",
   "resume_work_order"}

QuotationDesk ==
  {"add_quotation", "change_quotation", "submit_quotation",
   "approve_quotation", "reject_quotation", "revise_quotation"}

ReceptionistMay ==
  QuotationDesk \cup
  {"add_customer", "change_customer", "add_vehicle", "change_vehicle",
   "transfer_vehicle_owner", "add_jobcard", "change_jobcard",
   "cancel_jobcard", "add_jobnote", "release_vehicle"}

CashierMay ==
  {"add_customer", "change_customer", "add_invoice", "issue_invoice",
   "record_payment", "record_supplier_payment"}

\* The manager runs the business, but leaves the register to the desk.
ManagerMay ==
  SeniorTechnicianMay \cup QuotationDesk \cup
  {"add_jobcard", "change_jobcard", "cancel_jobcard", "release_vehicle",
   "override_vehicle_release_payment", "add_workorder", "complete_work_order",
   "add_stocklocation", "change_stocklocation", "add_inventoryitem",
   "change_inventoryitem", "receive_stock", "adjust_stock",
   "add_invoice", "issue_invoice", "void_invoice", "record_payment",
   "void_payment", "add_service", "change_service", "change_service_price",
   "deactivate_service", "reactivate_service", "add_productcategory",
   "change_productcategory", "add_product", "change_product",
   "change_product_price", "deactivate_product", "reactivate_product",
   "add_supplier", "change_supplier", "deactivate_supplier",
   "reactivate_supplier", "add_purchaseorder", "change_purchaseorder",
   "submit_purchase_order", "approve_purchase_order", "cancel_purchase_order",
   "receive_purchase_order", "add_supplierinvoice", "change_supplierinvoice",
   "post_supplier_invoice", "void_supplier_invoice",
   "record_supplier_payment", "void_supplier_payment"}

AdministratorMay ==
  ManagerMay \cup
  {"add_user", "change_user", "add_customer", "change_customer",
   "deactivate_customer", "reactivate_customer", "add_vehicle",
   "change_vehicle", "transfer_vehicle_owner", "deactivate_vehicle",
   "reactivate_vehicle"}

Granted ==
  [ADMINISTRATOR |-> AdministratorMay, MANAGER |-> ManagerMay,
   RECEPTIONIST |-> ReceptionistMay, SENIOR_TECHNICIAN |-> SeniorTechnicianMay,
   TECHNICIAN |-> TechnicianMay, CASHIER |-> CashierMay]

\* employee_permission_required, and each service's own check.
May(u, permission) == permission \in Granted[u]

=============================================================================
