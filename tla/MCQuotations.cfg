\* One job (jobs do not share rows), three revisions of up to two lines.
SPECIFICATION QuotationsSpec
CONSTANTS
  Jobs = {1}
  Discounts = {0, 10000}
  Taxes = {0, 1800}
  Prices = {1, 300}
  MaxLines = 2
  MaxRevisions = 3
PROPERTIES
  SentIsFrozen
  ImplementsAgreement
\* A job may be cancelled and its quotation decided: nothing is left to do.
CHECK_DEADLOCK FALSE
