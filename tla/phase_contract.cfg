\* Every report the schema accepts under every policy, and every old-style
\* report a directory may hold from before.
CONSTANTS
  NewReports <- SchemaReports
  OldReports <- Reports
SPECIFICATION Spec
INVARIANTS
  HandoffContract
  LaddersCompared
PROPERTIES
  ClosedSettled
  ClosedIsTerminal
