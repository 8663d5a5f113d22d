\* Reports that pass the report schema, in fresh task directories.
CONSTANTS
  NewReports <- SchemaReports
  OldReports = {}
SPECIFICATION Spec
INVARIANT UserStopIsExplicit
