CONSTANTS
  r1 = r1
  r2 = r2
  daemon = daemon
  Requests <- OneRequest
  Daemon = daemon
  Versions = {20, 21, 30}
  Unnumbered = {}
  Chosen = {20}
  First = 20
  AutoUpdate = TRUE
SPECIFICATION UpdatesFairSpec
INVARIANTS TemplateNotMixed AutoNotAboveMajor
PROPERTY UpdatesTasksEnd
