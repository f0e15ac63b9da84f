SPECIFICATION Spec
CONSTANTS
  MaxLines = 3
  CleanLines = 3
  Template <- TerminatedTemplate
  InitialFiles <- AllFiles
INVARIANT TogglesDecide
