SPECIFICATION Spec
CONSTANTS
  MaxLines = 3
  CleanLines = 3
  Template <- ShippedTemplate
  InitialFiles <- CleanFiles
PROPERTY RestartOnlyIfFileChanges
