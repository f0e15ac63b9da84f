SPECIFICATION Spec
CONSTANTS
  MaxLines = 4
  CleanLines = 5
  Template <- ShippedTemplate
  InitialFiles <- FilesOfBothKinds
INVARIANTS
  TypeOK PatchConverges PatchKeepsTheRest RoundTrip PatchUndoesDisable
  TogglesDecideIfMentionedOnce UnchangedReconcileLoads
PROPERTIES ReconcileLoads RestartForNothingOnlyIfOpen
