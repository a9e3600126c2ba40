CONSTANTS
  CompanyInputs <- Inputs
  ItemInputs <- Items

SPECIFICATION Spec
INVARIANT TypeOK
INVARIANT ServerErrorsAreKnown
INVARIANT HoldsWhatWasTyped
INVARIANT SavingAgainChangesNothing
