SPECIFICATION ModeSpec
CONSTANT MaxBits = 3
INVARIANTS ConfirmationMatchesReading ClosedMakesTheHeadline ManualMeansAPerson WorstProblemFirst
CHECK_DEADLOCK FALSE
