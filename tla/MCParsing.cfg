SPECIFICATION Spec
CONSTANTS
  Words <- MCWords
  Numerals <- MCNumerals
  Files <- MCFiles
  MaxVisits = 25
  Jobs <- MCJobs
INVARIANTS ErrorsTold NeverStuck SameTree RoundTrip MacrosTransparent ImportsInPlace NamesKept DeclarationsKept
CHECK_DEADLOCK FALSE
