SPECIFICATION FairSpec
CONSTANTS
  MaxLints = 2
  MaxCopies = 2
  MaxClicks = 3
  Allowance = 1
INVARIANTS TypeOK OneDiagnosis ReportIsNewest LabelComesBack QuotaSettles
PROPERTIES ReadingUndisturbed SubmitComesBack
