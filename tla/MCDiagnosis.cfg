SPECIFICATION Spec
CONSTANTS
  dt = dt
  da = da
  db = db
  dc = dc
  None = None
  Target = dt
  ResultK = 2
  CandidateK = 3
  RankConstant = 1
  Bm25Weight = 1
  AnnWeight = 1
  ShareScale = 12
  Judged <- MCDocs
  IdOrder <- MCIdOrder
  Requests <- MCRequests
  Answers <- MCAnswers
  MaxCancels = 2
INVARIANTS
  SoundAnswerIsReported
  FilterFindingsAreTheCauses
  FusionMembershipIsCertain
  WarningMeansDifference
  CancelledRequestEndsCancelled
PROPERTIES
  RequestEnds
