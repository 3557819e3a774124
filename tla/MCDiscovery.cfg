\* One thesis with evidence of every sort, or two that compete for every place:
\* validation, the build, the acquisition.
CONSTANTS
  t1 = t1
  t2 = t2
  a1 = a1
  Theses = {t1, t2}
  Apps = {a1}
  Drafts <- EverySort
  Decisions = {"verified", "rejected"}
  ValidationLimit = 1
  BuildLimit = 1
  AcquisitionLimit = 1
  MaxProposals = 2
  MaxExperiments = 2
  MaxBuilds = 2
  MaxAcquisitions = 2
  Amounts = {1}
  MayCrash = TRUE
SYMMETRY Alike
CONSTRAINT Slices
SPECIFICATION Spec
CHECK_DEADLOCK FALSE
INVARIANT HandoffFrozen
INVARIANT PlacesBacked
PROPERTY ProvenUntilRejected
PROPERTY LimitsRespected
