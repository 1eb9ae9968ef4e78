SPECIFICATION FairSpec
CONSTANTS
  LabelRewrite = TRUE
  BusiGroupLabelKey = "busigroup"
  GroupLabels <- OneGroup
  Hosts = {"web1", "web2"}
  Gateways = {"center", "edge"}
  Center = "center"
  Series <- TwoSeries
  IgnoreIdent = FALSE
  Contents <- TwoContents
  NewContent <- Untagged
  BatchSize = 1
  MaxTime = 2
  MaxRequests = 2
  MaxEdits = 1
  MaxDeletes = 1
  MaxFailures = 1
  MaxRestarts = 1
INVARIANTS TypeOK NoReportLost CacheComplete EditsSeen
PROPERTIES LabelsUnique EventuallyCached
CHECK_DEADLOCK FALSE
