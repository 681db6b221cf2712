SPECIFICATION AssetsSpec
CONSTANTS
  Domains = {"d1"}
  Admins = {"a1", "a2"}
  GoogleSheets = {"sheet"}
  Workbooks = {"book"}
  MaxImports = 2
  MaxVersion = 3
  Syncers = {"y1", "y2"}
  Editors = {"e1"}
  Spreadsheets = {"sheetA"}
  Contents = {"h1", "h2"}
  SyncInterval = 2
  MaxConfig = 5
  SyncHorizon = 3
  Dates = {"d1"}
  NoDate = "nodate"
  OverrideIds = {"o1", "o2"}
  OverrideAdmins = {"m1", "m2"}
  MaxObservations = 3
  OverrideHorizon = 2
  Portfolio = {"p1"}
  RateMaxAge = 1
  MaxCosts = 3
  MaxRates = 1
  LastDay = 3
  Generators = {"g1", "g2"}
  MaxRecommendations = 3
  ReportKeys = {"q1", "q2"}
  Formats = {"json", "pdf"}
  ReportCalls = {"c1", "c2"}
  MaxReports = 2
  MaxRevision = 1
  StockNames = {"a.th", "b.th"}
  Headings = {"Domain", "domain_name", "active", "renewal_price", "currency"}
  CellTexts <- MCCellTexts
  MaxColumns = 3
  MaxCells = 4
INVARIANTS
  AssetsTypeOK
  VersionIdentifiesRow
  
  CurrentObservation
  CostInEffect
  
  
  SameKeySameReport
  PreviewIsUnambiguous
  

  
CHECK_DEADLOCK FALSE
