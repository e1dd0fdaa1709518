SPECIFICATION Spec
CONSTANTS
  spark = spark
  testusers = testusers
  nobody = nobody
  root = root
  stub1 = stub1
  stub2 = stub2
  Services = {spark, testusers}
  Users = {nobody, root}
  Urls = {stub1, stub2}
  Granted = {spark, nobody}
  Modules <- MCModules
  MaxSessions = 3
  MaxFaults = 3
INVARIANTS
  TypeOK
  JobsAuthorized
  FreshDispatcher
  DriversKilled
  NothingLeft
  LeftoversOvercome
CHECK_DEADLOCK FALSE
