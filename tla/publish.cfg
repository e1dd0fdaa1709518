SPECIFICATION Spec
CONSTANTS
  r1 = r1
  r2 = r2
  d1 = d1
  d2 = d2
  darwin = darwin
  linux = linux
  NoRun = NoRun
  Host = Host
  Runs <- MCRuns
  Dirs <- MCDirs
  Artifacts <- MCArtifacts
  Listed = {darwin}
  Ports <- MCPorts
  Workloads <- MCWorkloads
  Volatile = {linux}
  MaxBuild = 2
  MaxRelease = 1
INVARIANTS
  TypeOK
  UrlComplete
  BundleWhole
  OneAnswer
  AddNeverRefused
  UrlServed
CHECK_DEADLOCK FALSE
