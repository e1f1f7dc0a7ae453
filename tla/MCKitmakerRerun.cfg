SPECIFICATION Spec
CONSTANTS
  torch = torch  vision = vision  t312 = t312  t313 = t313  v = v
  Wheels <- MCWheels
  Packages <- MCPackages
  PackageOf <- MCPackageOf
  Order <- MCOrder
  Pics = {"alice", "bob"}
  Blank = ""
  NoApproval = NoApproval
  MaxAttempts = 2
  MaxPolls = 1
INVARIANT
  RerunIsTheWayBack
