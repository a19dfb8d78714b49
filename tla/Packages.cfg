\* The user goes on changing things or stops: nobody has to give a command.
SPECIFICATION Spec
CONSTANTS
  Packages = {"core", "app"}
  Depends <- MCDepends
  Unsummed = {"app"}
  MaxVersion = 2
  MaxCommands = 3
  MaxFaults = 2
INVARIANTS DoneMeansInstalled OnlyVerifiedUnpacked
CHECK_DEADLOCK FALSE
