\* The reasons the machines of the repository run transitions for: RomLoad without a
\* retry, ConfigReconfigure with one.  A ROM load beside the transition, and a
\* rejected call.  The program stops once the presenter is detached.
CONSTANTS
  MaxTransitions = 1
  MaxLoads = 1
  Reasons = {"RomLoad", "ConfigReconfigure"}
SPECIFICATION FairSpec
INVARIANT PictureLostOnlyIf
PROPERTY NoFrameAcrossSessions
PROPERTY PictureComesBack
CHECK_DEADLOCK FALSE
