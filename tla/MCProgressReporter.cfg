SPECIFICATION FairSpec
CONSTANTS
  Boot <- MCBoot
  MaxCycles = 4
  RetireWidth = 1
  PublishInterval = 2
  MaxTimeouts = 2
INVARIANTS TypeOK WindowsAreProgress QuietAfterFinish
PROPERTY FinishReturns
