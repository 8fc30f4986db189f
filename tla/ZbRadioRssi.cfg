SPECIFICATION Spec
CONSTANTS
  MaxScans = 4
INVARIANTS
  GetRssiReturnsThisScan
