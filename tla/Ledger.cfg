SPECIFICATION MCSpec
CONSTANTS
  b1 = b1  b2 = b2  b3 = b3  b4 = b4
  k1 = k1  k2 = k2  k3 = k3  k4 = k4
  Handles = {"desk", "cli"}
  Batches = {b1, b2, b3, b4}
  Keys = {k1, k2, k3, k4}
  KeysOf <- KeysOfBatches
  NoHandle = NoHandle
  NoBatch = NoBatch
  MaxRows = 4
  m1 = m1  m2 = m2
  Mints = {m1, m2}
  Initial = 20
  Network = 1
  Units = {2}
  Prices = {2, 4}
  MaxLedgerRows = 6
  MaxDay = 2
  MaxStops = 1
  MaxExportRows = 4
  MaxExportDay = 2
  MaxExports = 3
INVARIANTS VerifyExact KeyStoredOnce EveryLamportExplained Reconciles ReadersAgree ExportSound
PROPERTIES ImplementsLog SaleNeverLifts
CHECK_DEADLOCK FALSE
SYMMETRY MintSymmetry
