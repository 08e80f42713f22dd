\* Two invoice keys, two sends at once, a lost state file or a lost volume.
SPECIFICATION Spec
CONSTANTS
  Refunds = {r1, r2}
  Sums = {1}
  Float <- TillFloat
  Fee = 1
  Losses = {"file", "both"}
  MaxInvoices = 2
  MaxCoins = 3
  MaxStops = 1
SYMMETRY RefundSymmetry
INVARIANTS
  KeysSurvive
  FreshAddresses
  RefusedStaysRefused
  SuccessesPayApart
