SPECIFICATION Spec
CONSTANTS
  btc = btc
  eth = eth
  Symbols <- MCSymbols
  NoSymbol = NoSymbol
  BufferMax = 2
  MaxSeq = 3
  MaxFails = 1
SYMMETRY SymbolSymmetry
INVARIANTS
  StreamsAgree
  ResyncIsQuiet
  BufferIsNewest
CHECK_DEADLOCK FALSE
