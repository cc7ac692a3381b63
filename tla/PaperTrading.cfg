SPECIFICATION Spec
CONSTANTS
  MaxMantissa = 127
  MaxScale = 2
  Factors = 3
  MaxArbitrage = 2
  FeePart = 10
  EdgeThreshold <- MCThreshold
  PriceUnit = 10
  AssetUnit = 1000
  Symbols <- MCSymbols
  Info <- MCInfo
  OrderIds <- MCOrderIds
  Triangles <- MCTriangles
  Stream <- MCStream
  Texts <- MCTexts
  Numbers <- MCNumbers
  FirstLegStop = FALSE
  CycleBound = 2
  UpdateBound = 5
  LookupBound = 1
  None = None
INVARIANTS TypeOK DecimalsAreExact PathsAreRoundTrips LiquiditySoldOnce HoldingsMatchWallet
PROPERTIES ScanFits ScanFindsEdge PreflightHonoured ImplementsGateway
