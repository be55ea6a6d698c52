SPECIFICATION HalvesSpec
CONSTANTS
  Detours = 1
  Deep = {"literal_list"}
  YYINITDEPTH = 11
  Texts <- SomeTexts
  Leftovers <- SomeLeftovers
  LLONG_MAX = 99
INVARIANTS TypeOK OneOwner LeaksAreKnown FaultsAreKnown ParametersPointIntoTree ScannerReadsText
