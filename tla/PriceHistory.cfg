SPECIFICATION Spec
CONSTANTS
  PriceMax = 100000
  MinHistory = 2
  Recent = 3
  Threshold = 85
  Offers <- MCOffers
  Misreadings <- MCMisreadings
  Answers <- MCAnswers
INVARIANTS
  TypeOK
  DropInOneCurrency
PROPERTIES
  GlitchNeverAlerts
  PriceLevelAccepted
CHECK_DEADLOCK FALSE
