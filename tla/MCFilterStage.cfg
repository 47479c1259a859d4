SPECIFICATION Spec
CONSTANTS
  NUM_WEIGHTING_COEFFICIENTS = 5
  weightingCoefficients <- MCCoefficients
  Samples = {0, 1, 99}
  NoMean = NoMean
INVARIANT TypeOK
PROPERTY ImplementsWindow
