SPECIFICATION Spec
CONSTANTS
  Panes = {p1, p2, p3, p4}
  NoPane = NoPane
  Axes = {Horizontal, Vertical}
  DefaultAxis = Horizontal
  ValidRatios = {Half, Third}
  DefaultRatio = Half
  InvalidRatios = {Zero}
  MaxDepth = 2
SYMMETRY Symmetry
INVARIANT
  TreeIsValid
PROPERTIES
  CloseCollapsesParent
  SplitDividesTarget
  OrderSpec
