CONSTANTS
  Base = 2
  IntMax = 7
  LLMax = 9
  Versions <- AllVersions
SPECIFICATION Spec
INVARIANTS NumbersDecide Antisymmetric EqualButForBuild OrdersAgreeOnNumbers OrdersOpposeOnReleases PiecesDecide
PROPERTIES Transitive SemVerTransitive
