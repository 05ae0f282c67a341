SPECIFICATION PanelSpec
CONSTANTS
  Width = 4
  Height = 2
  CountBound = 4
  Boxes <- MCBoxes
  Configs <- MCConfigs
INVARIANTS
  RegionFits
  OwedIsPending
PROPERTY GhostingBounded
