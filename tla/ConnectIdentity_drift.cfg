SPECIFICATION IdentitySpec
CONSTANTS
  FirstUris <- MCUris
  Words <- MCWords
  Fresh <- MCFresh
  Texts <- MCTexts
  Uuids <- MCUuids
  Ports = {1, 443}
  Layers = 1
  MaxParams = 4
  Changes = 3
INVARIANTS
  IdentityTypeOK
  ListedOnce
PROPERTIES
  RowPerNode
