\* The four inventory pages: STPs, named objects (topologies and switching
\* services) and SDPs, whose members come in either order and whose ends may
\* have an unknown or a zero capacity.
SPECIFICATION Spec
CONSTANTS
  Kind = {"stp", "named", "sdp"}
  Local = {1, 2}
  SubForm = {"bare"}
  DocForm = {"urn", "vlan"}
  Capacity <- MCCapacity
  PageLimit = 3
  MaxSubs <- MCMaxSubs
  MaxDocs <- MCMaxDocs
  MaxEdits <- MCMaxEdits
INVARIANTS
  TypeOK
  StableObjectsRight
  OneRowPerObject
  EndsInTheirColumns
  CapacityIsTheLowerEnd
