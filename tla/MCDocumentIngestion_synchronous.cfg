SPECIFICATION Spec
CONSTANTS
  Clients = {c1, c2}
  Docs = {d1, d2}
  Contents = {x}
  None = None
  MaxFaults = 0
SYMMETRY Symmetry
INVARIANT UploadIsSynchronous
