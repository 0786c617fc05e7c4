SPECIFICATION Spec
CONSTANTS
  Users = {u1, u2}
  Clients = {c1, c2}
  None = None
  MaxMembers = 2
  MaxRooms = 2
  MaxNotebooks = 1
SYMMETRY Symmetry
INVARIANT TypeOK
INVARIANT SharedByManagers
PROPERTY CreationRaceIsHarmless
