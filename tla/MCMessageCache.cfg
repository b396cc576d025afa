SPECIFICATION Spec
CONSTANTS
  v1 = v1
  v2 = v2
  v3 = v3
  v4 = v4
  b1 = b1
  b2 = b2
  b3 = b3
  Size = 2
  Votes = {v1, v2, v3, v4}
  Hashes = {b1, b2, b3}
  Position <- MCPosition
  Handlers = {h1, h2}
INVARIANTS
  VotesAccounted
  BlocksBounded
  
