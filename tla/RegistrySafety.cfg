\* Two Inits, three Uploads of any module and an Add, all of one name.
SPECIFICATION Spec
CONSTANTS
  i1 = i1
  i2 = i2
  u1 = u1
  u2 = u2
  u3 = u3
  a1 = a1
  alice = alice
  c1 = c1
  c2 = c2
  InitCall = {i1, i2}
  UploadCall = {u1, u2, u3}
  AddCall = {a1}
  NameOf <- OneName
  NoName = NoName
  Contract = {c1, c2}
  Library = {lib}
  Broken = {broken}
  EmptyFile = EmptyFile
  NoField = NoField
  Malformed = Malformed
  None = None
SYMMETRY Symmetry
INVARIANTS
  TypeOK
  AnswerFound
  UploadServes
  FunctionOfFile
PROPERTIES
  FunctionKept
