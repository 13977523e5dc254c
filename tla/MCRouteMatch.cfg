CONSTANTS
  a = a  b = b  none = none  get = get  put = put
  Text = {a, b}
  Empty = none
  Method = {get, put}
  Patterns <- MCPatterns
  MethodSpecs <- MCMethodSpecs
  Paths <- MCPaths
  MaxTable = 3
SYMMETRY Sym
SPECIFICATION Spec
INVARIANTS Unambiguous
PROPERTIES StableAnswers
