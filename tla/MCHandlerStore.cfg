SPECIFICATION Spec
CONSTANTS
  k1 = k1
  Key <- MCKey
  Field <- MCField
  Text = text
  Loose = loose
  I64Max = 2
  MaxList = 2
INVARIANTS BackendsAgree AnsweredAlike
