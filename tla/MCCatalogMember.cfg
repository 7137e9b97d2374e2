CONSTANTS
  i1 = i1
  i2 = i2
  i3 = i3
  hello = hello
  careful = careful
  k1 = k1
  k2 = k2
  Item = {i1, i2, i3}
  NoItem = noitem
  Message = {hello, careful}
  NoMessage = nomessage
  TextOf <- Texts
  Key = {k1, k2}
  KeyOf <- Keys
  Call = {c1, c2}
  MaxQueue = 3
SPECIFICATION MemberFairSpec
INVARIANTS
  MetadataFirst
  KeysOnce
  DismissedIsGone
PROPERTY TextsSeen
