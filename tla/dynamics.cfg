SPECIFICATION Spec
CONSTANTS
  Fields = {fee, size}
  Values = {0, 1}
  standardParameters <- MCStandard
  MaxEpoch = 4
INVARIANT LinksAgree
PROPERTY PastKept
PROPERTY HeadUpdated
PROPERTY ImplementsTable
