SPECIFICATION Spec
CONSTANTS
  Width = 3
  NoInfo = NoInfo
  NoPrefix = NoPrefix
  AsRA = AsRA
  Unknown = Unknown
  Prefixes <- TwoPrefixes
  Excludes <- ThreeExcludes
  SomeInfos <- AnyInfos
  SomeTargets <- FewTargets
  SomeFrames <- AnyFrames
INVARIANTS
  TypeOK
  VerdictRight
  EachCheckMeant
  NestedInPrefix
  FiltersRight
