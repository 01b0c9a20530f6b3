SPECIFICATION FairSpec
CONSTANTS
  Docs <- MCDocs
  Budget = 8
  Gap = 2
INVARIANTS
  TypeOK
  ChunksFit
  TextKept
  LinksWhole
  HeadingsLead
  HeadersKept
PROPERTIES
  SplitEnds
CHECK_DEADLOCK FALSE
