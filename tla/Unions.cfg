CONSTANTS
  Type <- Types
  Def <- Defs
  Tag <- Tags
  Field <- Fields
  Unions <- Lists
SPECIFICATION Spec
INVARIANTS ValidatesAsDefined BuildsWhatItAccepts QuickMatchAgrees AssignsWhatItWouldBuild
