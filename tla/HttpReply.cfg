CONSTANTS
  Blank = " "
  None = None
  Agents = {a1, main}
  Main = main
  Alias = Alias
  NoAgent = NoAgent
  NoLimit = NoLimit
  Absent = Absent
  Chars = {"a", " "}
  MaxText = 3
  MaxGrow = 2
  MaxFrames = 3
SPECIFICATION Spec
INVARIANTS ReplyAccounted FinalTextArrives NothingTwice ListedIsSelectable
PROPERTIES EveryReplyEnds
CHECK_DEADLOCK FALSE
