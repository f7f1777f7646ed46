SPECIFICATION ChannelsSpec
CONSTANTS
  Messages = {1, 2, 3}
  Aside = {2}
  Blank = {2}
  Froms = {"any"}
  Agents = {"B"}
  DefaultAgent = "A"
  Pumps = {1, 2}
  BatchLimit = 2
  MaxQuestions = 1
  MaxReleases = 1
  MaxUpsets = 1
CHECK_DEADLOCK FALSE
INVARIANT   MappingKept AnswersStayHome 
PROPERTY AnswerIsFollowed
