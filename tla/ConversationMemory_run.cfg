SPECIFICATION Spec
CONSTANTS
  question = question
  chat = chat
  Msg = {question, chat}
  Kind <- OneEach
  RestoreLimit = 2
  MaxStarts = 2
INVARIANTS
  OneRowPerMessage
  SessionRowFirst
  AnswerFollowsQuestion
  QuestionInHistory
CHECK_DEADLOCK FALSE
