SPECIFICATION FairSpec
CONSTANT MaxToken = 3
INVARIANTS TypeOK AnsweredByOwnReply Resynchronised TracedToLog StopIsOwn AnswersInOrder
PROPERTIES ImplementsCalls CallsReturn
