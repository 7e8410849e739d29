SPECIFICATION FairSpec
CONSTANTS
  w1 = w1
  w2 = w2
  Questions = {1, 2, 3}
  Wordings <- MCWordings
  Stubborn = {1, 2}
  MaxSections = 1
  BatchSize = 2
  NoNote = NoNote
  NoBase = NoBase
  MaxPublications = 2
  MaxEdits = 3
  MaxFaults = 1
PROPERTIES AnswersFit AnswersStay ConflictsAreEarned QuestionsAnswered
