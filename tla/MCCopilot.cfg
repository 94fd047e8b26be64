SPECIFICATION Spec
CONSTANTS
  MaxLoops = 3
  Window = 4
  MaxQuestions = 3
INVARIANTS OneWriter RolesAlternate AnswersWhatPrecedes CommandsBounded
PROPERTY EveryQuestionAnswered
