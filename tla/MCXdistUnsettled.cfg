CONSTANTS
  w1 = w1
  w2 = w2
  w3 = w3
  a = a
  b = b
  Tests <- MCTests
  Everything = Everything
  Workers <- MCWorkers
  Spares <- MCSpares
  Collections <- MCCollections
  Answers <- MCAnswers
  Circumstances <- MCCircumstances
  NoCollection = NoCollection
  NoFile = NoFile

SPECIFICATION Spec
SYMMETRY Symmetry

INVARIANT NothingLeavesUnsettled
