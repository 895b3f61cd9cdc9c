SPECIFICATION Spec
CONSTANTS
  Thread = {t1, t2}
  Type <- MCType
  Chain <- MCChain
  Descriptor <- MCDescriptor
  Null = null
  Section <- MCSection
SYMMETRY symmetry
INVARIANTS AnswersSound AnswersComplete FailuresCover
