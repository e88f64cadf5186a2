SPECIFICATION Spec
CONSTANTS
    Sentence <- Sentences
    Size <- Sizes
    Noise <- Noises
VIEW View
INVARIANTS
    TypeOK
    Genuine
    Recovers
CHECK_DEADLOCK FALSE
