\* A port that was somebody else's for a while.
SPECIFICATION FairSpec
CONSTANT MaxEnds = 0
PROPERTY StoppedIsStarted
