\* One service, under the user, the queue, Windows and two ends of the panel.
SPECIFICATION FairSpec
CONSTANT MaxEnds = 1
INVARIANTS IntentHonest
PROPERTIES StopHeld ServingSpared Recovers
