SPECIFICATION FairSpec
CONSTANTS
  Images = {i1, i2, i3}
  NoImage = NoImage
  Remote = Remote
  Probes = {h1, h2}
  Main = Main
CHECK_DEADLOCK FALSE
INVARIANTS DeployAnswers NoImageLoop
PROPERTIES CommandEnds
