\* Blocks 0..3: activations in one block, in later blocks, and rewinds to
\* every point of the history.
CONSTANTS
  f1 = f1
  f2 = f2
  f3 = f3
  u = u
  Features <- MC_Features
  Digests <- MC_Digests
  Dependencies <- MC_Dependencies
  StoredLedgers <- MC_StoredLedgers
  MaxBlock = 3
SPECIFICATION Spec
INVARIANT DependenciesActivatedFirst
