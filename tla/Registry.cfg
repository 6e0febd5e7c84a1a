SPECIFICATION Spec
CONSTANTS
  Threads = {t1, t2, t3}
  Handles = {h1, h2}
  Formats = {f1, f2}
  Memories = {m1}
  None = None
SYMMETRY Symmetry
INVARIANTS OwnedRegistered LookupsSucceed NothingStale
