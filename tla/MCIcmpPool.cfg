SPECIFICATION IcmpSpec
CONSTANTS
  Target = {t1, t2}
  SeqMod = 4
  MaxProbes = 6
SYMMETRY Targets
INVARIANTS
  RepliesOwn
