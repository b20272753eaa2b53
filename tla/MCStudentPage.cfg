SPECIFICATION FairSpec
CONSTANTS
  Letters = {"d", "_", "g", "h"}
  Guids = {"g", "h"}
  Names <- AllNames
  PairedNames <- ShortNames
  MemoireIds = {m1}
  Notes = {n1}
  n1 = n1
  Null = Null
  Contents = {c1}
  c1 = c1
  Loads = {l1, l2}
  Posts = {p1, p2}
  Deletes = {d1, d2}
  m1 = m1
  l1 = l1
  l2 = l2
  p1 = p1
  p2 = p2
  d1 = d1
  d2 = d2
INVARIANTS
  OneSubmission
  ListFaithful
  NothingSentTwice
  LoadingAwaited
  LinksFind
  LinksFindNoOther
  NamesKept
PROPERTY
  LoadingEnds
