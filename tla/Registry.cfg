SPECIFICATION Spec
CONSTANTS
  Procs = {p1}
  x = x
  y = y
  h = h
  t = t
  Texts = {x, y}
  Domains = {h}
  Tags = {t}
  Ports = {1, 2}
  Unset = Unset
  Dot = Dot
  Invalid = Invalid
  Revisions <- MCRevisions
  Flags <- MCFlags
  Olds <- MCOlds
  Events = {"clone", "port", "fail", "save", "kill"}
CHECK_DEADLOCK FALSE
INVARIANTS DomainsKept FlagsKept ConfigLast DerivedOnlyCompose ManifestMatches
PROPERTY OnlyDestroyRemoves
