SPECIFICATION Spec
CONSTANTS
  s1 = s1  s2 = s2
  Values = {s1, s2}
  NoSecret = NoSecret
  Sentinel = Sentinel
  Installed = {"claude", "codex"}
  Reloads = {1, 2}
  Nothing = Nothing
  Initial <- FewConfigs
  MaxEdits = 3
INVARIANTS OnlyValid Settled SecretsKept
CHECK_DEADLOCK FALSE
