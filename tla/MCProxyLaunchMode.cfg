SPECIFICATION SpecAutomatic
CONSTANTS
  w1 = w1
  w2 = w2
  hStandard = hStandard
  hSingleTop = hSingleTop
  hAlias = hAlias
  tStandard = tStandard
  tSingleTop = tSingleTop
  tMissing = tMissing
  Wrappers = {w1, w2}
  Hosts = {hStandard, hSingleTop, hAlias}
  Aliases = {hAlias}
  Launchers = {hAlias}
  Mains = {hStandard, hAlias}
  Targets = {tStandard, tSingleTop, tMissing}
  Missing = {tMissing}
  LaunchMode <- MCLaunchMode
  MaxStarts = 2
  MaxForeign = 1
INVARIANTS
  ProxyHasLaunchMode
CHECK_DEADLOCK FALSE
