SPECIFICATION SettingsSpec
CONSTANTS
  Handler = {h1}
  Home = Home
  Proj = {Home}
  Provider = {p1, p2}
  Name = {n1}
  MaxCommand = 2
  MaxCli = 0
  Nobody = Nobody
  NoName = NoName
PROPERTY RemovalKeepsActive
CHECK_DEADLOCK FALSE
