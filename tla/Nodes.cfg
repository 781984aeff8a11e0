\* A node, two keys, up to three codes in a list of two, two GUI servers
\* and an MCP server, two saves or processes that fail.
SPECIFICATION NodesSpec
CONSTANTS
  Node = {n1}
  Key = {k1, k2}
  NoKey = NoKey
  Process = {gui, gui2, mcp}
  Claimed = {gui, gui2}
  MaxCodes = 2
  MaxIssued = 3
  MaxFailures = 2
SYMMETRY Symmetric
INVARIANTS
  CodesSound
  RevokedStaysOut
  TrustSound
CHECK_DEADLOCK FALSE
