SPECIFICATION Spec
CONSTANTS
  Proc <- MCTwoProc
  NetNs <- MCTwoNs
  Home = "a"
  NsOf <- MCNsOf
  Numbers <- MCNumbers
  ForChildren <- MCForChildren
  Proxy <- MCProxy
  Cookie = {4, 5}
  KeySpace = 4
  SrcPort = {40000, 40001}
  Dest <- MCPods
  AddrBits = 4
  PodNet = 8
  PodMask = 1
  ProxyEP <- MCProxyEP
  MAX_CONNECTIONS = 3
INVARIANT ResolvesOwnDestination
CHECK_DEADLOCK FALSE
