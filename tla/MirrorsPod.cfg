SPECIFICATION Spec
CONSTANTS
  Proc <- MCOneProc
  NetNs <- MCOneNs
  Home = "a"
  NsOf <- MCNsOf
  Numbers <- MCNumbers
  ForChildren <- MCForChildren
  Proxy <- MCProxy
  Cookie = {4, 5, 6}
  KeySpace = 4
  SrcPort = {40000, 40001}
  Dest <- MCDirect
  AddrBits = 4
  PodNet = 8
  PodMask = 1
  ProxyEP <- MCProxyEP
  MAX_CONNECTIONS = 3
INVARIANT TypeOK
INVARIANT MapsComplete
INVARIANT ResolvesOwnDestination
INVARIANT RedirectedIsFound
INVARIANT ProxyNotProxied
CHECK_DEADLOCK FALSE
