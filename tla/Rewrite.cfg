CONSTANTS
  Names <- MCNames
  RealIp = "x-real-ip"
  FwdFor = "x-forwarded-for"
  FwdHost = "x-forwarded-host"
  FwdProto = "x-forwarded-proto"
  Via = "via"
  ReqId = "x-gateway-req-id"
  Host = "host"
  NoName = ""
  CStr <- MCCStr
  Hash <- MCHash
  HeaderMax = 8
  CustomMax = 2
  Requests <- MCRequests
  Settings <- MCSettings
SPECIFICATION Spec
INVARIANTS
  NoForgedHeaders
  OthersKept
  InjectedIfRoom
CHECK_DEADLOCK FALSE
