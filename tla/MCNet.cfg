SPECIFICATION Spec
CONSTANTS
  PAGES = 4
  ARP_CACHE_SIZE = 3
  KSOCK_MAX = 1
  TCP_RXBUF_SIZE = 3
  SEQ = 8
  Hosts = {2}
  Local <- NetLocal
  g_gateway = 1
  Servers <- NetServers
  Ports = {1}
  Packets <- NetPackets
  Rtc <- NetRtc
  ARP_POLLS = 1
  CONNECT_POLLS = 1
  QUERY_POLLS = 1
  Orderly = TRUE
  MaxPackets = 4
  MaxCalls = 4
VIEW View
INVARIANTS  StreamKept
PROPERTIES EventuallyRead ClockRight
CHECK_DEADLOCK FALSE
