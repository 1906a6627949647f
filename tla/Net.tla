-------------------------------- MODULE Net --------------------------------
(***************************************************************************)
(* ParinOS's network: the NE2000 driver (src/drivers/ne2000.c), the ARP,   *)
(* IP, ICMP, TCP and UDP of src/net/lwip_port.c, time from the network     *)
(* (sntp.c, kernel.c) and the socket calls (net.c, user.c).                *)
(*                                                                         *)
(* Nothing is driven by interrupts: packets stay in the card's ring until  *)
(* somebody polls, the idle loop or a call that waits.  A handler that     *)
(* sends may have to wait for ARP and polls itself, so cs[t] keeps the     *)
(* activations of thread t, the innermost last.  Whatever arrives is a     *)
(* packet of Packets: lost, late, repeated and foreign ones included.      *)
(* A packet takes one page of the ring, and a host's address stands for    *)
(* its MAC.  Left out: the contents of what is sent, checksums, ids and    *)
(* seq_tx, none of which is ever tested.                                   *)
(* X_Y before X is a faulty variant of X.                                  *)
(***************************************************************************)
EXTENDS Calendar, SequencesExt

CONSTANTS
  PAGES,            \* of the receive ring
  ARP_CACHE_SIZE, KSOCK_MAX,
  TCP_RXBUF_SIZE,
  SEQ,              \* sequence numbers, 2^32
  Hosts,            \* addresses, numbers from 1
  Local(_),         \* is in our subnet
  g_gateway,
  Servers,          \* the time servers in the order they are asked
  Ports, Packets,
  Rtc,              \* seconds that the clock chip may show at boot, read as UTC
  ARP_POLLS, CONNECT_POLLS, QUERY_POLLS,
  Orderly,          \* hosts ask for our address before they send, and threads
                    \* are switched only between calls
  MaxPackets, MaxCalls     \* bounds

Threads == {"idle", "prog"}
Socks == 1 .. KSOCK_MAX
NTP_LOCAL_PORT == 12300
Addresses == Nat \ {0}

\* The packets that the port understands.
PacketRec ==
  [k : {"arp", "icmp"}, ip : Addresses] \cup [k : {"udp"}, ip : Addresses, dport : Nat, data : Seq(Int)]
    \cup [k : {"tcp"}, ip : Addresses, sport : Nat, dport : Nat,
          flags : SUBSET {"SYN", "ACK", "PSH", "FIN", "RST"}, seq : Nat, data : Seq(Int)]
Neighbours == {p.ip : p \in {q \in Packets : q.k = "arp"}}

ASSUME NetAssumption ==
  /\ PAGES \in Nat \ {0, 1} /\ {ARP_CACHE_SIZE, KSOCK_MAX, TCP_RXBUF_SIZE, SEQ} \subseteq Nat \ {0}
  /\ Hosts \subseteq Addresses /\ Ports \subseteq Nat /\ g_gateway \in Addresses
  /\ Servers \in Seq(Addresses) /\ Servers # <<>> /\ Rtc \subseteq Nat
  /\ Packets \subseteq PacketRec /\ Orderly \in BOOLEAN

\* In the orderly network the ARP cache has room for every neighbour.
ASSUME OrderlyAssumption ==
  Orderly => IsFiniteSet(Neighbours) /\ Cardinality(Neighbours) <= ARP_CACHE_SIZE

VARIABLES
  nic,           \* ring, CURR, BNRY, and PRX and OVW of ISR
  g_next_pkt,
  net,           \* g_arp_cache, g_tcp, and the datagram waited for
  g_sockets,
  clock,         \* g_ntp_synced, and the server's and the chip's time that the offset is taken of
  cs,            \* activations of each thread
  due, once,     \* history: packets stored and not yet given to the stack; all were given in order
  arrivals, calls

vars == <<nic, g_next_pkt, net, g_sockets, clock, cs, due, once, arrivals, calls>>
History == <<due, once, arrivals>>

Next_(page) == (page + 1) % PAGES
Empty == [k |-> "none"]
NoSock == [connected |-> FALSE, ip |-> 0, rport |-> 0, lport |-> 0, seq_rx |-> 0, head |-> 0, tail |-> 0,
           buf |-> [j \in 0 .. TCP_RXBUF_SIZE - 1 |-> 0], queue |-> <<>>]

-----------------------------------------------------------------------------
\* ARP.  0 is an entry that is not valid.
arp_cache_lookup(n, ip) == \E i \in 1 .. ARP_CACHE_SIZE : n.arp[i] = ip
arp_cache_insert(n, ip) ==
  LET free == {i \in 1 .. ARP_CACHE_SIZE : n.arp[i] = 0}
      slot == IF free = {} THEN 1 ELSE CHOOSE i \in free : \A j \in free : i <= j
  IN  IF arp_cache_lookup(n, ip) THEN n ELSE [n EXCEPT !.arp[slot] = ip]
Hop(ip) == IF Local(ip) THEN ip ELSE g_gateway

\* [net, stack].  The packet leaves at once, or when the host of the next hop
\* has answered: an activation that waits.
ip_send(s, to) ==
  IF arp_cache_lookup(s.net, Hop(to)) THEN s
  ELSE [s EXCEPT !.stack = Append(@, [f |-> "ip_send", to |-> to, tries |-> 0, res |-> 0])]
tcp_send_flags(s, i) == ip_send(s, s.net.tcp[i].ip)

-----------------------------------------------------------------------------
\* What a packet does.
handle_arp(s, p) == [s EXCEPT !.net = arp_cache_insert(@, p.ip)]
handle_icmp(s, p) == ip_send(s, p.ip)

rx_store_NoFull(k, b) ==
  [k EXCEPT !.buf[k.tail] = b, !.tail = (k.tail + 1) % TCP_RXBUF_SIZE,
            !.queue = IF Len(@) < TCP_RXBUF_SIZE - 1 THEN Append(@, b) ELSE @]

\* A byte goes in the ring unless that is full.
rx_store(k, b) ==
  LET next == (k.tail + 1) % TCP_RXBUF_SIZE
  IN  [(IF next # k.head THEN [k EXCEPT !.buf[k.tail] = b, !.tail = next] ELSE k)
         EXCEPT !.queue = IF Len(@) < TCP_RXBUF_SIZE - 1 THEN Append(@, b) ELSE @]

rx_bytes(k, data) ==
  LET stored[n \in 0 .. Len(data)] == IF n = 0 THEN k ELSE rx_store(stored[n - 1], data[n])
  IN  stored[Len(data)]

handle_tcp(s, p) ==
  LET mine == {i \in Socks : LET k == s.net.tcp[i] IN
                 k.connected /\ k.ip = p.ip /\ k.rport = p.sport /\ k.lport = p.dport}
      i == CHOOSE j \in mine : \A m \in mine : j <= m
      Seen(n) == [s EXCEPT !.net.tcp[i].seq_rx = (p.seq + n) % SEQ]
  IN  IF mine = {} THEN s
      ELSE IF "RST" \in p.flags THEN [s EXCEPT !.net.tcp[i].connected = FALSE]
      \* the connection ends once the answer is sent
      ELSE IF "FIN" \in p.flags
           THEN tcp_send_flags([Seen(1) EXCEPT !.stack[Len(s.stack)].fin = i], i)
      ELSE IF {"ACK", "SYN"} \subseteq p.flags THEN tcp_send_flags(Seen(1), i)
      ELSE IF p.data = <<>> THEN s
      ELSE tcp_send_flags([Seen(Len(p.data)) EXCEPT !.net.tcp[i] = rx_bytes(@, p.data)], i)

handle_udp(s, p) ==
  IF s.net.udp.port # 0 /\ p.dport = s.net.udp.port /\ s.net.udp.data = <<>>
  THEN [s EXCEPT !.net.udp.data = p.data] ELSE s

lwip_rx_input(s, p) ==
  CASE p.k = "arp" -> handle_arp(s, p) [] p.k = "icmp" -> handle_icmp(s, p)
    [] p.k = "tcp" -> handle_tcp(s, p) [] p.k = "udp" -> handle_udp(s, p)

-----------------------------------------------------------------------------
\* Threads.
top(t) == cs[t][Len(cs[t])]
Turn(t) == Orderly => \A u \in Threads \ {t} : cs[u] = <<>>
In(t, f) == cs[t] # <<>> /\ top(t).f = f /\ Turn(t)
Below(t) == SubSeq(cs[t], 1, Len(cs[t]) - 1)
\* The innermost activation ends with res.
Return(stack, res) ==
  IF stack = <<>> THEN <<>> ELSE [stack EXCEPT ![Len(stack)].res = res]
Now(t) == [net |-> net, stack |-> cs[t]]
Goes(t, s) == net' = s.net /\ cs' = [cs EXCEPT ![t] = s.stack]

-----------------------------------------------------------------------------
\* The driver.
Poll == [f |-> "poll", pkt |-> Empty, next |-> 0, fin |-> 0, got |-> FALSE, ovw |-> FALSE, res |-> 0]

\* ne2000_poll up to its loop; stack is the caller's.
ne2000_poll(t, stack) ==
  IF nic.prx \/ nic.ovw
  THEN /\ cs' = [cs EXCEPT ![t] = Append(stack, [Poll EXCEPT !.ovw = nic.ovw])]
       /\ nic' = [nic EXCEPT !.prx = FALSE]
  ELSE cs' = [cs EXCEPT ![t] = stack] /\ UNCHANGED nic

PollRead(t) ==
  /\ In(t, "poll") /\ ~top(t).got /\ g_next_pkt # nic.curr
  /\ cs' = [cs EXCEPT ![t][Len(cs[t])].got = TRUE, ![t][Len(cs[t])].pkt = nic.ring[g_next_pkt],
                      ![t][Len(cs[t])].next = Next_(g_next_pkt)]
  /\ UNCHANGED <<nic, g_next_pkt, net, g_sockets, clock, History, calls>>
\* g_rx_cb, which may leave a wait for ARP on the stack.
PollDeliver(t) ==
  LET a == top(t)
  IN  /\ In(t, "poll") /\ a.got /\ a.pkt # Empty
      /\ Goes(t, lwip_rx_input([Now(t) EXCEPT !.stack[Len(cs[t])].pkt = Empty], a.pkt))
      /\ once' = (once /\ due # <<>> /\ a.pkt = Head(due))
      /\ due' = SubSeq(due, 2, Len(due))
      /\ UNCHANGED <<nic, g_next_pkt, g_sockets, clock, arrivals, calls>>

bnry(next) == IF next = 0 THEN PAGES - 1 ELSE next - 1

PollAdvance_ToCurr(t) ==
  LET a == top(t)
  IN  /\ In(t, "poll") /\ a.got /\ a.pkt = Empty
      /\ g_next_pkt' = nic.curr
      /\ nic' = [nic EXCEPT !.bnry = bnry(nic.curr)]
      /\ net' = IF a.fin = 0 THEN net ELSE [net EXCEPT !.tcp[a.fin].connected = FALSE]
      /\ cs' = [cs EXCEPT ![t][Len(cs[t])] = [Poll EXCEPT !.ovw = a.ovw]]
      /\ UNCHANGED <<g_sockets, clock, History, calls>>

PollAdvance(t) ==
  LET a == top(t)
  IN  /\ In(t, "poll") /\ a.got /\ a.pkt = Empty
      /\ g_next_pkt' = a.next
      /\ nic' = [nic EXCEPT !.bnry = bnry(a.next)]
      /\ net' = IF a.fin = 0 THEN net ELSE [net EXCEPT !.tcp[a.fin].connected = FALSE]
      /\ cs' = [cs EXCEPT ![t][Len(cs[t])] = [Poll EXCEPT !.ovw = a.ovw]]
      /\ UNCHANGED <<g_sockets, clock, History, calls>>

PollEnd_AfterOne(t) ==
  /\ In(t, "poll") /\ ~top(t).got
  /\ cs' = [cs EXCEPT ![t] = Below(t)]
  /\ nic' = IF top(t).ovw THEN [nic EXCEPT !.ovw = FALSE] ELSE nic
  /\ UNCHANGED <<g_next_pkt, net, g_sockets, clock, History, calls>>

PollEnd(t) ==
  /\ In(t, "poll") /\ ~top(t).got /\ g_next_pkt = nic.curr
  /\ cs' = [cs EXCEPT ![t] = Below(t)]
  /\ nic' = IF top(t).ovw THEN [nic EXCEPT !.ovw = FALSE] ELSE nic
  /\ UNCHANGED <<g_next_pkt, net, g_sockets, clock, History, calls>>

\* The card.  A packet that finds no page is dropped; some cards say so.
Arrive(p) ==
  /\ arrivals < MaxPackets /\ arrivals' = arrivals + 1
  /\ Orderly /\ p.k # "arp" => arp_cache_lookup(net, Hop(p.ip))
  /\ IF Next_(nic.curr) = nic.bnry
     THEN nic' \in {nic, [nic EXCEPT !.ovw = TRUE]} /\ UNCHANGED due
     ELSE /\ nic' = [nic EXCEPT !.ring[nic.curr] = p, !.curr = Next_(nic.curr), !.prx = TRUE]
          /\ due' = Append(due, p)
  /\ UNCHANGED <<g_next_pkt, net, g_sockets, clock, cs, once, calls>>

-----------------------------------------------------------------------------
\* Waiting.  Each turn of a loop polls, and then looks.
Waits(t, found, most) == ~found /\ top(t).tries < most
PollAgain(t) ==
  /\ ne2000_poll(t, [cs[t] EXCEPT ![Len(cs[t])].tries = @ + 1])
  /\ UNCHANGED <<g_next_pkt, net, g_sockets, clock, History, calls>>

ip_send_wait(t) ==
  LET found == arp_cache_lookup(net, Hop(top(t).to))
  IN  /\ In(t, "ip_send")
      /\ IF Waits(t, found, ARP_POLLS) THEN PollAgain(t)
         ELSE /\ cs' = [cs EXCEPT ![t] = Return(Below(t), IF found THEN 0 ELSE -1)]
              /\ UNCHANGED <<nic, net, g_next_pkt, g_sockets, clock, History, calls>>

\* Bind, listen and close of other states than a connected one leave the TCP alone.
IsOpen(i) == g_sockets[i] # "UNUSED"
Free == {i \in Socks : ~IsOpen(i)}
ProgCall == cs["prog"] = <<>> /\ Turn("prog") /\ clock.booted /\ calls < MaxCalls
             /\ calls' = calls + 1
Quiet == UNCHANGED <<nic, g_next_pkt, net, clock, cs, History>>

ksocket_create ==
  /\ ProgCall /\ Free # {} /\ Quiet
  /\ g_sockets' = [g_sockets EXCEPT ![CHOOSE i \in Free : \A j \in Free : i <= j] = "CREATED"]
ksocket_bind(i) == ProgCall /\ IsOpen(i) /\ Quiet /\ g_sockets' = [g_sockets EXCEPT ![i] = "BOUND"]
ksocket_listen(i) == ProgCall /\ IsOpen(i) /\ Quiet /\ g_sockets' = [g_sockets EXCEPT ![i] = "LISTENING"]
ksocket_accept(i) == ProgCall /\ g_sockets[i] = "LISTENING" /\ Quiet /\ UNCHANGED g_sockets

LocalPort(i, port) == 1024 + (i - 1) * 10 + (port % 16)
ksocket_connect(i, ip, port) ==
  LET k == [NoSock EXCEPT !.connected = TRUE, !.ip = ip, !.rport = port, !.lport = LocalPort(i, port)]
  IN  /\ ProgCall /\ IsOpen(i) /\ g_sockets[i] # "CONNECTED"
      /\ Goes("prog", tcp_send_flags([net |-> [net EXCEPT !.tcp[i] = k],
                                      stack |-> <<[f |-> "connect", i |-> i, tries |-> 0, res |-> 0]>>], i))
      /\ UNCHANGED <<nic, g_next_pkt, g_sockets, clock, History>>
\* Any segment that sets seq_rx counts as the answer.
connect_wait(t) ==
  LET i == top(t).i
      found == top(t).tries > 0 /\ net.tcp[i].seq_rx # 0
  IN  /\ In(t, "connect")
      /\ IF Waits(t, found, CONNECT_POLLS) THEN PollAgain(t)
         ELSE /\ g_sockets' = IF found THEN [g_sockets EXCEPT ![i] = "CONNECTED"] ELSE g_sockets
              /\ net' = IF found THEN net ELSE [net EXCEPT !.tcp[i].connected = FALSE]
              /\ cs' = [cs EXCEPT ![t] = Below(t)]
              /\ UNCHANGED <<nic, g_next_pkt, clock, History, calls>>

ksocket_send(i) ==
  /\ ProgCall /\ g_sockets[i] = "CONNECTED" /\ net.tcp[i].connected
  /\ Goes("prog", tcp_send_flags([net |-> net, stack |-> <<>>], i))
  /\ UNCHANGED <<nic, g_next_pkt, g_sockets, clock, History>>

ksocket_recv(i, len) ==
  /\ ProgCall /\ g_sockets[i] = "CONNECTED"
  /\ ne2000_poll("prog", <<[f |-> "recv", i |-> i, len |-> len, res |-> 0]>>)
  /\ UNCHANGED <<g_next_pkt, net, g_sockets, clock, History>>
lwip_tcp_recv(t) ==
  LET k == net.tcp[top(t).i]
      n == Min({top(t).len, (k.tail - k.head) % TCP_RXBUF_SIZE})
  IN  /\ In(t, "recv")
      /\ net' = [net EXCEPT !.tcp[top(t).i] = [k EXCEPT !.head = (k.head + n) % TCP_RXBUF_SIZE,
                                                        !.queue = SubSeq(@, n + 1, Len(@))]]
      /\ cs' = [cs EXCEPT ![t] = Below(t)]
      /\ UNCHANGED <<nic, g_next_pkt, g_sockets, clock, History, calls>>

ksocket_close(i) ==
  LET closing == [net |-> net, stack |-> <<[f |-> "close", i |-> i, res |-> 0]>>]
      told == g_sockets[i] = "CONNECTED" /\ net.tcp[i].connected
  IN  /\ ProgCall /\ IsOpen(i)
      /\ Goes("prog", IF told THEN tcp_send_flags(closing, i) ELSE closing)
      /\ UNCHANGED <<nic, g_next_pkt, g_sockets, clock, History>>
CloseEnd(t) ==
  LET i == top(t).i
  IN  /\ In(t, "close")
      /\ net' = IF g_sockets[i] = "CONNECTED" THEN [net EXCEPT !.tcp[i].connected = FALSE] ELSE net
      /\ g_sockets' = [g_sockets EXCEPT ![i] = "UNUSED"]
      /\ cs' = [cs EXCEPT ![t] = Below(t)]
      /\ UNCHANGED <<nic, g_next_pkt, clock, History, calls>>

-----------------------------------------------------------------------------
\* Time: the servers are asked one after the other, while the kernel starts.
\* An answer is its seconds since 1970, or something too short or too old.
lwip_udp_query(n, s) ==
  ip_send([net |-> [net EXCEPT !.udp = [port |-> NTP_LOCAL_PORT, data |-> <<>>]],
           stack |-> s \o <<[f |-> "query", n |-> n, tries |-> 0, res |-> 0]>>], Servers[n])

sntp_query ==
  /\ cs["idle"] = <<>> /\ ~clock.booted /\ clock.asked = 0
  /\ Goes("idle", lwip_udp_query(1, <<>>))
  /\ clock' = [clock EXCEPT !.asked = 1]
  /\ UNCHANGED <<nic, g_next_pkt, g_sockets, History, calls>>

\* KST is nine hours ahead.
Kst == 9 * 3600
ReadClock(now) == date_to_unix(read_rtc(Registers(unix_to_utc(now))))
show_boot_time(ts, rtc) == [clock EXCEPT !.booted = TRUE, !.synced = TRUE, !.rtc = rtc, !.server = ts]
g_time_offset_seconds(c) == date_to_unix(unix_to_utc(c.server)) + Kst - ReadClock(c.rtc)
query_server(t) ==
  LET a == top(t)
      found == net.udp.data # <<>>
      closed == [net EXCEPT !.udp = [port |-> 0, data |-> IF found /\ a.res = 0 THEN <<>> ELSE @.data]]
      good == found /\ Head(net.udp.data) >= 0
  IN  /\ In(t, "query")
      /\ IF a.res = 0 /\ Waits(t, found /\ a.tries > 0, QUERY_POLLS) THEN PollAgain(t)
         ELSE /\ IF good /\ a.res = 0
                 THEN (\E r \in Rtc : clock' = show_boot_time(Head(net.udp.data), r)) /\ net' = closed /\ cs' = [cs EXCEPT ![t] = Below(t)]
                 ELSE IF a.n < Len(Servers) THEN Goes(t, lwip_udp_query(a.n + 1, Below(t))) /\ UNCHANGED clock
                 ELSE (\E r \in Rtc : clock' = [clock EXCEPT !.booted = TRUE, !.rtc = r]) /\ net' = closed /\ cs' = [cs EXCEPT ![t] = Below(t)]
              /\ UNCHANGED <<nic, g_next_pkt, g_sockets, History, calls>>

\* What the clock in the corner shows when the chip has gone on by dt seconds.
draw_clock(c, dt) == unix_to_date(ReadClock(c.rtc + dt) + (IF c.synced THEN g_time_offset_seconds(c) ELSE Kst))

\* The idle loop.
IdlePoll ==
  /\ cs["idle"] = <<>> /\ clock.booted /\ Turn("idle") /\ (nic.prx \/ nic.ovw)
  /\ ne2000_poll("idle", <<>>)
  /\ UNCHANGED <<g_next_pkt, net, g_sockets, clock, History, calls>>

-----------------------------------------------------------------------------
ne2000_init ==
  /\ nic = [ring |-> [p \in 0 .. PAGES - 1 |-> Empty], curr |-> 1, bnry |-> 0, prx |-> FALSE, ovw |-> FALSE]
  /\ g_next_pkt = 1
lwip_init ==
  net = [arp |-> [i \in 1 .. ARP_CACHE_SIZE |-> 0], tcp |-> [i \in Socks |-> NoSock], udp |-> [port |-> 0, data |-> <<>>]]
Init ==
  /\ ne2000_init /\ lwip_init
  /\ g_sockets = [i \in Socks |-> "UNUSED"]
  /\ clock = [booted |-> FALSE, synced |-> FALSE, server |-> 0, rtc |-> 0, asked |-> 0]
  /\ cs = [t \in Threads |-> <<>>] /\ due = <<>> /\ once = TRUE /\ arrivals = 0 /\ calls = 0

Inside(t) == \/ PollRead(t) \/ PollDeliver(t) \/ PollAdvance(t) \/ PollEnd(t) \/ ip_send_wait(t) \/ connect_wait(t)
             \/ lwip_tcp_recv(t) \/ CloseEnd(t) \/ query_server(t)
Next == \/ \E p \in Packets : Arrive(p)
        \/ \E t \in Threads : Inside(t)
        \/ sntp_query \/ IdlePoll \/ ksocket_create
        \/ \E i \in Socks : \/ ksocket_bind(i) \/ ksocket_listen(i) \/ ksocket_accept(i) \/ ksocket_send(i)
                            \/ ksocket_recv(i, 2) \/ ksocket_close(i)
                            \/ \E ip \in Hosts, port \in Ports : ksocket_connect(i, ip, port)
Spec == Init /\ [][Next]_vars /\ WF_vars(sntp_query) /\ WF_vars(IdlePoll) /\ \A t \in Threads : WF_vars(Inside(t))

-----------------------------------------------------------------------------
(***************************************************************************)
(* The stack is given each packet that the card stored once and in the     *)
(* order of arrival, whoever polls and however late: the card never writes *)
(* over a page that ne2000_poll has still to read.                         *)
(***************************************************************************)
PacketsOnce == once

(***************************************************************************)
(* A packet in the ring is read in the end without any other packet having *)
(* to come: ne2000_poll clears PRX before it looks at CURR, so what comes  *)
(* in during its loop is announced again.                                  *)
(***************************************************************************)
EventuallyRead == g_next_pkt # nic.curr ~> g_next_pkt = nic.curr

(***************************************************************************)
(* The receive ring of a socket is a queue of TCP_RXBUF_SIZE - 1 bytes:    *)
(* between head and tail are the bytes that came while there was room, in  *)
(* their order, less those read.                                           *)
(***************************************************************************)
StreamKept ==
  \A i \in Socks : LET k == net.tcp[i]
                       n == (k.tail - k.head) % TCP_RXBUF_SIZE
                   IN  k.queue = [j \in 1 .. n |-> k.buf[(k.head + j - 1) % TCP_RXBUF_SIZE]]

(***************************************************************************)
(* Once a time server has answered, the clock in the corner shows the      *)
(* server's time in Korea plus the time passed since, whatever the clock   *)
(* chip shows, across ends of days, months and leap years; without an      *)
(* answer the chip's.                                                      *)
(***************************************************************************)
ClockRight ==
  [][LET c == clock'
     IN  ~clock.booted /\ c.booted =>
           \A dt \in {0, 1, 86400} :
             IsDateOf(draw_clock(c, dt), (IF c.synced THEN c.server ELSE c.rtc) + Kst + dt)]_clock

(***************************************************************************)
(* ne2000_poll is not entered again from g_rx_cb, as its static buffer     *)
(* takes for granted.                                                      *)
(***************************************************************************)
PollNotReentered == \A t \in Threads : Cardinality({n \in DOMAIN cs[t] : cs[t][n].f = "poll"}) <= 1

=============================================================================
