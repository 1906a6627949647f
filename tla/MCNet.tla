------------------------------- MODULE MCNet -------------------------------
(***************************************************************************)
(* A gateway (1), a host beside us (2) and one behind the gateway (3),     *)
(* which is the first time server.                                         *)
(***************************************************************************)
EXTENDS Net

NetLocal(ip) == ip \in {1, 2}
Tcp(ip, lport, flags, seq, data) ==
  [k |-> "tcp", ip |-> ip, sport |-> 1, dport |-> lport, flags |-> flags, seq |-> seq, data |-> data]
Arps == [k : {"arp"}, ip : {1, 2}]
Answers == [k : {"udp"}, ip : {3}, dport : {NTP_LOCAL_PORT}, data : {<<1709132399>>, <<-1>>}]
Segments(i) ==
  LET port == LocalPort(i, 1)
  IN  {Tcp(2, port, {"SYN", "ACK"}, 0, <<>>), Tcp(2, port, {"ACK", "FIN"}, 1, <<>>), Tcp(2, port, {"RST"}, 0, <<>>),
       Tcp(2, port, {"PSH", "ACK"}, 1, <<7, 8>>)}
NetPackets == Arps \cup Answers \cup Segments(1) \cup {[k |-> "icmp", ip |-> 2]}
NetServers == <<3, 1>>
\* The server answers at the end of 28 February 2024 in Korea, when the chip
\* shows the end of the 29th, or has stopped.
NetRtc == {1709218799, 946684800}

\* Nothing depends on pages that hold no packet to read, or on which page of
\* the ring comes next.
View == <<[j \in 1 .. (nic.curr - g_next_pkt) % PAGES |-> nic.ring[(g_next_pkt + j - 1) % PAGES]],
          (nic.bnry - g_next_pkt) % PAGES, nic.prx, nic.ovw,
          net, g_sockets, clock, cs, due, once, arrivals, calls>>

=============================================================================
