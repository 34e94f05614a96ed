------------------------------- MODULE Network -------------------------------
(***************************************************************************)
(* The NP plugin's connection table (np_conn.c) and the socket calls that  *)
(* keep it (np_socket.c, np.c).  The table has a mutex; the calls make a   *)
(* system call and change the table in separate steps, and a descriptor    *)
(* that one thread closes is the next that another thread is given.        *)
(*                                                                         *)
(* The threads are the upper plugins: they use descriptors they were given *)
(* and have not closed, and one thread at a time uses a descriptor.  Data  *)
(* transfer (send, recv, resolve) changes nothing here.                    *)
(***************************************************************************)
EXTENDS Callers, Integers, FiniteSets, FiniteSetsExt, SequencesExt

CONSTANTS Fds,          \* descriptors the kernel may give, 0 .. n
          Cap,          \* NP_CONN_CAP
          StatsCap,     \* the 256 entries np_stats_impl looks at
          Families      \* pairs of a domain and a type that socket is called with

ASSUME NetworkAssumption ==
  /\ Fds \subseteq Nat /\ {Cap, StatsCap} \subseteq Nat \ {0}
  /\ Families \subseteq STRING \X STRING

VARIABLES sock,         \* the kernel's sockets, by descriptor
          s_conns,      \* the table: a sequence, its length is s_count
          calls,        \* the call each thread is in
          given,        \* descriptors returned to callers and not closed since
          untracked     \* of these, the ones made when the table was full, or
                        \* open when the plugin was destroyed

netVars == <<sock, s_conns, calls, given, untracked>>

NoSocket == [state |-> "none"]
NoAddress == "none"    \* an address that is not set, an empty string in the code
ConnStates == {"UNCONNECTED", "CONNECTING", "CONNECTED", "DISCONNECTING", "LISTENING"}

Entry(fd, domain, type, state) ==
  [fd |-> fd, domain |-> domain, type |-> type, state |-> state,
   local |-> NoAddress, peer |-> NoAddress]

\* A call: the entry it will register, or the field it will change in the table
\* and the new value; whether conn_refresh_from_fd comes after that.
NoCall == [pc |-> "idle", fd |-> -1, entry |-> Entry(-1, "none", "0", "UNCONNECTED"),
           field |-> "state", value |-> "UNCONNECTED", refresh |-> FALSE]

NetworkInit ==
  /\ sock = [f \in Fds |-> NoSocket]
  /\ s_conns = <<>>
  /\ calls = [t \in Threads |-> NoCall]
  /\ given = {} /\ untracked = {}

-----------------------------------------------------------------------------
(* The table.                                                              *)

Entries == {s_conns[i] : i \in DOMAIN s_conns}
Positions(fd) == {i \in DOMAIN s_conns : s_conns[i].fd = fd}
find_index(fd) == Min(Positions(fd))

Register(c) ==
  s_conns' = IF Positions(c.fd) # {} THEN [s_conns EXCEPT ![find_index(c.fd)] = c]
             ELSE IF Len(s_conns) >= Cap THEN s_conns
             ELSE Append(s_conns, c)

\* np_conn_update_state, np_conn_set_addresses and np_conn_set_local.
Update(fd, field, value) ==
  s_conns' = IF Positions(fd) = {} THEN s_conns
             ELSE [s_conns EXCEPT ![find_index(fd)][field] = value]

\* Mutant: the last entry goes, without taking the place.
UnregisterShrinks(fd) ==
  s_conns' = IF Positions(fd) = {} THEN s_conns ELSE Front(s_conns)

\* The last entry takes the place.
Unregister(fd) ==
  s_conns' = IF Positions(fd) = {} THEN s_conns
             ELSE Front([s_conns EXCEPT ![find_index(fd)] = Last(s_conns)])

-----------------------------------------------------------------------------
(* Calls: each is made of system calls and changes of the table.           *)

Using == {calls[t].fd : t \in Threads}
Enter(t, c) == calls' = [calls EXCEPT ![t] = c]
Continue(t, pc) == calls' = [calls EXCEPT ![t].pc = pc]
Leave(t) == calls' = [calls EXCEPT ![t] = NoCall]
At(t, pc) == calls[t].pc = pc

\* A thread that is free begins a call on a descriptor nobody is using.
Begin(t, fd) == At(t, "idle") /\ fd \in given \ Using

FreeFds == {f \in Fds : sock[f] = NoSocket}
KernelSocket(domain, type, state, from, to) ==
  [state |-> state, domain |-> domain, type |-> type, local |-> from, peer |-> to,
   late |-> FALSE]
\* An address as np_socket.c writes it: nothing for the unix domain.
Address(fd, a) == IF sock[fd].domain = "unix" THEN NoAddress ELSE a
Registering(entry, refresh) ==
  [NoCall EXCEPT !.pc = "register", !.fd = entry.fd, !.entry = entry, !.refresh = refresh]

\* The kernel gives the lowest free descriptor.
Lowest(fd) == fd \in FreeFds /\ \A f \in FreeFds : fd <= f

\* np_socket_impl.
Socket(t, domain, type) ==
  /\ At(t, "idle")
  /\ \E fd \in Fds :
       /\ Lowest(fd)
       /\ sock' = [sock EXCEPT ![fd] =
                     KernelSocket(domain, type, "UNCONNECTED", NoAddress, NoAddress)]
       /\ Enter(t, Registering(Entry(fd, domain, type, "UNCONNECTED"), FALSE))
  /\ UNCHANGED <<s_conns, given, untracked>>

\* np_accept_impl: the kernel's socket has the listener's type; the entry does not.
Accept(t, fd) ==
  /\ Begin(t, fd) /\ sock[fd].state = "LISTENING"
  /\ \E new \in Fds :
       /\ Lowest(new)
       /\ sock' = [sock EXCEPT ![new] = KernelSocket(sock[fd].domain, sock[fd].type,
                                          "CONNECTED", sock[fd].local, Address(fd, "client"))]
       /\ Enter(t, Registering(Entry(new, sock[fd].domain, "0", "CONNECTED"), TRUE))
  /\ UNCHANGED <<s_conns, given, untracked>>

DoRegister(t) ==
  /\ At(t, "register")
  /\ Register(calls[t].entry)
  /\ LET fd == calls[t].fd IN
       /\ untracked' = IF s_conns' = s_conns /\ Positions(fd) = {} THEN untracked \cup {fd}
                       ELSE untracked
       /\ IF calls[t].refresh THEN Continue(t, "refresh_local") /\ UNCHANGED given
          ELSE Leave(t) /\ given' = given \cup {fd}
  /\ UNCHANGED sock

\* conn_refresh_from_fd, which ends accept and connect: what getsockname and
\* getpeername say goes into the table, in two sections of the mutex.
RefreshLocal(t) ==
  LET fd == calls[t].fd IN
  /\ At(t, "refresh_local")
  /\ Update(fd, "local", sock[fd].local)
  /\ Continue(t, "refresh_peer")
  /\ UNCHANGED <<sock, given, untracked>>
RefreshPeer(t) ==
  LET fd == calls[t].fd IN
  /\ At(t, "refresh_peer")
  /\ IF sock[fd].peer # NoAddress THEN Update(fd, "peer", sock[fd].peer)
     ELSE UNCHANGED s_conns
  /\ given' = given \cup {fd}
  /\ Leave(t)
  /\ UNCHANGED <<sock, untracked>>

\* The second step of bind, listen, connect and shutdown.
TableStep(t) ==
  /\ At(t, "update")
  /\ Update(calls[t].fd, calls[t].field, calls[t].value)
  /\ IF calls[t].refresh THEN Continue(t, "refresh_local") ELSE Leave(t)
  /\ UNCHANGED <<sock, given, untracked>>

\* The system call that starts such a call makes the socket new, and what the
\* second step will put in the table.
SystemCall(t, fd, new, field, value, refresh) ==
  /\ sock' = [sock EXCEPT ![fd] = new]
  /\ Enter(t, [NoCall EXCEPT !.pc = "update", !.fd = fd, !.field = field, !.value = value,
                             !.refresh = refresh])
  /\ UNCHANGED <<s_conns, given, untracked>>

\* np_bind_impl and np_bind_addr_impl, np_listen_impl.  Servers bind and then
\* listen; clients connect what they have not bound.
Fresh(fd) == sock[fd].state = "UNCONNECTED" /\ ~sock[fd].late
Unbound(fd) == Fresh(fd) /\ sock[fd].local = NoAddress
Bind(t, fd) ==
  /\ Begin(t, fd) /\ Unbound(fd)
  /\ SystemCall(t, fd, [sock[fd] EXCEPT !.local = Address(fd, "here")],
                "local", Address(fd, "here"), FALSE)

Listen(t, fd) ==
  /\ Begin(t, fd) /\ Fresh(fd) /\ sock[fd].type = "stream"
  /\ sock[fd].local # NoAddress \/ sock[fd].domain = "unix"
  /\ SystemCall(t, fd, [sock[fd] EXCEPT !.state = "LISTENING"], "state", "LISTENING", FALSE)

\* np_connect_addr_impl.  A socket that does not block is CONNECTING in the
\* table, and nothing changes that when the kernel has connected it.
Connect(t, fd) ==
  /\ Begin(t, fd) /\ Unbound(fd)
  /\ LET bound == [sock[fd] EXCEPT !.local = Address(fd, "here")] IN
     \/ SystemCall(t, fd, [bound EXCEPT !.state = "CONNECTED", !.peer = Address(fd, "server")],
                   "state", "CONNECTED", TRUE)
     \/ /\ sock[fd].type = "stream"
        /\ SystemCall(t, fd, [bound EXCEPT !.state = "CONNECTING", !.late = TRUE],
                      "state", "CONNECTING", FALSE)

Connected(fd) ==
  /\ sock[fd].state = "CONNECTING"
  /\ \/ sock' = [sock EXCEPT ![fd].state = "CONNECTED", ![fd].peer = Address(fd, "server")]
     \/ sock' = [sock EXCEPT ![fd].state = "UNCONNECTED"]
  /\ UNCHANGED <<s_conns, calls, given, untracked>>

\* np_shutdown_impl: SHUT_WR leaves the table as it is.
Shutdown(t, fd, how) ==
  /\ Begin(t, fd) /\ sock[fd].state = "CONNECTED"
  /\ IF how = "WR" THEN UNCHANGED netVars
     ELSE SystemCall(t, fd, [sock[fd] EXCEPT !.state = "DISCONNECTING"],
                     "state", "DISCONNECTING", FALSE)

\* np_close_impl: out of the table first, then the descriptor is free.
CloseEntry(t, fd) ==
  /\ Begin(t, fd)
  /\ Unregister(fd)
  /\ given' = given \ {fd} /\ untracked' = untracked \ {fd}
  /\ Enter(t, [NoCall EXCEPT !.pc = "close", !.fd = fd])
  /\ UNCHANGED sock
CloseFd(t) ==
  /\ At(t, "close")
  /\ sock' = [sock EXCEPT ![calls[t].fd] = NoSocket]
  /\ Leave(t)
  /\ UNCHANGED <<s_conns, given, untracked>>

\* np_destroy, and np_init of the next start: np_conn_clear, whatever is open.
\* (bound: while every open socket is tracked)
ClearTable ==
  /\ s_conns # <<>> /\ untracked = {} /\ s_conns' = <<>>
  /\ untracked' = {f \in Fds : sock[f] # NoSocket /\ Positions(f) # {}} \cup untracked
  /\ UNCHANGED <<sock, calls, given>>

NetworkNext ==
  \/ \E t \in Threads :
       \/ \E k \in Families : Socket(t, k[1], k[2])
       \/ \E fd \in Fds :
            \/ Accept(t, fd) \/ Bind(t, fd) \/ Listen(t, fd) \/ Connect(t, fd)
            \/ CloseEntry(t, fd) \/ \E how \in {"RD", "WR", "RDWR"} : Shutdown(t, fd, how)
       \/ DoRegister(t) \/ RefreshLocal(t) \/ RefreshPeer(t) \/ TableStep(t) \/ CloseFd(t)
  \/ \E fd \in Fds : Connected(fd)
  \/ ClearTable

NetworkSpec == NetworkInit /\ [][NetworkNext]_netVars

-----------------------------------------------------------------------------
(* np_stats_impl over the entries it lists.                                *)

Listed == {s_conns[i] : i \in 1 .. Min({StatsCap, Len(s_conns)})}
unix_sockets == Cardinality({e \in Listed : e.domain = "unix"})
tcp_sockets == Cardinality({e \in Listed : e.domain # "unix" /\ e.type = "stream"})
udp_sockets == Cardinality({e \in Listed : e.domain # "unix" /\ e.type = "dgram"})

-----------------------------------------------------------------------------
NetworkTypeOK ==
  /\ \A f \in Fds : sock[f] # NoSocket =>
       <<sock[f].domain, sock[f].type>> \in Families /\ sock[f].state \in ConnStates
  /\ Len(s_conns) <= Cap
  /\ \A e \in Entries : e.fd \in Fds /\ e.state \in ConnStates
  /\ given \subseteq Fds /\ untracked \subseteq Fds

\* The table and the kernel agree on what is open: a descriptor has one entry at
\* most, an entry's descriptor is open, and an open socket a caller holds has its
\* entry, but for those made when the table was full or open when it was cleared.
\* close gives the number back only after the entry is gone, so a thread that is
\* given the same number at that moment keeps its entry.
SocketsTracked ==
  /\ \A f \in Fds : Cardinality(Positions(f)) <= 1
  /\ \A e \in Entries : sock[e.fd] # NoSocket
  /\ \A f \in given \ untracked : Positions(f) # {}

\* An entry describes the socket that has its descriptor now, never the one that
\* had it before: domain, addresses and state, once no call is under way on it.
\* Two things it does not follow: a connect that ends after the call, and the
\* type of accepted sockets.
EntriesDescribe ==
  \A e \in Entries :
    LET s == sock[e.fd] IN
    e.fd \notin Using =>
      /\ e.domain = s.domain /\ e.type \in {s.type, "0"}
      /\ s.late \/ (e.state = s.state /\ e.local = s.local /\ e.peer = s.peer)
      /\ s.late => e.state \in {s.state, "CONNECTING"} /\ e.local \in {s.local, NoAddress}
                     /\ e.peer \in {s.peer, NoAddress}

\* The statistics count the tracked TCP connections.
StatsCountTcp ==
  (Using = {-1} /\ Len(s_conns) <= StatsCap) =>
    tcp_sockets = Cardinality({e \in Entries : sock[e.fd].domain = "inet"
                                               /\ sock[e.fd].type = "stream"})

\* The connection table and the kernel agree.
TableSound == NetworkTypeOK /\ SocketsTracked /\ EntriesDescribe
=============================================================================
