---------------------------- MODULE Connection ----------------------------
(***************************************************************************)
(* getconnection() of common/linksupport.c: how a process of LPRng opens a *)
(* connection to another host.  A host may have several addresses and the  *)
(* connection has to leave from a port of originate_port, because servers  *)
(* of RFC1179 accept only those; the ports are tried in turn, starting     *)
(* behind the one that was used last.                                      *)
(*                                                                         *)
(* The module is the procedure alone: a module that opens connections      *)
(* extends it, starts it with Open and goes on when call.at = "done".      *)
(***************************************************************************)
EXTENDS Naturals

CONSTANTS Addresses,   \* how many addresses the host has
          LpdPort,     \* the port of lpd, 515
          Reserved,    \* IPPORT_RESERVED
          Settings     \* the configurations a run looks at

VARIABLES conf,  \* [originate: the two numbers of originate_port, root: may
                 \* use reserved ports, retry: retry_econnrefused, busy: ports
                 \* other programs have, timeout: logger_timeout, of the
                 \* module that opens the connection]
          call,  \* the call of getconnection() that is going on
          last   \* last_port_used: it is static, a process keeps it

ConnectionAssumption ==
    /\ Addresses \in Nat \ {0}
    /\ LpdPort \in Nat \ {0}
    /\ Reserved \in Nat \ {0}
ASSUME ConnectionAssumption

NoCall == [at |-> "idle", address |-> 0, port |-> 0, count |-> 0,
           connects |-> 0, source |-> 0, result |-> "none"]

\* originate_port gives the two ends of the range in either order; a process
\* that is not root keeps off the reserved ports, and if that leaves none it
\* does not bind: the range is then 0..0.
Ports ==
    LET a    == conf.originate[1]
        b    == conf.originate[2]
        high == IF a < b THEN b ELSE a
        low  == IF a = 0 \/ b = 0 THEN high ELSE IF a < b THEN a ELSE b
        min  == IF ~conf.root /\ low < Reserved THEN Reserved ELSE low
    IN  IF min > high THEN [min |-> 0, max |-> 0]
                      ELSE [min |-> min, max |-> high]

Width == Ports.max - Ports.min

\* The port a new address is first tried from: the one behind the last used,
\* or a random one, which is never the highest.
StartPorts ==
    LET next == IF Width = 0 THEN {Ports.min}
                ELSE IF last > 0 /\ last >= Ports.min THEN {last + 1}
                ELSE Ports.min .. Ports.max - 1
    IN  {IF p > Ports.max THEN Ports.min ELSE p : p \in next}

\* The label `next_addr`: all counts start anew.
TryAddress(k) ==
    \E p \in StartPorts :
       call' = [at       |-> IF Ports.min = 0 THEN "connect" ELSE "bind",
                address  |-> k, port |-> p, count |-> 0, connects |-> 0,
                source   |-> 0, result |-> "none"]

\* The address of the host is looked up and the first one is tried.
Open ==
    /\ call.at = "idle"
    /\ TryAddress(1)
    /\ UNCHANGED <<conf, last>>

\* The host has no address.
NotFound ==
    /\ call.at = "idle"
    /\ call' = [NoCall EXCEPT !.at = "done", !.result = "failed"]
    /\ UNCHANGED <<conf, last>>

\* One round of the loop that binds the socket to a port.  Port 515 is
\* passed over; a round that fails counts, and there are Width of them.
Bind ==
    LET p    == IF call.port > Ports.max THEN Ports.min ELSE call.port
        good == p # LpdPort /\ p \notin conf.busy
        n    == call.count + 1
    IN  /\ call.at = "bind"
        /\ last' = call.port
        /\ call' =
             IF good
             THEN [call EXCEPT !.at = "connect", !.port = p + 1, !.source = p]
             ELSE IF n < Width
             THEN [call EXCEPT !.port = p + 1, !.count = n]
             ELSE [call EXCEPT !.at = "done", !.count = n, !.result = "failed"]
        /\ UNCHANGED conf

\* connect() succeeds.
Connected ==
    /\ call.at = "connect"
    /\ call' = [call EXCEPT !.at = "done", !.result = "open"]
    /\ UNCHANGED <<conf, last>>

\* Another port may help if the remote host refused this one or if the pair of
\* addresses is still in use.
Retries(error) ==
    /\ call.connects + 1 < Width
    /\ error = "inuse" \/ (error = "refused" /\ conf.retry)

\* connect() fails or times out: another port, another address, or no
\* connection.
ConnectFails(error) ==
    /\ call.at = "connect"
    /\ \/ /\ Retries(error)
          /\ call' = [call EXCEPT !.at = "bind", !.source = 0,
                                  !.connects = @ + 1]
       \/ /\ ~Retries(error)
          /\ call.address < Addresses
          /\ TryAddress(call.address + 1)
       \/ /\ ~Retries(error)
          /\ call.address = Addresses
          /\ call' = [call EXCEPT !.at = "done", !.result = error]
    /\ UNCHANGED <<conf, last>>

------------------------------------------------------------------------------

=============================================================================
