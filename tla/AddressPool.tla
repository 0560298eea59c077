---------------------------- MODULE AddressPool ----------------------------
(***************************************************************************)
(* What a server of the tunnel promises about its pool of IPv4 addresses:  *)
(* an address has one holder at a time, a connection holds one address at  *)
(* most, and the address comes back exactly when its connection is closed, *)
(* so it never passes from one open connection to another.                 *)
(***************************************************************************)
EXTENDS TLAPS

CONSTANTS Addrs, Conns, NoConn

VARIABLES
    lease,      \* lease[a]: the connection that holds a
    closed,     \* connections that are over
    up          \* the server runs

vars == <<lease, closed, up>>

Init ==
    /\ lease = [a \in Addrs |-> NoConn]
    /\ closed = {}
    /\ up = TRUE

Grant(a, c) ==
    /\ up
    /\ lease[a] = NoConn
    /\ c \notin closed
    /\ \A b \in Addrs : lease[b] # c
    /\ lease' = [lease EXCEPT ![a] = c]
    /\ UNCHANGED <<closed, up>>

Close(c) ==
    /\ up
    /\ c \notin closed
    /\ closed' = closed \cup {c}
    /\ lease' = [a \in Addrs |-> IF lease[a] = c THEN NoConn ELSE lease[a]]
    /\ UNCHANGED up

\* The process ends: nobody holds anything any more.
Stop ==
    /\ up
    /\ up' = FALSE
    /\ lease' = [a \in Addrs |-> NoConn]
    /\ UNCHANGED closed

Next ==
    \/ \E a \in Addrs, c \in Conns : Grant(a, c)
    \/ \E c \in Conns : Close(c)
    \/ Stop

Spec == Init /\ [][Next]_vars

---------------------------------------------------------------------------
TypeOK ==
    /\ lease \in [Addrs -> Conns \cup {NoConn}]
    /\ closed \subseteq Conns
    /\ up \in BOOLEAN

\* A connection holds at most one address, and none once it is closed.
OneAddressPerConnection ==
    \A a, b \in Addrs :
        lease[a] # NoConn => /\ lease[a] \notin closed
                             /\ lease[b] = lease[a] => b = a

\* An address never passes from one connection to another in one step.
NeverHandedOver ==
    [][\A a \in Addrs : lease[a] # NoConn => lease'[a] \in {lease[a], NoConn}]_vars

\* The promise follows from the three actions, however many addresses and
\* connections there are: the pool a server implements is a sound one.
Inv == TypeOK /\ OneAddressPerConnection

THEOREM PoolInvariant ==
    ASSUME NoConn \notin Conns
    PROVE  Spec => []Inv
<1>1. Init => Inv
  BY DEF Init, Inv, TypeOK, OneAddressPerConnection
<1>2. Inv /\ [Next]_vars => Inv'
  <2> SUFFICES ASSUME Inv, [Next]_vars PROVE Inv'
    OBVIOUS
  <2> USE DEF Inv, TypeOK, OneAddressPerConnection
  <2>1. ASSUME NEW a \in Addrs, NEW c \in Conns, Grant(a, c) PROVE Inv'
    BY <2>1 DEF Grant
  <2>2. ASSUME NEW c \in Conns, Close(c) PROVE Inv'
    BY <2>2 DEF Close
  <2>3. CASE Stop
    BY <2>3 DEF Stop
  <2>4. CASE UNCHANGED vars
    BY <2>4 DEF vars
  <2> QED
    BY <2>1, <2>2, <2>3, <2>4 DEF Next
<1> QED
  BY <1>1, <1>2, PTL DEF Spec

\* The connection that holds an address promises one address per connection.
THEOREM PoolOneAddress ==
    ASSUME NoConn \notin Conns
    PROVE  Spec => []OneAddressPerConnection
<1>1. Inv => OneAddressPerConnection
  BY DEF Inv
<1> QED
  BY <1>1, PoolInvariant, PTL

\* No handover, from the actions alone.
THEOREM PoolNeverHandsOver ==
    ASSUME NoConn \notin Conns
    PROVE  Spec => NeverHandedOver
<1>1. Inv /\ [Next]_vars => [\A a \in Addrs : lease[a] # NoConn => lease'[a] \in {lease[a], NoConn}]_vars
  BY DEF Inv, TypeOK, Next, Grant, Close, Stop, vars
<1> QED
  BY <1>1, PoolInvariant, PTL DEF Spec, NeverHandedOver

=============================================================================
