------------------------------- MODULE Gate --------------------------------
(***************************************************************************)
(* The door of the service: the address a request is counted under, taken   *)
(* from the connection and, behind a trusted proxy, from its headers        *)
(* (clientIP of src/server/server.go), and the rate limiter that counts it. *)
(*                                                                          *)
(* Texts stand where addresses are: one address has several of them         *)
(* ("10.0.0.1", "::ffff:10.0.0.1"), and some texts are no address at all.   *)
(* The limiter's buckets are keyed by text, so Ip is the set of texts.      *)
(***************************************************************************)
EXTENDS IpLimiter, Sequences

CONSTANTS Address,     \* Address[t]: the text ParseIP(t).String(), or None
          Trusted,     \* the addresses in TRUSTED_PROXY_CIDRS
          Connections  \* what a request can come with

ASSUME AddressAssumption ==
  /\ Address \in [Ip -> Ip \cup {None}]
  /\ Trusted \subseteq Ip
  /\ Connections \subseteq [peer : Ip, forwarded : Seq(Ip), realIP : Ip \cup {None}]

VARIABLES peer,      \* peer[p]: the peer of the connection that p serves
          fromPeer   \* history: admissions in the window by peer, not by bucket

gateVars == <<vars, peer, fromPeer>>

\* The text an address is printed as; a text that is none stays as it is.
Printed(t) == IF Address[t] = None THEN t ELSE Address[t]

\* isTrustedProxy.
IsTrustedProxy(t) == Address[t] # None /\ Address[t] \in Trusted

\* The first entry of X-Forwarded-For that holds an address, if there is one.
FirstForwarded(ts) ==
  {Address[ts[i]] : i \in {k \in DOMAIN ts : /\ Address[ts[k]] # None
                                            /\ \A j \in 1..(k - 1) : Address[ts[j]] = None}}

\* What a trusted peer says of the client, or None.
Claimed(conn) ==
  IF FirstForwarded(conn.forwarded) # {} THEN CHOOSE a \in FirstForwarded(conn.forwarded) : TRUE
  ELSE IF conn.realIP = None THEN None ELSE Address[conn.realIP]

\* Fault: headers are believed whoever sends them.
ClientIPOfAnyHeader(conn) == IF Claimed(conn) # None THEN Claimed(conn) ELSE Printed(conn.peer)

ClientIP(conn) ==
  IF IsTrustedProxy(conn.peer) /\ Claimed(conn) # None THEN Claimed(conn)
                                                       ELSE Printed(conn.peer)

-----------------------------------------------------------------------------
Peers == {Printed(t) : t \in Ip} \ Trusted

GateInit == /\ Init
            /\ peer = [p \in Proc |-> None]
            /\ fromPeer = [a \in Peers |-> 0]

\* The server accepts a request and hands its client's address to Allow.
Arrive(p) == \E conn \in Connections :
               /\ Sample(p, ClientIP(conn))
               /\ peer' = [peer EXCEPT ![p] = Printed(conn.peer)]
               /\ UNCHANGED fromPeer

Admit(p) == /\ AllowNew(p) \/ AllowSpend(p)
            /\ fromPeer' = IF peer[p] \in Peers /\ InWindow(call[p].now)
                           THEN [fromPeer EXCEPT ![peer[p]] = @ + 1] ELSE fromPeer
            /\ peer' = [peer EXCEPT ![p] = None]

Refuse(p) == /\ AllowRefuse(p)
             /\ peer' = [peer EXCEPT ![p] = None]
             /\ UNCHANGED fromPeer

Later == Tick /\ UNCHANGED <<peer, fromPeer>>

GateNext == Later \/ \E p \in Proc : Arrive(p) \/ Admit(p) \/ Refuse(p)

GateSpec == GateInit /\ [][GateNext]_gateVars

-----------------------------------------------------------------------------
\* What CONFIG.md's trusted proxies are for: a peer that is no trusted proxy,
\* in whatever form its address comes and whatever headers it sends, is admitted
\* at most the burst and the rate over any interval; it cannot choose its bucket.
PeerBound ==
  \A a \in Peers : Cost * fromPeer[a] <= Burst + Rate * (window.to - window.from)

\* The strengthening of PeerBound: a request of such a peer waits for its peer's own
\* bucket, and was admitted from it.
OwnBucket ==
  \A p \in Proc : peer[p] \in Peers => call[p] # None /\ call[p].ip = peer[p]

CountedOnce == \A a \in Peers : fromPeer[a] <= admitted[a]

GateInv == /\ peer \in [Proc -> Ip \cup {None}]
           /\ fromPeer \in [Peers -> Nat]
           /\ OwnBucket /\ CountedOnce

=============================================================================
