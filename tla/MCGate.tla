------------------------------- MODULE MCGate -------------------------------
(***************************************************************************)
(* An instance of Gate for TLC: a client, the two forms of its address, a   *)
(* trusted proxy and the client it speaks for.                              *)
(***************************************************************************)
EXTENDS Gate, TLC

CONSTANTS client, client6,  \* "10.0.0.1" and "::ffff:10.0.0.1"
          guest,            \* a client behind the proxy
          proxy,            \* the address of the trusted proxy
          junk              \* a text that is no address

MCIp == {client, client6, guest, proxy, junk}

MCAddress == [t \in MCIp |-> IF t = junk THEN None ELSE IF t = client6 THEN client ELSE t]

Conn(p, forwarded, realIP) == [peer |-> p, forwarded |-> forwarded, realIP |-> realIP]

MCConnections ==
  {Conn(client, <<>>, None),
   Conn(client6, <<guest>>, guest),         \* claims to be another
   Conn(proxy, <<junk, guest>>, client)}    \* speaks for the guest

\* An interval shorter than the lifetime of a bucket, and one in which it is forgotten.
MCWindows == {[from |-> 1, to |-> 3], [from |-> 0, to |-> MaxTime]}

MCSymmetry == Permutations(Proc)
=============================================================================
