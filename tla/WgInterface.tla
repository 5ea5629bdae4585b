----------------------------- MODULE WgInterface -----------------------------
(***************************************************************************)
(* The live interface wg0 of the kernel, as services/peers.service.go uses *)
(* it through wgctrl, and as wg-quick or "wg syncconf" loads it from       *)
(* wg0.conf.  External to the repository: what matters of it is the set of *)
(* peers it accepts and its allowed-ips table, in which an address belongs *)
(* to at most one peer; giving it to a peer takes it from any other.       *)
(***************************************************************************)
CONSTANTS WgKeys, WgOctets, NoKey

VARIABLES
    live,           \* peers configured on wg0
    route           \* allowed-ips: address -> the peer it belongs to

wgVars == <<live, route>>

WgInit ==
    /\ live = {}
    /\ route = [o \in WgOctets |-> NoKey]

\* applyPeerLive: ConfigureDevice with ReplaceAllowedIPs and one address
ApplyPeerLive(k, o) ==
    /\ live' = live \cup {k}
    /\ route' = [a \in WgOctets |-> IF a = o THEN k
                                    ELSE IF route[a] = k THEN NoKey ELSE route[a]]

\* removePeerLive: ConfigureDevice with Remove; no error if the peer is not there
RemovePeerLive(k) ==
    /\ live' = live \ {k}
    /\ route' = [a \in WgOctets |-> IF route[a] = k THEN NoKey ELSE route[a]]

\* The interface holds the peers of a configuration: key -> address, outside WgOctets
\* for a key that has no [Peer] block.  Of two with one address the later block has it.
LoadPeers(conf) ==
    LET Listed(a) == {k \in WgKeys : conf[k] = a}
    IN  /\ live' = {k \in WgKeys : conf[k] \in WgOctets}
        /\ route' \in [WgOctets -> WgKeys \cup {NoKey}]
        /\ \A a \in WgOctets :
              IF Listed(a) = {} THEN route'[a] = NoKey ELSE route'[a] \in Listed(a)

WgTypeOK ==
    /\ live \in SUBSET WgKeys
    /\ route \in [WgOctets -> WgKeys \cup {NoKey}]
=============================================================================
