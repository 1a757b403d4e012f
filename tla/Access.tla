------------------------------- MODULE Access -------------------------------
(* Who may reach a stand: simulation/access/domain/allowlist.go and the      *)
(* credential checks of kernel/httpx/auth.go.  An address is a number of      *)
(* Width bits; an IPv4 address mapped into IPv6 is the IPv4 address it is,    *)
(* which is what Unmap makes of it.                                           *)
EXTENDS Naturals, Sequences, FiniteSetsExt

CONSTANTS
    Width,          \* bits of an address
    BrowserMethods, \* methods a credential without a key may call
    Unreadable      \* text that is not an address

\* Powers of two, as a function: what the proofs know of ^ is not enough for them.
Pow2[n \in Nat] == IF n = 0 THEN 1 ELSE 2 * Pow2[n - 1]

Address == 0..(Pow2[Width] - 1)

ASSUME AccessAssumption == Width \in Nat /\ Unreadable \notin Address

\* What an operator types: an address, and a mask or Width for one without.
Prefix == [net : Address, len : 0..Width]

\* The addresses a network of this prefix length holds.
Size(p) == Pow2[Width - p.len]

\* ParsePrefix: the network the mask describes, whatever host bits were typed.
ParsePrefix(p) == [p EXCEPT !.net = (p.net \div Size(p)) * Size(p)]

Contains(p, a) == a \div Size(p) = p.net \div Size(p)

\* An empty list allows everyone.
Allows(list, a) == list = {} \/ \E p \in list : Contains(p, a)

\* The entries Header.Get finds: those of the first X-Forwarded-For line.
Chain(forwarded) == IF forwarded = <<>> THEN <<>> ELSE forwarded[1]

\* A plausible mistake: the first entry is the one the client wrote.
FirstForwarded(remote, chain, trust) ==
    LET readable == {i \in DOMAIN chain : chain[i] \in Address}
    IN  IF trust /\ readable # {} THEN chain[Min(readable)] ELSE remote

(* The address a request came from: behind a trusted proxy the rightmost      *)
(* readable entry of the forwarded chain, else the peer.                      *)
ClientAddr(remote, chain, trust) ==
    LET readable == {i \in DOMAIN chain : chain[i] \in Address}
    IN  IF trust /\ readable # {} THEN chain[Max(readable)] ELSE remote

-----------------------------------------------------------------------------
(* A credential is "none", "browser" (the register's id alone), "key" (id and *)
(* its key), "wrong" (id and another key) or "stranger" (no register's id).   *)
Credentials == {"none", "browser", "key", "wrong", "stranger"}

(* The shared address finds the stand by the id in the credential, the path   *)
(* by its slug, which names a stand or does not.                              *)
Resolved(q) ==
    /\ q.known
    /\ q.shared => q.cred \notin {"none", "stranger"}

\* The Subscribe handler: the right id, and the right key unless none was sent.
AuthorizeSubscribe(q) ==
    \/ q.cred = "key"
    \/ q.cred = "browser" /\ q.method \in BrowserMethods

\* The Merchant handler: Basic credentials with the fixed login and the key.
CheckMerchantAuth(q) == q.cred = "key"
=============================================================================
