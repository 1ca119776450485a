------------------------------- MODULE KeyMap -------------------------------
(***************************************************************************)
(* What the MD5 keys of TCP sockets promise (RFC 2385): each socket has a   *)
(* map from peer addresses to keys.  The owner sets and deletes entries, a  *)
(* child inherits the entry of its peer or nothing, a TIME_WAIT socket      *)
(* keeps the entry of its peer, and a segment is taken only when its        *)
(* signature is the one its sender's entry asks for.                        *)
(***************************************************************************)
CONSTANTS
    Socks, Tws,       \* sockets, TIME_WAIT sockets
    Addrs, NoAddr,    \* peer addresses, and none
    Keys, NoKey       \* keys, and none

VARIABLES
    map,              \* the key each socket has for each peer
    peer,             \* the peer each socket is connected to
    twkey,            \* the key each TIME_WAIT socket keeps
    verdict           \* what was decided of the last segment

vars == <<map, peer, twkey, verdict>>

NoKeys == [a \in Addrs |-> NoKey]

NoVerdict == [sk |-> "none", from |-> NoAddr, sig |-> NoKey, taken |-> FALSE]

Init ==
    /\ map = [s \in Socks |-> NoKeys]
    /\ peer = [s \in Socks |-> NoAddr]
    /\ twkey = [t \in Tws |-> NoKey]
    /\ verdict = NoVerdict

\* The owner sets an entry, or deletes it (k = NoKey).
Set(s, a, k) ==
    /\ map' = [map EXCEPT ![s][a] = k]
    /\ verdict' = NoVerdict
    /\ UNCHANGED <<peer, twkey>>

\* A socket gets its peer; a child takes the listener's entry for it along.
Connect(s, a) ==
    /\ peer' = [peer EXCEPT ![s] = a]
    /\ verdict' = NoVerdict
    /\ UNCHANGED <<map, twkey>>

Inherit(l, c, a) ==
    /\ map[c] = NoKeys
    /\ peer' = [peer EXCEPT ![c] = a]
    /\ map' = [map EXCEPT ![c][a] = map[l][a]]
    /\ verdict' = NoVerdict
    /\ UNCHANGED twkey

\* The TIME_WAIT socket that takes a connection over keeps the key of its peer.
TimeWait(s, t) ==
    /\ peer[s] \in Addrs
    /\ twkey' = [twkey EXCEPT ![t] = map[s][peer[s]]]
    /\ verdict' = NoVerdict
    /\ UNCHANGED <<map, peer>>

EndTimeWait(t) ==
    /\ twkey' = [twkey EXCEPT ![t] = NoKey]
    /\ verdict' = NoVerdict
    /\ UNCHANGED <<map, peer>>

Destroy(s) ==
    /\ map' = [map EXCEPT ![s] = NoKeys]
    /\ peer' = [peer EXCEPT ![s] = NoAddr]
    /\ verdict' = NoVerdict
    /\ UNCHANGED twkey

\* A segment is taken only with the signature the map asks for; without a key it
\* is taken exactly when it has none.
Segment(s, a, sig) ==
    /\ \E taken \in BOOLEAN :
          /\ taken => sig = map[s][a]
          /\ map[s][a] = NoKey /\ sig = NoKey => taken
          /\ verdict' = [sk |-> s, from |-> a, sig |-> sig, taken |-> taken]
    /\ UNCHANGED <<map, peer, twkey>>

Quiet ==
    /\ verdict' = NoVerdict
    /\ UNCHANGED <<map, peer, twkey>>

Next ==
    \/ Quiet
    \/ \E s \in Socks : Destroy(s)
    \/ \E s \in Socks, a \in Addrs, k \in Keys \cup {NoKey} : Set(s, a, k)
    \/ \E s \in Socks, a \in Addrs : Connect(s, a)
    \/ \E l, c \in Socks, a \in Addrs : Inherit(l, c, a)
    \/ \E s \in Socks, t \in Tws : TimeWait(s, t)
    \/ \E t \in Tws : EndTimeWait(t)
    \/ \E s \in Socks, a \in Addrs, sig \in Keys \cup {NoKey} : Segment(s, a, sig)

Spec == Init /\ [][Next]_vars
=============================================================================
