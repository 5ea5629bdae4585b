------------------------------- MODULE PeerBook -------------------------------
(***************************************************************************)
(* What an operator may count on of the interface while requests come one  *)
(* at a time: it is a book of addresses in which a device is entered once, *)
(* under an address of its own, and struck out for good.                   *)
(*                                                                         *)
(* Nobody's address is given to another device (Admit), a key that was     *)
(* struck out does not come back, and neither does one whose creation      *)
(* failed (Discard).  Only loading the interface from wg0.conf, which may  *)
(* be older than the table, enters what it likes (Load), and from then on  *)
(* a device may lose its address to a new one.                             *)
(*                                                                         *)
(* PeerService implements this with one slot for requests, whatever fails  *)
(* and wherever the process stops; with two slots it does not.             *)
(***************************************************************************)
CONSTANTS BookKeys, Addresses, NoKey

VARIABLES
    book,           \* address -> the key that it belongs to
    fresh,          \* keys that may still be entered
    loaded          \* has the interface been loaded from a file?

bookVars == <<book, fresh, loaded>>

Without(k) == [a \in Addresses |-> IF book[a] = k THEN NoKey ELSE book[a]]

\* no key at two addresses
EnteredOnce(b) ==
    \A a, c \in Addresses : b[a] # NoKey /\ b[a] = b[c] => a = c

BookInit ==
    /\ book = [a \in Addresses |-> NoKey]
    /\ fresh = BookKeys
    /\ loaded = FALSE

Admit(k, o) ==
    /\ k \in fresh
    /\ ~loaded => book[o] = NoKey /\ book = Without(k)
    /\ book' = [Without(k) EXCEPT ![o] = k]
    /\ fresh' = fresh \ {k}
    /\ UNCHANGED loaded

\* creations failed, or the process stopped: their key pairs are never used again
Discard(ks) ==
    /\ fresh' = fresh \ ks
    /\ UNCHANGED <<book, loaded>>

Expel(k) ==
    /\ book' = Without(k)
    /\ UNCHANGED <<fresh, loaded>>

Load ==
    /\ book' \in [Addresses -> BookKeys \cup {NoKey}]
    /\ EnteredOnce(book')
    /\ loaded' = TRUE
    /\ UNCHANGED fresh

BookNext ==
    \/ \E k \in BookKeys, o \in Addresses : Admit(k, o)
    \/ \E ks \in SUBSET BookKeys : Discard(ks)
    \/ \E k \in BookKeys : Expel(k)
    \/ Load

BookSpec == BookInit /\ [][BookNext]_bookVars
=============================================================================
