--------------------------- MODULE SharedPeerStore ---------------------------
(***************************************************************************)
(* What storage.PeerStore promises when several instances of Chihaya share  *)
(* the peers.                                                               *)
(*                                                                         *)
(* The writing methods are those of PeerStore.  Collecting is weaker: an    *)
(* instance finds out which peers are stale and makes the store forget them *)
(* later, and by then another caller may have put one of them again.  Such  *)
(* a peer may be lost; a peer that was not stale at any time since the      *)
(* collection began may not.  Nothing stops the store: one instance that    *)
(* ends leaves the peers to the others.                                     *)
(***************************************************************************)
EXTENDS PeerStore

VARIABLES
    foundSeeders,    \* the pairs found stale, whose seeders may be forgotten
    foundLeechers    \* the same for leechers

found == <<foundSeeders, foundLeechers>>

SharedInit ==
    /\ Init
    /\ foundSeeders = {}
    /\ foundLeechers = {}

\* The pairs of the map m that are stale now.
Old(m) == {e \in Entry : m[e] # Absent /\ m[e] <= now - PeerLifetime}

\* Stale pairs are found, and found pairs given up.
Find ==
    /\ foundSeeders' \subseteq foundSeeders \cup Old(seeders)
    /\ foundLeechers' \subseteq foundLeechers \cup Old(leechers)
    /\ UNCHANGED vars

\* m2 is m1 without some of the pairs in F.
Loses(m1, m2, F) ==
    /\ m2 \in [Entry -> Int \cup {Absent}]
    /\ \A e \in Entry : m2[e] # m1[e] => m2[e] = Absent /\ e \in F

\* Pairs that were found are forgotten.
ForgetFound ==
    /\ Loses(seeders, seeders', foundSeeders)
    /\ Loses(leechers, leechers', foundLeechers)
    /\ foundSeeders' \subseteq foundSeeders
    /\ foundLeechers' \subseteq foundLeechers
    /\ UNCHANGED <<now, closed>>

SharedNext ==
    \/ /\ \/ Tick
          \/ \E e \in Entry :
                \/ PutSeeder(e)
                \/ DeleteSeeder(e)
                \/ PutLeecher(e)
                \/ DeleteLeecher(e)
                \/ GraduateLeecher(e)
       /\ UNCHANGED found
    \/ Find
    \/ ForgetFound

SharedSpec == SharedInit /\ [][SharedNext]_<<vars, found>>

=============================================================================
