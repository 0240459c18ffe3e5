---------------------------- MODULE MCMatching ----------------------------
(* Small instance of Matching: a game and its GOTY release on Steam, the   *)
(* game and its beta in one Epic namespace, an add-on of the Epic copy,    *)
(* another game on GOG, and a copy the user enters.                        *)
EXTENDS Matching, TLC

CONSTANTS s, goty, epic, beta, addon, gog, m, twin, other, game, sequel, ns, ns2, r1, r2

MCCopies == {s, goty, epic, beta, addon, gog, m}
MCTurn == (addon :> 1) @@ (s :> 2) @@ (goty :> 3) @@ (epic :> 4) @@ (beta :> 5) @@ (gog :> 6) @@ (m :> 7)
MCLib == (s :> "steam") @@ (goty :> "steam") @@ (epic :> "epic") @@ (beta :> "epic")
         @@ (addon :> "epic") @@ (gog :> "gog") @@ (m :> "manual")
MCKind == (addon :> "dlc") @@ [c \in MCCopies |-> "game"]
MCBase == (addon :> epic) @@ [c \in MCCopies |-> None]
MCGame == (s :> game) @@ (goty :> game) @@ (epic :> game) @@ (gog :> sequel) @@ [c \in MCCopies |-> None]
MCNamespace == [c \in {epic, beta, addon} |-> ns]
MCBaseGame == (ns :> game)
MCAppids == (game :> {10}) @@ (sequel :> {20})
MCListings == {{}, {s, goty}, {epic, addon}, {epic, beta}, {gog}}

(* For liveness: the game on either store, two Epic copies titled alike in *)
(* another namespace of it, and no user.                                   *)
MCLiveCopies == {epic, s, twin, other}
MCLiveTurn == (epic :> 1) @@ (twin :> 2) @@ (other :> 3) @@ (s :> 4)
MCLiveLib == [c \in MCLiveCopies |-> IF c = s THEN "steam" ELSE "epic"]
MCLiveKind == [c \in MCLiveCopies |-> "game"]
MCLiveBase == [c \in MCLiveCopies |-> None]
MCLiveGame == [c \in MCLiveCopies |-> game]
MCLiveNamespace == (epic :> ns) @@ (twin :> ns2) @@ (other :> ns2)
MCLiveBaseGame == (ns :> game) @@ (ns2 :> game)
MCLiveListings == {{}, {s}, {epic}, {epic, twin, other}}
MCLiveFilings == {{s, ns, ns2}, {ns, ns2}}

MCFilings == {{s, goty, gog, ns}}
Symmetry == Permutations(Runs)
=============================================================================
