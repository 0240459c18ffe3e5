---------------------------- MODULE OwnedCopies ----------------------------
(***************************************************************************)
(* What a sync promises the owner of a library, with no runs in it.        *)
(*                                                                         *)
(* Every account has a copy of some items.  A listing lands whole or not   *)
(* at all.  What it names is there; what it leaves out is marked removed   *)
(* only when it claimed to be the whole library, and never when the owner  *)
(* said to keep it.  Nothing ever deletes a copy (rule 1), and only the    *)
(* owner starts or stops keeping one (rule 3).                             *)
(***************************************************************************)
CONSTANTS Accounts,  \* accounts of the aggregated platforms
          Items      \* items a platform can name

VARIABLE copies      \* copies[a][i]: where the owner's copy of i stands

CopyState == {"absent", "live", "kept", "removed"}

TypeOK == copies \in [Accounts -> [Items -> CopyState]]

Init == copies = [a \in Accounts |-> [i \in Items |-> "absent"]]

(* One listing of account a: `listed` is there, and when the listing is    *)
(* `whole` the live copies it leaves out are removed.                      *)
Landing(before, listed, whole) ==
  [i \in Items |->
     IF i \in listed
       THEN IF before[i] = "kept" THEN "kept" ELSE "live"
       ELSE IF whole /\ before[i] = "live" THEN "removed" ELSE before[i]]

Land(a, listed, whole) ==
  copies' = [copies EXCEPT ![a] = Landing(copies[a], listed, whole)]

Restore(a, i) ==
  /\ copies[a][i] = "removed"
  /\ copies' = [copies EXCEPT ![a][i] = "kept"]

LetGo(a, i) ==
  /\ copies[a][i] = "kept"
  /\ copies' = [copies EXCEPT ![a][i] = "live"]

Next ==
  \E a \in Accounts :
     \/ \E listed \in SUBSET Items, whole \in BOOLEAN : Land(a, listed, whole)
     \/ \E i \in Items : Restore(a, i) \/ LetGo(a, i)

Spec == Init /\ [][Next]_copies
=============================================================================
